----------------------------- MODULE Reconciler -----------------------------
(***************************************************************************)
(* The reconcile loop of the MemgraphCluster controller and what it acts   *)
(* on: the MemgraphCluster object (spec and status) on the API server, the *)
(* objects it owns, and the replication role and registrations of every    *)
(* Memgraph instance.                                                      *)
(*                                                                         *)
(* One reconcile is a sequence of calls, and everything else (kubelet, the *)
(* StatefulSet controller, the user, snapshot Jobs, the informer caches)   *)
(* moves between any two of them.  There is one action per call of         *)
(* reconcileResources and ConfigureReplication; pc is the call that comes  *)
(* next.  The manager runs one reconcile at a time                         *)
(* (MaxConcurrentReconciles is left at 1, leader election is on).          *)
(*                                                                         *)
(* A pod is its ordinal.  Snapshot Job pods carry the cluster's labels, so *)
(* getClusterPods lists them too; they get the numbers after the           *)
(* instances.  The image of the StatefulSet is left out: what a change of  *)
(* it does to this state, recreating pods, is the action Evict.            *)
(***************************************************************************)
EXTENDS Integers, FiniteSets

CONSTANTS
    MaxReplicas,        \* the largest spec.replicas
    NumJobPods,         \* snapshot Job pods that may run at the same time
    ReplicaCounts,      \* values of spec.replicas the user chooses from
    PreferredMain,      \* spec.highAvailability.preferredMain, or NoPod
    MaxFaults,          \* bound on failing calls, pods, operator restarts, Jobs
    MaxEdits            \* bound on edits of the object

Instances == 0 .. MaxReplicas - 1
JobPods   == MaxReplicas .. MaxReplicas + NumJobPods - 1
AllPods   == Instances \cup JobPods

NoPod     == -1         \* the empty pod name
NoService == -2         \* the write service does not exist

ASSUME BoundsAssumption ==
    /\ MaxReplicas \in Nat \ {0}
    /\ NumJobPods \in Nat
    /\ MaxFaults \in Nat
    /\ MaxEdits \in Nat

ASSUME SpecAssumption ==
    /\ ReplicaCounts \subseteq 1 .. MaxReplicas
    /\ PreferredMain \in Instances \cup {NoPod}

VARIABLES
    cr,             \* the MemgraphCluster object on the API server
    sts,            \* spec.replicas of the StatefulSet, 0: not created
    owned,          \* which of the headless and read services exist
    svc,            \* pod-name selector of the write service
    crSeen,         \* the controller's cached copy of cr
    crSeenCurrent,  \* whether that copy has cr's resourceVersion
    stsSeen,        \* the controller's cached copy of sts
    svcSeen,        \* ... of svc
    podSeen,        \* ... of pod
    pod,            \* pod state: absent, there but not ready, or ready
    role,           \* replication role of each instance
    regs,           \* replicas registered with each instance
    pc,             \* next call of the running reconcile, or "idle"
    local,          \* spec.replicas and status.writeInstance in its copy
    localCurrent,   \* whether that copy has cr's resourceVersion
    listed,         \* the pods the reconcile listed
    listedReady,    \* those of them that were ready
    wi,             \* writeInstance: the pod it chose as MAIN
    current,        \* currentReplicas, as SHOW REPLICAS answered
    todo,           \* ready pods still to be configured as replicas
    registered,     \* registeredReplicas
    allHealthy,     \* healthyReplicas >= registeredReplicas
    faults,         \* faults and Job starts so far
    edits           \* edits so far

apiVars   == <<cr, sts, owned, svc>>
objectsSeen == <<stsSeen, svcSeen, podSeen>>
cacheVars == <<crSeen, crSeenCurrent, objectsSeen>>
podVars   == <<pod, role, regs>>
localVars == <<local, localCurrent, listed, listedReady, wi, current, todo,
               registered, allHealthy>>
budgets   == <<faults, edits>>
vars == <<apiVars, cacheVars, podVars, pc, localVars, budgets>>

Phases == {"", "Pending", "Initializing", "Running"}

Cluster == [exists : BOOLEAN, deleting : BOOLEAN, finalizer : BOOLEAN,
            replicas : 1 .. MaxReplicas, phase : Phases,
            main : AllPods \cup {NoPod}, ready : BOOLEAN]

\* The fields of the object that a reconcile reads before it writes.
View(c) == [exists |-> c.exists, deleting |-> c.deleting,
            finalizer |-> c.finalizer, replicas |-> c.replicas,
            fresh |-> c.phase = "", main |-> c.main]

Views == [exists : BOOLEAN, deleting : BOOLEAN, finalizer : BOOLEAN,
          replicas : 1 .. MaxReplicas, fresh : BOOLEAN,
          main : AllPods \cup {NoPod}]

Locals == [replicas : 1 .. MaxReplicas, main : AllPods \cup {NoPod}]

NoLocal == [replicas |-> 1, main |-> NoPod]

Steps == {"idle", "headless", "statefulset", "list", "writeService",
          "readService", "main", "show", "replica", "register", "cleanup",
          "health", "status"}

TypeOK ==
    /\ cr \in Cluster
    /\ sts \in 0 .. MaxReplicas
    /\ owned \subseteq {"headless", "read"}
    /\ svc \in AllPods \cup {NoPod, NoService}
    /\ crSeen \in Views
    /\ crSeenCurrent \in BOOLEAN
    /\ stsSeen \in 0 .. MaxReplicas
    /\ svcSeen \in AllPods \cup {NoPod, NoService}
    /\ podSeen \in [AllPods -> {"absent", "unready", "ready"}]
    /\ pod \in [AllPods -> {"absent", "unready", "ready"}]
    /\ role \in [Instances -> {"MAIN", "REPLICA"}]
    /\ regs \in [Instances -> SUBSET Instances]
    /\ \A p \in Instances : p \notin regs[p]
    /\ pc \in Steps
    /\ local \in Locals
    /\ localCurrent \in BOOLEAN
    /\ listed \subseteq AllPods
    /\ listedReady \subseteq listed
    /\ wi \in AllPods \cup {NoPod}
    /\ current \subseteq Instances
    /\ todo \subseteq AllPods
    /\ registered \in 0 .. MaxReplicas - 1
    /\ allHealthy \in BOOLEAN
    /\ faults \in 0 .. MaxFaults
    /\ edits \in 0 .. MaxEdits

\* The user has just created the object, the controller has heard of it.
Init ==
    /\ \E n \in ReplicaCounts :
         cr = [exists |-> TRUE, deleting |-> FALSE, finalizer |-> FALSE,
               replicas |-> n, phase |-> "", main |-> NoPod, ready |-> FALSE]
    /\ sts = 0
    /\ owned = {}
    /\ svc = NoService
    /\ crSeen = View(cr)
    /\ crSeenCurrent = TRUE
    /\ stsSeen = 0
    /\ svcSeen = NoService
    /\ podSeen = [p \in AllPods |-> "absent"]
    /\ pod = [p \in AllPods |-> "absent"]
    /\ role = [p \in Instances |-> "MAIN"]
    /\ regs = [p \in Instances |-> {}]
    /\ pc = "idle"
    /\ local = NoLocal
    /\ localCurrent = FALSE
    /\ listed = {}
    /\ listedReady = {}
    /\ wi = NoPod
    /\ current = {}
    /\ todo = {}
    /\ registered = 0
    /\ allHealthy = TRUE
    /\ faults = 0
    /\ edits = 0

-----------------------------------------------------------------------------
(* Writes to the MemgraphCluster object, and calls that can fail.          *)

\* A write gives the object a new resourceVersion: every copy is outdated.
Write(c) ==
    /\ cr' = c
    /\ crSeenCurrent' = FALSE
    /\ localCurrent' = FALSE

Fault ==
    /\ faults < MaxFaults
    /\ faults' = faults + 1
    /\ UNCHANGED edits

Edit ==
    /\ edits < MaxEdits
    /\ edits' = edits + 1
    /\ UNCHANGED faults

\* mgconsole runs in the memgraph container of a pod that is up.
CanExec(p) == p \in Instances /\ pod[p] # "absent"

\* The exec reports an error: the pod is not ready to answer, or a fault.
ExecFails(p) ==
    \/ /\ p \in JobPods \/ pod[p] # "ready"
       /\ UNCHANGED budgets
    \/ Fault

\* What a query that reported an error may have left behind: nothing, or,
\* when only the answer was lost, its effect.
MayHaveTakenEffect(p, before, after) ==
    IF CanExec(p) THEN {before, after} ELSE {before}

\* Reconcile returns; its variables go out of scope.
Return ==
    /\ pc' = "idle"
    /\ local' = NoLocal
    /\ localCurrent' = FALSE
    /\ listed' = {}
    /\ listedReady' = {}
    /\ wi' = NoPod
    /\ current' = {}
    /\ todo' = {}
    /\ registered' = 0
    /\ allHealthy' = TRUE

-----------------------------------------------------------------------------
(* Reconcile: the object is read from the cache.                           *)

\* Not found: only in-memory state is dropped (module ReplicaHealth).
HandleNotFound ==
    /\ pc = "idle"
    /\ ~crSeen.exists
    /\ UNCHANGED vars

\* Mutant of HandleDeletion: the status is initialised before deletion is
\* looked at, so a cluster deleted early keeps its finalizer.
MutantDeletionAfterInitialize ==
    /\ pc = "idle"
    /\ crSeen.exists /\ crSeen.deleting /\ crSeen.finalizer /\ ~crSeen.fresh
    /\ crSeenCurrent
    /\ Write([cr EXCEPT !.finalizer = FALSE, !.exists = FALSE])
    /\ UNCHANGED <<sts, owned, svc, crSeen, objectsSeen, podVars, pc, local,
                   listed, listedReady, wi, current, todo, registered,
                   allHealthy, budgets>>

\* The three early returns write the object once.  Their write is refused
\* with a conflict, and nothing changes, unless the cached copy is current.
HandleDeletion ==
    /\ pc = "idle"
    /\ crSeen.exists /\ crSeen.deleting /\ crSeen.finalizer
    /\ crSeenCurrent
    /\ Write([cr EXCEPT !.finalizer = FALSE, !.exists = FALSE])
    /\ UNCHANGED <<sts, owned, svc, crSeen, objectsSeen, podVars, pc, local,
                   listed, listedReady, wi, current, todo, registered,
                   allHealthy, budgets>>

AddFinalizer ==
    /\ pc = "idle"
    /\ crSeen.exists /\ ~crSeen.deleting /\ ~crSeen.finalizer
    /\ crSeenCurrent
    /\ Write([cr EXCEPT !.finalizer = TRUE])
    /\ UNCHANGED <<sts, owned, svc, crSeen, objectsSeen, podVars, pc, local,
                   listed, listedReady, wi, current, todo, registered,
                   allHealthy, budgets>>

\* Mutant of InitializeStatus: Update instead of Status().Update, which does
\* not store the status.
MutantStatusNotStored ==
    /\ pc = "idle"
    /\ crSeen.exists /\ ~crSeen.deleting /\ crSeen.finalizer /\ crSeen.fresh
    /\ crSeenCurrent
    /\ Write(cr)
    /\ UNCHANGED <<sts, owned, svc, crSeen, objectsSeen, podVars, pc, local,
                   listed, listedReady, wi, current, todo, registered,
                   allHealthy, budgets>>

InitializeStatus ==
    /\ pc = "idle"
    /\ crSeen.exists /\ ~crSeen.deleting /\ crSeen.finalizer /\ crSeen.fresh
    /\ crSeenCurrent
    /\ Write([cr EXCEPT !.phase = "Pending"])
    /\ UNCHANGED <<sts, owned, svc, crSeen, objectsSeen, podVars, pc, local,
                   listed, listedReady, wi, current, todo, registered,
                   allHealthy, budgets>>

StartReconcile ==
    /\ pc = "idle"
    /\ crSeen.exists /\ ~crSeen.deleting /\ crSeen.finalizer /\ ~crSeen.fresh
    /\ local' = [replicas |-> crSeen.replicas, main |-> crSeen.main]
    /\ localCurrent' = crSeenCurrent
    /\ pc' = "headless"
    /\ UNCHANGED <<apiVars, cacheVars, podVars, listed, listedReady, wi,
                   current, todo, registered, allHealthy, budgets>>

-----------------------------------------------------------------------------
(* reconcileResources.                                                     *)

ReconcileHeadlessService ==
    /\ pc = "headless"
    /\ owned' = owned \cup {"headless"}
    /\ pc' = "statefulset"
    /\ UNCHANGED <<cr, sts, svc, cacheVars, podVars, localVars, budgets>>

\* Create, scale or leave alone, decided on the cached copy.  A write decided
\* on an outdated copy is refused and ends the reconcile; a copy that happens
\* to have the wanted count leaves an outdated StatefulSet as it is.
ReconcileStatefulSet ==
    /\ pc = "statefulset"
    /\ \/ /\ stsSeen = local.replicas
          /\ pc' = "list"
          /\ UNCHANGED <<apiVars, localVars>>
       \/ /\ stsSeen # local.replicas
          /\ stsSeen = sts
          /\ sts' = local.replicas
          /\ pc' = "list"
          /\ UNCHANGED <<cr, owned, svc, localVars>>
       \/ /\ stsSeen # local.replicas
          /\ stsSeen # sts
          /\ Return
          /\ UNCHANGED apiVars
    /\ UNCHANGED <<cacheVars, podVars, budgets>>

\* Mutant of DetermineWriteInstance: the preferred main comes first.
MutantPreferredFirst(main, ready) ==
    CASE PreferredMain \in ready                     -> {PreferredMain}
      [] PreferredMain \notin ready /\ main \in ready -> {main}
      [] PreferredMain \notin ready /\ main \notin ready /\ ready # {} -> ready
      [] OTHER                                       -> {NoPod}

\* The pod the reported main leaves the choice to: itself while it is ready,
\* else the preferred one if ready, else the first ready pod of a List
\* whose order the informer cache does not fix.
DetermineWriteInstance(main, ready) ==
    CASE main \in ready                          -> {main}
      [] main \notin ready /\ PreferredMain \in ready -> {PreferredMain}
      [] main \notin ready /\ PreferredMain \notin ready /\ ready # {} -> ready
      [] OTHER                                   -> {NoPod}

\* The List is answered by the informer cache.
SeenReady == {p \in AllPods : podSeen[p] = "ready"}

GetClusterPods ==
    /\ pc = "list"
    /\ listed' = {p \in AllPods : podSeen[p] # "absent"}
    /\ listedReady' = SeenReady
    /\ wi' \in DetermineWriteInstance(local.main, listedReady')
    /\ pc' = "writeService"
    /\ UNCHANGED <<apiVars, cacheVars, podVars, local, localCurrent, current,
                   todo, registered, allHealthy, budgets>>

\* Mutant of ReconcileWriteService: the selector is compared as a whole, also
\* when no pod was elected.
MutantEmptySelectorWritten ==
    /\ pc = "writeService"
    /\ svc' = IF svcSeen # wi /\ svcSeen = svc THEN wi ELSE svc
    /\ pc' = "readService"
    /\ UNCHANGED <<cr, sts, owned, localVars, cacheVars, podVars, budgets>>

\* Create, update or leave alone, decided on the cached copy.  A create or
\* update decided on an outdated copy is refused and ends the reconcile.
ReconcileWriteService ==
    /\ pc = "writeService"
    /\ LET write == svcSeen = NoService \/ (svcSeen # wi /\ wi # NoPod)
       IN  \/ /\ ~write
              /\ pc' = "readService"
              /\ UNCHANGED <<apiVars, localVars>>
           \/ /\ write
              /\ svcSeen = svc
              /\ svc' = wi
              /\ pc' = "readService"
              /\ UNCHANGED <<cr, sts, owned, localVars>>
           \/ /\ write
              /\ svcSeen # svc
              /\ Return
              /\ UNCHANGED apiVars
    /\ UNCHANGED <<cacheVars, podVars, budgets>>

ConfiguresReplication == wi # NoPod /\ Cardinality(listed) > 1

ReconcileReadService ==
    /\ pc = "readService"
    /\ owned' = owned \cup {"read"}
    /\ pc' = IF ConfiguresReplication THEN "main" ELSE "status"
    /\ UNCHANGED <<cr, sts, svc, cacheVars, podVars, localVars, budgets>>

-----------------------------------------------------------------------------
(* ConfigureReplication and CheckReplicationHealth.                        *)

\* Role queries and role changes are idempotent on the role they ask for.
Promote(p) == [role EXCEPT ![p] = "MAIN"]

EnsureMainRole ==
    /\ pc = "main"
    /\ CanExec(wi)
    /\ role' = Promote(wi)
    /\ pc' = "show"
    /\ UNCHANGED <<apiVars, cacheVars, pod, regs, localVars, budgets>>

\* Mutant of EnsureMainRoleFails: the error is logged, not returned.
MutantMainErrorIgnored ==
    /\ pc = "main"
    /\ ExecFails(wi)
    /\ role' \in MayHaveTakenEffect(wi, role, Promote(wi))
    /\ pc' = "show"
    /\ UNCHANGED <<apiVars, cacheVars, pod, regs, localVars>>

\* ConfigureReplication returns the error and nothing more is configured.
EnsureMainRoleFails ==
    /\ pc = "main"
    /\ ExecFails(wi)
    /\ role' \in MayHaveTakenEffect(wi, role, Promote(wi))
    /\ pc' = "status"
    /\ UNCHANGED <<apiVars, cacheVars, pod, regs, localVars>>

\* Mutant of ReadyReplicas: pods that are not ready are not filtered out.
MutantAllListed == listed \ {wi}

ReadyReplicas == listedReady \ {wi}

ShowReplicas ==
    /\ pc = "show"
    /\ \/ /\ CanExec(wi)
          /\ current' = regs[wi]
          /\ UNCHANGED budgets
       \/ /\ ExecFails(wi)
          /\ current' = {}
    /\ todo' = ReadyReplicas
    /\ pc' = IF ReadyReplicas = {} THEN "cleanup" ELSE "replica"
    /\ UNCHANGED <<apiVars, cacheVars, podVars, local, localCurrent, listed,
                   listedReady, wi, registered, allHealthy>>

IsNext(p) == p \in todo /\ \A q \in todo : p <= q

\* The loop goes on with the next ready pod, or is over.
Continue(p) ==
    /\ todo' = todo \ {p}
    /\ pc' = IF todo = {p} THEN "cleanup" ELSE "replica"

\* A MAIN that becomes REPLICA forgets the replicas registered with it.
Demote(p) ==
    /\ role' = [role EXCEPT ![p] = "REPLICA"]
    /\ regs' = IF role[p] = "MAIN" THEN [regs EXCEPT ![p] = {}] ELSE regs

EnsureReplicaRole(p) ==
    /\ pc = "replica"
    /\ IsNext(p)
    /\ CanExec(p)
    /\ Demote(p)
    /\ IF p \in current
       THEN Continue(p)
       ELSE pc' = "register" /\ UNCHANGED todo
    /\ UNCHANGED <<apiVars, cacheVars, pod, local, localCurrent, listed,
                   listedReady, wi, current, registered, allHealthy,
                   budgets>>

\* The error is logged and the pod skipped.
EnsureReplicaRoleFails(p) ==
    /\ pc = "replica"
    /\ IsNext(p)
    /\ ExecFails(p)
    /\ \/ UNCHANGED <<role, regs>>
       \/ CanExec(p) /\ Demote(p)
    /\ Continue(p)
    /\ UNCHANGED <<apiVars, cacheVars, pod, local, localCurrent, listed,
                   listedReady, wi, current, registered, allHealthy>>

\* Only a MAIN takes registrations.
Register(p) ==
    IF role[wi] = "MAIN" THEN [regs EXCEPT ![wi] = @ \cup {p}] ELSE regs

RegisterReplica(p) ==
    /\ pc = "register"
    /\ IsNext(p)
    /\ \/ /\ CanExec(wi)
          /\ regs' = Register(p)
          /\ UNCHANGED budgets
       \/ /\ ExecFails(wi)
          /\ regs' \in MayHaveTakenEffect(wi, regs, Register(p))
    /\ Continue(p)
    /\ UNCHANGED <<apiVars, cacheVars, pod, role, local, localCurrent, listed,
                   listedReady, wi, current, registered, allHealthy>>

\* Mutant of StaleReplicas: nothing is dropped.
MutantNothingStale == {}

\* Mutant of StaleReplicas: tested against what the loop has left to do.
MutantStaleAgainstTodo == current \ todo

\* One DROP REPLICA per registration that no ready pod accounts for; some of
\* them may fail, which is logged.
StaleReplicas == current \ ReadyReplicas

CleanupStaleReplicas ==
    /\ pc = "cleanup"
    /\ \/ /\ StaleReplicas = {} \/ CanExec(wi)
          /\ regs' = [regs EXCEPT ![wi] = @ \ StaleReplicas]
          /\ UNCHANGED budgets
       \/ /\ StaleReplicas # {}
          /\ ExecFails(wi)
          /\ \E dropped \in SUBSET StaleReplicas :
               regs' \in MayHaveTakenEffect(wi, regs,
                                            [regs EXCEPT ![wi] = @ \ dropped])
    /\ pc' = "health"
    /\ UNCHANGED <<apiVars, cacheVars, pod, role, localVars>>

\* Mutant of RegisteredReplicas: the main is counted as well.
MutantMainCounted == Cardinality(regs[wi] \cup {wi})

RegisteredReplicas == Cardinality(regs[wi])

\* The verdict on each registered replica is that of module ReplicaHealth;
\* here it is any.  On an error the two counts stay 0.
CheckReplicationHealth ==
    /\ pc = "health"
    /\ \/ /\ CanExec(wi)
          /\ registered' = RegisteredReplicas
          /\ allHealthy' \in IF regs[wi] = {} THEN {TRUE} ELSE BOOLEAN
          /\ UNCHANGED budgets
       \/ /\ ExecFails(wi)
          /\ UNCHANGED <<registered, allHealthy>>
    /\ pc' = "status"
    /\ UNCHANGED <<apiVars, cacheVars, podVars, local, localCurrent, listed,
                   listedReady, wi, current, todo>>

-----------------------------------------------------------------------------
(* updateStatus.                                                           *)

PhaseFor(readyCount, replicas) ==
    CASE readyCount = 0                           -> "Pending"
      [] readyCount > 0 /\ readyCount < replicas  -> "Initializing"
      [] OTHER                                    -> "Running"

ReadyCondition(readyCount, replicas) ==
    /\ wi # NoPod
    /\ readyCount >= replicas
    /\ registered >= replicas - 1
    /\ allHealthy

\* Refused with a conflict when the reconcile's copy is outdated.
UpdateStatus ==
    /\ pc = "status"
    /\ LET readyCount == Cardinality(listedReady)
           status == [cr EXCEPT
               !.phase = PhaseFor(readyCount, local.replicas),
               !.main  = wi,
               !.ready = ReadyCondition(readyCount, local.replicas)]
       IN  \/ localCurrent  /\ Write(status)
           \/ ~localCurrent /\ UNCHANGED <<cr, crSeenCurrent>>
    /\ Return
    /\ UNCHANGED <<sts, owned, svc, crSeen, objectsSeen, podVars, budgets>>

\* An API call fails, or the operator dies: the reconcile ends where it is.
Abort ==
    /\ pc # "idle"
    /\ Fault
    /\ Return
    /\ UNCHANGED <<apiVars, cacheVars, podVars>>

ReconcileStep ==
    \/ HandleNotFound \/ HandleDeletion \/ AddFinalizer \/ InitializeStatus
    \/ StartReconcile
    \/ ReconcileHeadlessService \/ ReconcileStatefulSet \/ GetClusterPods
    \/ ReconcileWriteService \/ ReconcileReadService
    \/ EnsureMainRole \/ EnsureMainRoleFails \/ ShowReplicas
    \/ \E p \in AllPods : EnsureReplicaRole(p) \/ EnsureReplicaRoleFails(p)
    \/ \E p \in Instances : RegisterReplica(p)
    \/ CleanupStaleReplicas \/ CheckReplicationHealth \/ UpdateStatus

-----------------------------------------------------------------------------
(* The user, Kubernetes and Memgraph.                                      *)

Scale(n) ==
    /\ cr.exists /\ ~cr.deleting
    /\ n # cr.replicas
    /\ Edit
    /\ Write([cr EXCEPT !.replicas = n])
    /\ UNCHANGED <<sts, owned, svc, crSeen, objectsSeen, podVars, pc, local,
                   listed, listedReady, wi, current, todo, registered,
                   allHealthy>>

\* The object stays until its finalizer is removed.
Delete ==
    /\ cr.exists /\ ~cr.deleting
    /\ Edit
    /\ Write([cr EXCEPT !.deleting = TRUE, !.exists = cr.finalizer])
    /\ UNCHANGED <<sts, owned, svc, crSeen, objectsSeen, podVars, pc, local,
                   listed, listedReady, wi, current, todo, registered,
                   allHealthy>>

\* What SetControllerReference buys: owned objects go with their owner.
GarbageCollect ==
    /\ ~cr.exists
    /\ sts # 0 \/ owned # {} \/ svc # NoService
    /\ sts' = 0
    /\ owned' = {}
    /\ svc' = NoService
    /\ UNCHANGED <<cr, cacheVars, podVars, pc, localVars, budgets>>

SyncCluster ==
    /\ ~crSeenCurrent
    /\ crSeen' = View(cr)
    /\ crSeenCurrent' = TRUE
    /\ UNCHANGED <<apiVars, objectsSeen, podVars, pc, localVars, budgets>>

SyncStatefulSet ==
    /\ stsSeen # sts
    /\ stsSeen' = sts
    /\ UNCHANGED <<apiVars, crSeen, crSeenCurrent, svcSeen, podSeen, podVars,
                   pc, localVars, budgets>>

SyncService ==
    /\ svcSeen # svc
    /\ svcSeen' = svc
    /\ UNCHANGED <<apiVars, crSeen, crSeenCurrent, stsSeen, podSeen, podVars,
                   pc, localVars, budgets>>

SyncPods ==
    /\ podSeen # pod
    /\ podSeen' = pod
    /\ UNCHANGED <<apiVars, crSeen, crSeenCurrent, stsSeen, svcSeen, podVars,
                   pc, localVars, budgets>>

\* The init container clear-replication-state of a new pod makes Memgraph
\* start as a MAIN without replicas; a container restart does not run it.
CreatePod(p) ==
    /\ p < sts
    /\ pod[p] = "absent"
    /\ pod' = [pod EXCEPT ![p] = "unready"]
    /\ role' = [role EXCEPT ![p] = "MAIN"]
    /\ regs' = [regs EXCEPT ![p] = {}]
    /\ UNCHANGED <<apiVars, cacheVars, pc, localVars, budgets>>

DeletePod(p) ==
    /\ p >= sts
    /\ pod[p] # "absent"
    /\ pod' = [pod EXCEPT ![p] = "absent"]
    /\ UNCHANGED <<apiVars, cacheVars, role, regs, pc, localVars, budgets>>

Evict(p) ==
    /\ pod[p] # "absent"
    /\ Fault
    /\ pod' = [pod EXCEPT ![p] = "absent"]
    /\ UNCHANGED <<apiVars, cacheVars, role, regs, pc, localVars>>

BecomeReady(p) ==
    /\ pod[p] = "unready"
    /\ pod' = [pod EXCEPT ![p] = "ready"]
    /\ UNCHANGED <<apiVars, cacheVars, role, regs, pc, localVars, budgets>>

\* A failing probe or a container restart.
BecomeUnready(p) ==
    /\ pod[p] = "ready"
    /\ Fault
    /\ pod' = [pod EXCEPT ![p] = "unready"]
    /\ UNCHANGED <<apiVars, cacheVars, role, regs, pc, localVars>>

\* The Job's pod has no readiness probe: it is ready while it uploads.
StartJob(p) ==
    /\ sts # 0
    /\ pod[p] = "absent"
    /\ Fault
    /\ pod' = [pod EXCEPT ![p] = "ready"]
    /\ UNCHANGED <<apiVars, cacheVars, role, regs, pc, localVars>>

\* The pod of a finished Job is not ready any more, and still listed ...
EndJob(p) ==
    /\ pod[p] = "ready"
    /\ pod' = [pod EXCEPT ![p] = "unready"]
    /\ UNCHANGED <<apiVars, cacheVars, role, regs, pc, localVars, budgets>>

\* ... until its Job is deleted: by the history limit of the CronJob, some
\* day, or with the cluster.
CollectJob(p) ==
    /\ pod[p] = "unready"
    /\ pod' = [pod EXCEPT ![p] = "absent"]
    /\ UNCHANGED <<apiVars, cacheVars, role, regs, pc, localVars, budgets>>

Environment ==
    \/ \E n \in ReplicaCounts : Scale(n)
    \/ Delete \/ GarbageCollect
    \/ SyncCluster \/ SyncStatefulSet \/ SyncService \/ SyncPods
    \/ \E p \in Instances : \/ CreatePod(p) \/ DeletePod(p) \/ Evict(p)
                            \/ BecomeReady(p) \/ BecomeUnready(p)
    \/ \E p \in JobPods : StartJob(p) \/ EndJob(p) \/ CollectJob(p)

Next == ReconcileStep \/ Abort \/ Environment

\* Every return of Reconcile requeues, an error with backoff, so the loop
\* keeps running; informers, the StatefulSet controller, the garbage
\* collector and pods that start all make progress; nothing makes a fault or
\* an edit happen.
Fairness ==
    /\ WF_vars(ReconcileStep)
    /\ WF_vars(GarbageCollect)
    /\ WF_vars(SyncCluster) /\ WF_vars(SyncStatefulSet)
    /\ WF_vars(SyncService) /\ WF_vars(SyncPods)
    /\ \A p \in Instances : /\ WF_vars(CreatePod(p)) /\ WF_vars(DeletePod(p))
                            /\ WF_vars(BecomeReady(p))
    /\ \A p \in JobPods : /\ WF_vars(EndJob(p))
                          /\ WF_vars(~cr.exists /\ CollectJob(p))

Spec == Init /\ [][Next]_vars /\ Fairness

-----------------------------------------------------------------------------
(* Properties.                                                             *)

IsDemoted(p) == role[p] = "MAIN" /\ role'[p] = "REPLICA"

\* The published write instance is only ever replaced by a reconcile that
\* listed it as not ready: determineWriteInstance is sticky, and a reconcile
\* whose copy of the status is outdated cannot publish its choice, because
\* the API server refuses the status update with a conflict.
KeepsReadyMain ==
    [][cr.main # NoPod /\ cr'.main # cr.main => cr.main \notin listedReady]_vars

\* ConfigureReplication takes the MAIN role from the published write instance
\* only in a reconcile that read another write instance from its cache.
DemotesReportedMainOnlyWhenOutdated ==
    [][\A p \in Instances :
          IsDemoted(p) /\ p = cr.main => local.main # cr.main]_vars

\* No instance is demoted before the chosen write instance is MAIN:
\* ConfigureReplication stops at the first error of ensureMainRole.
DemotesOnlyUnderAMain ==
    [][\A p \in Instances :
          IsDemoted(p) => wi \in Instances \ {p} /\ role[wi] = "MAIN"]_vars

\* An instance that is there is MAIN.
LiveMain == \E p \in Instances : pod[p] # "absent" /\ role[p] = "MAIN"

\* The instances that are there lose their last MAIN only when a pod goes away,
\* or to a reconcile whose write instance, promoted before, has gone away when
\* the loop demotes the others: ConfigureReplication does not look again.
KeepsALiveMain ==
    [][LiveMain /\ ~LiveMain' =>
          \/ \E p \in Instances : pod[p] # "absent" /\ pod'[p] = "absent"
          \/ wi \in Instances /\ pod[wi] = "absent"]_vars

\* What the four properties above rest on, between any two calls:
\* - a copy of the object with its resourceVersion has its content;
\* - past the List, the chosen write instance was listed as ready, and is the
\*   reported one if that was;
\* - what is left to demote, and only the loop over the replicas has that,
\*   was listed as ready and is not the chosen one;
\* - past ensureMainRole the chosen instance is MAIN.
ReconcileInv ==
    /\ crSeenCurrent => crSeen = View(cr)
    /\ localCurrent => pc # "idle" /\ local.main = cr.main
    /\ pc \notin {"idle", "headless", "statefulset", "list"} =>
          /\ wi \in listedReady \cup {NoPod}
          /\ local.main \in listedReady => wi = local.main
    /\ todo \subseteq listedReady \ {wi}
    /\ pc \notin {"replica", "register"} => todo = {}
    /\ pc \in {"show", "replica", "register", "cleanup", "health"} =>
          wi \in Instances /\ role[wi] = "MAIN"

\* The write service is moved only to a pod that the same reconcile listed as
\* ready, and to no other than the reported main if that was; it is without a
\* pod name, selecting every instance, only from its creation to the first
\* election.  A reconcile that lists no ready pod builds a selector without a
\* name too, and its cached copy of the service may be outdated or missing.
WriteServiceStaysPinned ==
    [][svc' # svc =>
          \/ /\ svc' \in listedReady
             /\ local.main \in listedReady => svc' = local.main
          \/ svc = NoService /\ svc' = NoPod
          \/ ~cr.exists /\ svc' = NoService]_vars

Listed == pc \notin {"idle", "headless", "statefulset", "list"}

\* The reconcile's copy of the status is current and its List did not show
\* the published main as ready.
SuspectsMain == localCurrent /\ Listed /\ cr.main \notin listedReady

\* What the rest of the system may rely on.
Elected == INSTANCE Election WITH
    ready <- SeenReady, main <- cr.main, choice <- wi, suspect <- SuspectsMain

\* The reconcile loop, call by call and with every fault between the calls,
\* implements the election: the published main is replaced only when a
\* reconcile that knew it found it not ready, nothing is demoted without a
\* MAIN to follow, and registrations go to a MAIN.
ImplementsElection == Elected!ElectionSpec

\* What a reconcile of a healthy cluster leads to: one MAIN that is
\* published and behind the write service, every other instance a replica
\* of it, no other registration.
Converged ==
    LET instances == 0 .. cr.replicas - 1
    IN  /\ cr.main \in instances
        /\ svc = cr.main
        /\ \A p \in instances :
              role[p] = IF p = cr.main THEN "MAIN" ELSE "REPLICA"
        /\ regs[cr.main] = instances \ {cr.main}
        /\ sts = cr.replicas
        /\ cr.phase = "Running"

\* Once faults and edits stop, the reconcile loop brings the cluster there
\* for good, whatever faults hit which call before.
Converges == <>[](cr.exists /\ ~cr.deleting => Converged)

\* What a running reconcile has read of the cluster so far is up to date, and
\* it found nothing to register.
ReadsUpToDate ==
    /\ pc # "idle" => local = [replicas |-> cr.replicas, main |-> cr.main]
    /\ Listed => /\ wi = cr.main
                 /\ listedReady = 0 .. cr.replicas - 1
    /\ pc \in {"replica", "cleanup"} => current = regs[cr.main]
    /\ pc # "register"

\* Converged, exactly the instances there and ready, and nothing outdated in
\* the caches or in the variables of a running reconcile.  The pod of a
\* finished snapshot Job may still be listed.
Settled ==
    /\ cr.exists /\ ~cr.deleting /\ cr.finalizer
    /\ Converged
    /\ \A p \in Instances : pod[p] = IF p < cr.replicas THEN "ready" ELSE "absent"
    /\ \A p \in JobPods : pod[p] # "ready"
    /\ SeenReady = 0 .. cr.replicas - 1
    /\ crSeen = View(cr)
    /\ stsSeen = sts
    /\ svcSeen = svc
    /\ ReadsUpToDate

\* The reconciles that go on every requeue leave a settled cluster alone:
\* electing, promoting, demoting, registering and dropping again change
\* nothing, and only a fault, an edit or a snapshot Job moves it.  This is the
\* safety half of Converges.
SettledIsStable == [][Settled => Settled' \/ budgets' # budgets]_vars

Gone ==
    /\ ~cr.exists
    /\ sts = 0 /\ owned = {} /\ svc = NoService
    /\ \A p \in AllPods : pod[p] = "absent"

\* A deleted cluster goes away with everything it owns, also when the
\* deletion meets a running reconcile that goes on creating objects.
DeletionCompletes == <>[](cr.deleting => Gone)

\* The comment on determineWriteInstance: a write instance that is still
\* ready, in the very List the choice is made from, is kept.
KeepsReportedReadyMain ==
    [][\A p \in Instances :
          IsDemoted(p) => ~(p = cr.main /\ p \in listedReady)]_vars

\* The doc of the Ready condition: the cluster is fully operational, so the
\* main that is published with it does not stay a replica forever.
ReadyMainIsMain ==
    []<>(cr.exists /\ cr.ready => cr.main \in Instances /\ role[cr.main] = "MAIN")
=============================================================================
