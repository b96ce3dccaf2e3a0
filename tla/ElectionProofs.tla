--------------------------- MODULE ElectionProofs ---------------------------
(***************************************************************************)
(* The reconcile loop implements the election: every call of Reconciler is *)
(* a step of Election or changes nothing that Election talks about.  One   *)
(* lemma per kind of call; the invariant of ReconcilerProofs supplies what *)
(* a call knows of the calls before it.                                    *)
(***************************************************************************)
EXTENDS ReconcilerProofs

\* Election sees these of Reconciler's variables.
LEMMA Stutters ==
    ASSUME UNCHANGED <<podSeen, role, regs, svc, wi>>, cr'.main = cr.main,
           SuspectsMain' = SuspectsMain
    PROVE  UNCHANGED Elected!electionVars
BY DEF Elected!electionVars, SeenReady

\* A reconcile that is not past its List suspects nobody.
LEMMA NotListed == ASSUME pc \in {"idle", "headless", "statefulset", "list"}
                   PROVE  SuspectsMain = FALSE
BY DEF SuspectsMain, Listed

\* Calls that create or read objects, and the caches, are invisible.
LEMMA QuietCalls ==
    ASSUME TypeOK,
           \/ HandleNotFound \/ StartReconcile \/ ReconcileHeadlessService
           \/ ReconcileReadService \/ ShowReplicas \/ CheckReplicationHealth
           \/ SyncCluster \/ SyncStatefulSet \/ SyncService
           \/ UNCHANGED vars
    PROVE  UNCHANGED Elected!electionVars
<1>1. UNCHANGED <<podSeen, role, regs, svc, wi>> /\ cr' = cr
  BY DEF HandleNotFound, StartReconcile, ReconcileHeadlessService,
     ReconcileReadService, ShowReplicas, CheckReplicationHealth, SyncCluster,
     SyncStatefulSet, SyncService, vars, apiVars, podVars, localVars,
     cacheVars, objectsSeen
<1>2. SuspectsMain' = SuspectsMain
  <2>1. CASE StartReconcile \/ ReconcileHeadlessService
    BY <2>1, NotListed DEF StartReconcile, ReconcileHeadlessService,
       SuspectsMain, Listed
  <2>2. CASE \/ HandleNotFound \/ SyncCluster \/ SyncStatefulSet \/ SyncService
             \/ UNCHANGED vars
    BY <2>2 DEF HandleNotFound, SyncCluster, SyncStatefulSet, SyncService,
       vars, apiVars, localVars, SuspectsMain, Listed
  <2>3. CASE ReconcileReadService \/ ShowReplicas \/ CheckReplicationHealth
    <3>1. Listed /\ Listed'
      <4>1. /\ pc \in {"readService", "show", "health"}
            /\ pc' \in {"main", "status", "cleanup", "replica"}
        BY <2>3 DEF ReconcileReadService, ShowReplicas, CheckReplicationHealth
      <4> QED
        BY <4>1 DEF Listed
    <3>2. UNCHANGED <<localCurrent, listedReady, cr>>
      BY <2>3 DEF ReconcileReadService, ShowReplicas, CheckReplicationHealth,
         localVars, apiVars
    <3> QED
      BY <3>1, <3>2 DEF SuspectsMain
  <2> QED
    BY <2>1, <2>2, <2>3
<1> QED
  BY <1>1, <1>2, Stutters

\* A write to the object by anything but updateStatus leaves the main alone
\* and outdates the reconcile's copy.
LEMMA OtherWrites ==
    ASSUME TypeOK,
           \/ HandleDeletion \/ AddFinalizer \/ InitializeStatus \/ Delete
           \/ \E n \in ReplicaCounts : Scale(n)
    PROVE  Elected!GiveUp
<1>1. cr'.main = cr.main /\ localCurrent' = FALSE
  BY DEF HandleDeletion, AddFinalizer, InitializeStatus, Delete, Scale, Write,
     TypeOK, Cluster
<1>2. UNCHANGED <<podSeen, role, regs, svc, wi>>
  BY DEF HandleDeletion, AddFinalizer, InitializeStatus, Delete, Scale,
     podVars, objectsSeen
<1> QED
  BY <1>1, <1>2 DEF Elected!GiveUp, SuspectsMain, SeenReady

\* A reconcile that returns without the status update gives up.
LEMMA Returns ==
    ASSUME Return, UNCHANGED <<podSeen, role, regs, svc>>, cr'.main = cr.main
    PROVE  Elected!GiveUp
BY DEF Return, Elected!GiveUp, SuspectsMain, SeenReady

\* reconcileStatefulSet changes nothing that the election is about, or ends the
\* reconcile.
LEMMA StatefulSetIsQuiet ==
    ASSUME TypeOK, ReconcileStatefulSet
    PROVE  UNCHANGED Elected!electionVars \/ Elected!GiveUp
<1>1. UNCHANGED <<podSeen, role, regs, svc>> /\ cr' = cr
  BY DEF ReconcileStatefulSet, apiVars, cacheVars, objectsSeen, podVars
<1>2. CASE Return
  BY <1>1, <1>2, Returns
<1>3. CASE UNCHANGED localVars /\ pc' = "list"
  <2>1. SuspectsMain' = FALSE /\ SuspectsMain = FALSE
    BY <1>3 DEF ReconcileStatefulSet, SuspectsMain, Listed
  <2> QED
    BY <1>1, <1>3, <2>1, Stutters DEF localVars
<1> QED
  BY <1>2, <1>3 DEF ReconcileStatefulSet

\* The List is where the choice is made, among the pods seen as ready.
LEMMA ListChooses ==
    ASSUME TypeOK, GetClusterPods
    PROVE  \E p \in Elected!Pods \cup {NoPod} : Elected!Choose(p)
<1>1. listedReady' = SeenReady
  BY DEF GetClusterPods
<1>2. wi' \in SeenReady \cup {NoPod}
  BY <1>1, ElectionType DEF GetClusterPods
<1>3. wi' \in Elected!Pods \cup {NoPod}
  BY <1>2 DEF SeenReady, Elected!Pods, AllPods
<1>4. UNCHANGED <<role, regs, svc, cr, localCurrent>> /\ SeenReady' = SeenReady
  BY DEF GetClusterPods, apiVars, cacheVars, objectsSeen, podVars, SeenReady
<1>5. SuspectsMain' \in {FALSE, cr.main \notin SeenReady}
  BY <1>1, <1>4 DEF SuspectsMain, Listed, GetClusterPods, TypeOK
<1>6. Elected!Choose(wi')
  BY <1>2, <1>4, <1>5 DEF Elected!Choose
<1> QED
  BY <1>3, <1>6

\* The write service is written with the choice, or the reconcile ends.
LEMMA ServiceRoutes ==
    ASSUME TypeOK, ReconcileWriteService
    PROVE  UNCHANGED Elected!electionVars \/ Elected!Route \/ Elected!GiveUp
<1> USE DEF ReconcileWriteService
<1>1. UNCHANGED <<podSeen, role, regs, cr>>
  BY DEF podVars, apiVars, cacheVars, objectsSeen
<1>2. CASE Return /\ UNCHANGED apiVars
  BY <1>1, <1>2, Returns DEF apiVars
<1>3. CASE pc' = "readService" /\ UNCHANGED localVars
  <2>1. Listed /\ Listed' /\ UNCHANGED <<localCurrent, listedReady, wi>>
    BY <1>3 DEF Listed, localVars
  <2>2. SuspectsMain' = SuspectsMain
    BY <1>1, <2>1 DEF SuspectsMain
  <2>3. CASE svc' = svc
    BY <1>1, <2>1, <2>2, <2>3, Stutters
  <2>4. CASE svc' # svc
    <3>1. svc' = wi /\ (wi # NoPod \/ svc = NoService)
      BY <1>3, <2>4 DEF apiVars
    <3> QED
      BY <1>1, <2>1, <2>2, <3>1 DEF Elected!Route, SeenReady
  <2> QED
    BY <2>3, <2>4
<1> QED
  BY <1>2, <1>3

\* ensureMainRole promotes the choice, also when only its answer is lost.
LEMMA MainIsPromoted ==
    ASSUME TypeOK, EnsureMainRole \/ EnsureMainRoleFails
    PROVE  UNCHANGED Elected!electionVars \/ Elected!Promote
<1>1. UNCHANGED <<podSeen, regs, svc, cr, localCurrent, listedReady, wi>>
  BY DEF EnsureMainRole, EnsureMainRoleFails, apiVars, cacheVars, objectsSeen,
     localVars
<1>2. Listed /\ Listed'
  BY DEF EnsureMainRole, EnsureMainRoleFails, Listed
<1>3. SuspectsMain' = SuspectsMain
  BY <1>1, <1>2 DEF SuspectsMain
<1>4. role' = role \/ (wi \in Instances /\ role' = [role EXCEPT ![wi] = "MAIN"])
  BY DEF EnsureMainRole, EnsureMainRoleFails, MayHaveTakenEffect, CanExec, Promote
<1>5. CASE role' = role
  BY <1>1, <1>3, <1>5, Stutters
<1>6. CASE wi \in Instances /\ role' = [role EXCEPT ![wi] = "MAIN"]
  BY <1>1, <1>3, <1>6 DEF Elected!Promote, SeenReady
<1> QED
  BY <1>4, <1>5, <1>6

\* ensureReplicaRole demotes another pod than the choice, which is MAIN.
LEMMA ReplicaIsDemoted ==
    ASSUME TypeOK, ReconcileInv, NEW p \in AllPods,
           EnsureReplicaRole(p) \/ EnsureReplicaRoleFails(p)
    PROVE  \/ UNCHANGED Elected!electionVars
           \/ \E q \in Instances : Elected!Demote(q)
<1>1. UNCHANGED <<podSeen, svc, cr, localCurrent, listedReady, wi>>
  BY DEF EnsureReplicaRole, EnsureReplicaRoleFails, apiVars, cacheVars, objectsSeen
<1>2. Listed /\ Listed'
  BY DEF EnsureReplicaRole, EnsureReplicaRoleFails, Continue, Listed
<1>3. SuspectsMain' = SuspectsMain
  BY <1>1, <1>2 DEF SuspectsMain
<1>4. UNCHANGED <<role, regs>> \/ (p \in Instances /\ Demote(p))
  BY DEF EnsureReplicaRole, EnsureReplicaRoleFails, CanExec
<1>5. CASE UNCHANGED <<role, regs>>
  BY <1>1, <1>3, <1>5, Stutters
<1>6. CASE p \in Instances /\ Demote(p)
  <2>1. pc = "replica" /\ p \in todo
    BY DEF EnsureReplicaRole, EnsureReplicaRoleFails, IsNext
  <2>2. p # wi /\ wi \in Instances /\ role[wi] = "MAIN"
    BY <2>1 DEF ReconcileInv
  <2>3. Elected!Demote(p)
    BY <1>1, <1>3, <1>6, <2>2 DEF Elected!Demote, Elected!MainIsSet, Demote, SeenReady
  <2> QED
    BY <1>6, <2>3
<1> QED
  BY <1>4, <1>5, <1>6

\* Registrations and drops go to the choice, which is MAIN.
LEMMA RegistrationsChange ==
    ASSUME TypeOK, ReconcileInv,
           \/ CleanupStaleReplicas
           \/ \E p \in Instances : RegisterReplica(p)
    PROVE  \/ UNCHANGED Elected!electionVars
           \/ \E q \in Instances : Elected!Register(q)
           \/ \E stale \in SUBSET Instances : Elected!Unregister(stale)
<1>1. UNCHANGED <<podSeen, role, svc, cr, localCurrent, listedReady, wi>>
  BY DEF CleanupStaleReplicas, RegisterReplica, apiVars, cacheVars, objectsSeen,
     localVars
<1>2. pc \in {"cleanup", "register"} /\ Listed /\ Listed'
  BY DEF CleanupStaleReplicas, RegisterReplica, Continue, Listed
<1>3. SuspectsMain' = SuspectsMain
  BY <1>1, <1>2 DEF SuspectsMain
<1>4. wi \in Instances /\ role[wi] = "MAIN"
  BY <1>2 DEF ReconcileInv
<1>5. CASE regs' = regs
  BY <1>1, <1>3, <1>5, Stutters
<1>6. ASSUME NEW p \in Instances, RegisterReplica(p), regs' # regs
      PROVE  Elected!Register(p)
  <2>1. p # wi
    BY <1>6 DEF RegisterReplica, IsNext, ReconcileInv
  <2>2. regs' = [regs EXCEPT ![wi] = @ \cup {p}]
    BY <1>4, <1>6 DEF RegisterReplica, Register, MayHaveTakenEffect
  <2> QED
    BY <1>1, <1>3, <1>4, <2>1, <2>2 DEF Elected!Register, Elected!MainIsSet, SeenReady
<1>7. ASSUME CleanupStaleReplicas, regs' # regs
      PROVE  \E stale \in SUBSET Instances : Elected!Unregister(stale)
  <2>1. StaleReplicas \subseteq Instances
    BY DEF StaleReplicas, TypeOK
  <2>2. \E stale \in SUBSET StaleReplicas : regs' = [regs EXCEPT ![wi] = @ \ stale]
    BY <1>7 DEF CleanupStaleReplicas, MayHaveTakenEffect
  <2>3. PICK stale \in SUBSET StaleReplicas : regs' = [regs EXCEPT ![wi] = @ \ stale]
    BY <2>2
  <2>4. Elected!Unregister(stale)
    BY <1>1, <1>3, <1>4, <2>3 DEF Elected!Unregister, Elected!MainIsSet, SeenReady
  <2> QED
    BY <2>1, <2>4
<1> QED
  BY <1>5, <1>6, <1>7

\* The status update publishes the choice.  With a current copy that is
\* another pod only if the reconcile suspects the main.
LEMMA StatusPublishes ==
    ASSUME TypeOK, ReconcileInv, UpdateStatus
    PROVE  Elected!Publish \/ Elected!GiveUp
<1>1. Return /\ UNCHANGED <<podSeen, role, regs, svc>>
  BY DEF UpdateStatus, podVars, objectsSeen
<1>2. CASE cr'.main = cr.main
  BY <1>1, <1>2, Returns
<1>3. CASE cr'.main # cr.main
  <2>1. localCurrent /\ cr'.main = wi
    BY <1>3 DEF UpdateStatus, Write, TypeOK, Cluster
  <2>2. pc = "status" /\ Listed
    BY DEF UpdateStatus, Listed
  <2>3. local.main = cr.main /\ (local.main \in listedReady => wi = local.main)
    BY <2>1, <2>2 DEF ReconcileInv
  <2>4. SuspectsMain
    BY <1>3, <2>1, <2>2, <2>3 DEF SuspectsMain
  <2>5. wi' = NoPod /\ SuspectsMain' = FALSE /\ SeenReady' = SeenReady
    BY <1>1 DEF Return, SuspectsMain, SeenReady
  <2> QED
    BY <1>1, <2>1, <2>4, <2>5 DEF Elected!Publish
<1> QED
  BY <1>2, <1>3

\* What happens to pods and services is a step of Kubernetes, or invisible
\* until the cache hears of it.
LEMMA KubernetesMoves ==
    ASSUME TypeOK,
           \/ GarbageCollect \/ SyncPods
           \/ \E p \in Instances : \/ CreatePod(p) \/ DeletePod(p) \/ Evict(p)
                                   \/ BecomeReady(p) \/ BecomeUnready(p)
           \/ \E p \in JobPods : StartJob(p) \/ EndJob(p) \/ CollectJob(p)
    PROVE  UNCHANGED Elected!electionVars \/ Elected!KubernetesStep
<1> USE DEF apiVars, cacheVars, objectsSeen, podVars, localVars
<1>1. UNCHANGED <<cr, pc, localCurrent, listedReady, wi>>
  BY DEF GarbageCollect, SyncPods, CreatePod, DeletePod, Evict, BecomeReady,
     BecomeUnready, StartJob, EndJob, CollectJob
<1>2. SuspectsMain' = SuspectsMain
  BY <1>1 DEF SuspectsMain, Listed
<1>3. CASE GarbageCollect
  <2>1. Elected!CollectService
    BY <1>1, <1>2, <1>3 DEF GarbageCollect, Elected!CollectService, SeenReady
  <2> QED
    BY <2>1 DEF Elected!KubernetesStep
<1>4. CASE SyncPods
  <2>1. SeenReady' \in SUBSET Elected!Pods
    BY DEF SeenReady, Elected!Pods, AllPods
  <2>2. Elected!SyncPods(SeenReady')
    BY <1>1, <1>2, <1>4 DEF SyncPods, Elected!SyncPods
  <2> QED
    BY <2>1, <2>2 DEF Elected!KubernetesStep
<1>5. ASSUME NEW p \in Instances, CreatePod(p) PROVE Elected!KubernetesStep
  <2>1. Elected!Restart(p)
    BY <1>1, <1>2, <1>5 DEF CreatePod, Elected!Restart, SeenReady
  <2> QED
    BY <2>1 DEF Elected!KubernetesStep
<1>6. ASSUME NEW p \in AllPods,
             \/ DeletePod(p) \/ Evict(p) \/ BecomeReady(p) \/ BecomeUnready(p)
             \/ StartJob(p) \/ EndJob(p) \/ CollectJob(p)
      PROVE  UNCHANGED Elected!electionVars
  <2>1. UNCHANGED <<podSeen, role, regs, svc>>
    BY <1>6 DEF DeletePod, Evict, BecomeReady, BecomeUnready, StartJob, EndJob,
       CollectJob
  <2> QED
    BY <1>1, <1>2, <2>1, Stutters
<1> QED
  BY <1>3, <1>4, <1>5, <1>6 DEF AllPods

\* Initially nothing is seen as ready, chosen or published.
LEMMA ElectionStarts == Init => Elected!ElectionInit
<1> SUFFICES ASSUME Init PROVE Elected!ElectionInit
  OBVIOUS
<1>1. SeenReady = {}
  BY DEF Init, SeenReady
<1>2. SuspectsMain = FALSE
  BY Zenon DEF Init, SuspectsMain
<1>3. cr.main = NoPod
  <2>1. PICK n \in ReplicaCounts :
          cr = [exists |-> TRUE, deleting |-> FALSE, finalizer |-> FALSE,
                replicas |-> n, phase |-> "", main |-> NoPod, ready |-> FALSE]
    BY DEF Init
  <2> QED
    BY <2>1
<1> QED
  BY <1>1, <1>2, <1>3 DEF Init, Elected!ElectionInit

\* Every step of the loop and of its environment is a step of the election.
LEMMA StepSimulation ==
    TypeOK /\ ReconcileInv /\ [Next]_vars
        => [Elected!ElectionNext]_Elected!electionVars
<1> SUFFICES ASSUME TypeOK, ReconcileInv, [Next]_vars
             PROVE  Elected!ElectionNext \/ UNCHANGED Elected!electionVars
  OBVIOUS
<1>0. CASE ReconcileStatefulSet
  BY <1>0, StatefulSetIsQuiet DEF Elected!ElectionNext, Elected!OperatorStep
<1>1. CASE \/ HandleNotFound \/ StartReconcile \/ ReconcileHeadlessService
           \/ ReconcileReadService \/ ShowReplicas \/ CheckReplicationHealth
           \/ SyncCluster \/ SyncStatefulSet \/ SyncService
           \/ UNCHANGED vars
  BY <1>1, QuietCalls
<1>2. CASE \/ HandleDeletion \/ AddFinalizer \/ InitializeStatus \/ Delete
           \/ \E n \in ReplicaCounts : Scale(n)
  BY <1>2, OtherWrites DEF Elected!ElectionNext, Elected!OperatorStep
<1>3. CASE GetClusterPods
  BY <1>3, ListChooses DEF Elected!ElectionNext, Elected!OperatorStep
<1>4. CASE ReconcileWriteService
  BY <1>4, ServiceRoutes DEF Elected!ElectionNext, Elected!OperatorStep
<1>5. CASE EnsureMainRole \/ EnsureMainRoleFails
  BY <1>5, MainIsPromoted DEF Elected!ElectionNext, Elected!OperatorStep
<1>6. CASE \E p \in AllPods : EnsureReplicaRole(p) \/ EnsureReplicaRoleFails(p)
  BY <1>6, ReplicaIsDemoted DEF Elected!ElectionNext, Elected!OperatorStep
<1>7. CASE CleanupStaleReplicas \/ \E p \in Instances : RegisterReplica(p)
  BY <1>7, RegistrationsChange DEF Elected!ElectionNext, Elected!OperatorStep
<1>8. CASE UpdateStatus
  BY <1>8, StatusPublishes DEF Elected!ElectionNext, Elected!OperatorStep
<1>9. CASE Abort
  <2>1. Return /\ UNCHANGED <<podSeen, role, regs, svc>> /\ cr' = cr
    BY <1>9 DEF Abort, apiVars, cacheVars, objectsSeen, podVars
  <2> QED
    BY <2>1, Returns DEF Elected!ElectionNext, Elected!OperatorStep
<1>10. CASE \/ GarbageCollect \/ SyncPods
            \/ \E p \in Instances : \/ CreatePod(p) \/ DeletePod(p) \/ Evict(p)
                                    \/ BecomeReady(p) \/ BecomeUnready(p)
            \/ \E p \in JobPods : StartJob(p) \/ EndJob(p) \/ CollectJob(p)
  BY <1>10, KubernetesMoves DEF Elected!ElectionNext
<1> QED
  BY <1>0, <1>1, <1>2, <1>3, <1>4, <1>5, <1>6, <1>7, <1>8, <1>9, <1>10
     DEF Next, ReconcileStep, Environment

\* The reconcile loop, with every fault between its calls and for any number
\* of instances and Job pods, implements the election.
THEOREM LoopImplementsElection == Spec => ImplementsElection
<1>1. Init => Elected!ElectionInit
  BY ElectionStarts
<1>2. TypeOK /\ ReconcileInv /\ [Next]_vars
        => [Elected!ElectionNext]_Elected!electionVars
  BY StepSimulation
<1> QED
  BY <1>1, <1>2, TypeCorrectness, ReconcileInvariance, PTL
     DEF Spec, ImplementsElection, Elected!ElectionSpec

=============================================================================
