------------------------------ MODULE Election ------------------------------
(***************************************************************************)
(* What the reconcile loop promises the rest of the system about the main  *)
(* instance, without saying how: the roles and registrations it gives the  *)
(* instances, where it points the write service, and which main it         *)
(* publishes.  Module Reconciler, the loop call by call, implements it     *)
(* (Reconciler!ImplementsElection); the modules about data, snapshot Jobs, *)
(* validation and metrics are composed with it.                            *)
(*                                                                         *)
(* A reconcile makes a choice, from a status that may be outdated, and     *)
(* acts on it.  Four promises bind it:                                     *)
(*  - the published main is replaced only by a reconcile that knows it and *)
(*    saw it as not ready (suspect);                                       *)
(*  - an instance is demoted only while the choice, another one, is MAIN;  *)
(*  - replicas are registered only with the choice, and only as a MAIN;    *)
(*  - a write service that names a pod goes on naming one.                 *)
(***************************************************************************)

CONSTANTS
    Instances,      \* pods of the StatefulSet
    JobPods,        \* other pods that carry the cluster's labels
    NoPod,          \* the empty pod name
    NoService       \* the write service does not exist

Pods == Instances \cup JobPods

ASSUME PodAssumption ==
    /\ NoPod \notin Pods
    /\ NoService \notin Pods \cup {NoPod}

VARIABLES
    ready,          \* the pods that the controller's cache shows as ready
    role,           \* replication role of each instance
    regs,           \* replicas registered with each instance
    svc,            \* pod the write service selects; NoPod: all of them
    main,           \* status.writeInstance
    choice,         \* writeInstance of the running reconcile
    suspect         \* it knows main, and listed it as not ready

electionVars == <<ready, role, regs, svc, main, choice, suspect>>

ElectionTypeOK ==
    /\ ready \subseteq Pods
    /\ role \in [Instances -> {"MAIN", "REPLICA"}]
    /\ regs \in [Instances -> SUBSET Instances]
    /\ svc \in Pods \cup {NoPod, NoService}
    /\ main \in Pods \cup {NoPod}
    /\ choice \in Pods \cup {NoPod}
    /\ suspect \in BOOLEAN

ElectionInit ==
    /\ ready = {}
    /\ role = [p \in Instances |-> "MAIN"]
    /\ regs = [p \in Instances |-> {}]
    /\ svc = NoService
    /\ main = NoPod
    /\ choice = NoPod
    /\ suspect = FALSE

-----------------------------------------------------------------------------
(* The reconcile.                                                          *)

\* A pod that looks ready is chosen, or none.
Choose(p) ==
    /\ p \in ready \cup {NoPod}
    /\ choice' = p
    /\ suspect' \in {FALSE, main \notin ready}
    /\ UNCHANGED <<ready, role, regs, svc, main>>

\* Only a service that is created may name no pod.
Route ==
    /\ choice # NoPod \/ svc = NoService
    /\ svc' = choice
    /\ UNCHANGED <<ready, role, regs, main, choice, suspect>>

Promote ==
    /\ choice \in Instances
    /\ role' = [role EXCEPT ![choice] = "MAIN"]
    /\ UNCHANGED <<ready, regs, svc, main, choice, suspect>>

\* Past ensureMainRole.
MainIsSet == choice \in Instances /\ role[choice] = "MAIN"

\* A MAIN that becomes REPLICA forgets its replicas.
Demote(p) ==
    /\ MainIsSet
    /\ p # choice
    /\ role' = [role EXCEPT ![p] = "REPLICA"]
    /\ regs' = IF role[p] = "MAIN" THEN [regs EXCEPT ![p] = {}] ELSE regs
    /\ UNCHANGED <<ready, svc, main, choice, suspect>>

Register(p) ==
    /\ MainIsSet
    /\ p # choice
    /\ regs' = [regs EXCEPT ![choice] = @ \cup {p}]
    /\ UNCHANGED <<ready, role, svc, main, choice, suspect>>

Unregister(stale) ==
    /\ MainIsSet
    /\ regs' = [regs EXCEPT ![choice] = @ \ stale]
    /\ UNCHANGED <<ready, role, svc, main, choice, suspect>>

\* The status update that changes the main ends the reconcile.
Publish ==
    /\ suspect \/ main = NoPod
    /\ main' = choice
    /\ choice' = NoPod
    /\ suspect' = FALSE
    /\ UNCHANGED <<ready, role, regs, svc>>

\* The reconcile ends without that, or its copy of the status is outdated
\* from now on.
GiveUp ==
    /\ choice' \in {choice, NoPod}
    /\ suspect' = FALSE
    /\ UNCHANGED <<ready, role, regs, svc, main>>

OperatorStep ==
    \/ \E p \in Pods \cup {NoPod} : Choose(p)
    \/ Route \/ Promote \/ Publish \/ GiveUp
    \/ \E p \in Instances : Demote(p) \/ Register(p)
    \/ \E stale \in SUBSET Instances : Unregister(stale)

-----------------------------------------------------------------------------
(* Kubernetes.                                                             *)

\* Pods come, go and change, and the controller's cache hears of it some time
\* later, of several changes at once.
SyncPods(seen) ==
    /\ ready' = seen
    /\ UNCHANGED <<role, regs, svc, main, choice, suspect>>

\* A new pod starts as a MAIN without replicas.
Restart(p) ==
    /\ role' = [role EXCEPT ![p] = "MAIN"]
    /\ regs' = [regs EXCEPT ![p] = {}]
    /\ UNCHANGED <<ready, svc, main, choice, suspect>>

\* The services go with the cluster.
CollectService ==
    /\ svc' = NoService
    /\ UNCHANGED <<ready, role, regs, main, choice, suspect>>

KubernetesStep ==
    \/ \E seen \in SUBSET Pods : SyncPods(seen)
    \/ \E p \in Instances : Restart(p)
    \/ CollectService

ElectionNext == OperatorStep \/ KubernetesStep

ElectionSpec == ElectionInit /\ [][ElectionNext]_electionVars
=============================================================================
