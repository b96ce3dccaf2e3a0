-------------------------- MODULE ReconcilerProofs --------------------------
(***************************************************************************)
(* Proofs about Reconciler, for every number of instances and Job pods and *)
(* every bound on faults and edits.                                        *)
(***************************************************************************)
EXTENDS Reconciler, FiniteSetTheorems, TLAPS

\* Pod sets are finite: getClusterPods returns a list that can be counted.
LEMMA PodsFinite ==
    /\ IsFiniteSet(Instances) /\ Cardinality(Instances) = MaxReplicas
    /\ IsFiniteSet(AllPods)
    /\ Instances \subseteq AllPods /\ NoPod \notin AllPods
    /\ \A S : S \subseteq AllPods => Cardinality(S) \in Nat
<1>1. IsFiniteSet(Instances) /\ Cardinality(Instances) = MaxReplicas
  BY BoundsAssumption, FS_Interval DEF Instances
<1>2. IsFiniteSet(JobPods)
  BY BoundsAssumption, FS_Interval DEF JobPods
<1>3. IsFiniteSet(AllPods)
  BY <1>1, <1>2, FS_Union DEF AllPods
<1>4. Instances \subseteq AllPods /\ NoPod \notin AllPods
  BY BoundsAssumption DEF AllPods, Instances, JobPods, NoPod
<1>5. \A S : S \subseteq AllPods => Cardinality(S) \in Nat
  BY <1>3, FS_Subset, FS_CardinalityType
<1> QED
  BY <1>1, <1>3, <1>4, <1>5

\* A main has at most MaxReplicas - 1 replicas registered with it: never
\* itself.
LEMMA RegistrationCount ==
    ASSUME NEW p \in Instances, NEW S \in SUBSET (Instances \ {p})
    PROVE  Cardinality(S) \in 0 .. MaxReplicas - 1
<1>1. IsFiniteSet(Instances \ {p}) /\ Cardinality(Instances \ {p}) = MaxReplicas - 1
  BY PodsFinite, FS_RemoveElement
<1>2. IsFiniteSet(S) /\ Cardinality(S) <= Cardinality(Instances \ {p})
  BY <1>1, FS_Subset
<1>3. Cardinality(S) \in Nat
  BY <1>2, FS_CardinalityType
<1> QED
  BY <1>1, <1>2, <1>3, BoundsAssumption

\* updateStatus publishes one of the phases of the API.
LEMMA PhaseType ==
    ASSUME NEW n \in Nat, NEW m \in Nat
    PROVE  PhaseFor(n, m) \in Phases
BY DEF PhaseFor, Phases

\* determineWriteInstance returns a listed ready pod or none, and the
\* reported main when it is ready.
LEMMA ElectionType ==
    ASSUME NEW main, NEW ready, NEW w \in DetermineWriteInstance(main, ready)
    PROVE  w \in ready \cup {NoPod} /\ (main \in ready => w = main)
BY DEF DetermineWriteInstance

\* The view of a well-typed object is well-typed.
LEMMA ViewType == ASSUME NEW c \in Cluster PROVE View(c) \in Views
BY DEF View, Views, Cluster

\* A reconcile that is not running has well-typed variables.
LEMMA NoLocalType == NoLocal \in Locals
<1>1. 1 \in 1 .. MaxReplicas
  BY BoundsAssumption
<1> QED
  BY <1>1 DEF NoLocal, Locals

\* Every state the specification starts in is well-typed.
LEMMA TypeInit == Init => TypeOK
<1> SUFFICES ASSUME Init PROVE TypeOK
  OBVIOUS
<1>1. cr \in Cluster
  <2>1. PICK n \in ReplicaCounts :
          cr = [exists |-> TRUE, deleting |-> FALSE, finalizer |-> FALSE,
                replicas |-> n, phase |-> "", main |-> NoPod, ready |-> FALSE]
    BY DEF Init
  <2>2. n \in 1 .. MaxReplicas
    BY SpecAssumption
  <2> QED
    BY <2>1, <2>2 DEF Cluster, Phases
<1>2. crSeen \in Views
  BY <1>1, ViewType DEF Init
<1>3. local \in Locals
  BY NoLocalType DEF Init
<1>4. /\ sts \in 0 .. MaxReplicas /\ stsSeen \in 0 .. MaxReplicas
      /\ registered \in 0 .. MaxReplicas - 1
      /\ faults \in 0 .. MaxFaults /\ edits \in 0 .. MaxEdits
  <2>1. sts = 0 /\ stsSeen = 0 /\ registered = 0 /\ faults = 0 /\ edits = 0
    BY DEF Init
  <2> QED
    BY <2>1, BoundsAssumption
<1>5. /\ pod \in [AllPods -> {"absent", "unready", "ready"}]
      /\ podSeen \in [AllPods -> {"absent", "unready", "ready"}]
      /\ role \in [Instances -> {"MAIN", "REPLICA"}]
      /\ regs \in [Instances -> SUBSET Instances]
      /\ \A p \in Instances : p \notin regs[p]
  BY DEF Init
<1>6. /\ owned = {} /\ svc = NoService /\ svcSeen = NoService /\ pc = "idle"
      /\ listed = {} /\ listedReady = {} /\ wi = NoPod /\ current = {}
      /\ todo = {} /\ crSeenCurrent = TRUE /\ localCurrent = FALSE
      /\ allHealthy = TRUE
  BY DEF Init
<1> QED
  BY <1>1, <1>2, <1>3, <1>4, <1>5, <1>6 DEF TypeOK, Steps

\* The variables of a reconcile are well-typed again when it returns.
LEMMA ReturnType ==
    ASSUME Return
    PROVE  /\ pc' \in Steps /\ local' \in Locals /\ localCurrent' \in BOOLEAN
           /\ listed' \subseteq AllPods /\ listedReady' \subseteq listed'
           /\ wi' \in AllPods \cup {NoPod} /\ current' \subseteq Instances
           /\ todo' \subseteq AllPods /\ registered' \in 0 .. MaxReplicas - 1
           /\ allHealthy' \in BOOLEAN
<1>1. 0 \in 0 .. MaxReplicas - 1
  BY BoundsAssumption
<1> QED
  BY <1>1, NoLocalType DEF Return, Steps

\* Faults and edits are counted within their bounds.
LEMMA BudgetType ==
    ASSUME TypeOK, NEW p
    PROVE  /\ Fault => faults' \in 0 .. MaxFaults /\ edits' \in 0 .. MaxEdits
           /\ Edit => faults' \in 0 .. MaxFaults /\ edits' \in 0 .. MaxEdits
           /\ UNCHANGED budgets => faults' \in 0 .. MaxFaults /\ edits' \in 0 .. MaxEdits
           /\ ExecFails(p) => faults' \in 0 .. MaxFaults /\ edits' \in 0 .. MaxEdits
BY BoundsAssumption DEF TypeOK, Fault, Edit, ExecFails, budgets

\* Every step of the reconcile loop and of its environment keeps the types.
LEMMA TypeNext == TypeOK /\ ReconcileInv /\ [Next]_vars => TypeOK'
<1> SUFFICES ASSUME TypeOK, ReconcileInv, [Next]_vars PROVE TypeOK'
  OBVIOUS
<1> USE DEF apiVars, cacheVars, objectsSeen, podVars, localVars
<1>1. CASE HandleNotFound
  BY <1>1 DEF TypeOK, HandleNotFound, vars, budgets
<1>2. CASE HandleDeletion
  BY <1>2, BudgetType DEF TypeOK, HandleDeletion, Write, Cluster
<1>3. CASE AddFinalizer
  BY <1>3, BudgetType DEF TypeOK, AddFinalizer, Write, Cluster
<1>4. CASE InitializeStatus
  BY <1>4, BudgetType DEF TypeOK, InitializeStatus, Write, Cluster, Phases
<1>5. CASE StartReconcile
  BY <1>5, BudgetType DEF TypeOK, StartReconcile, Views, Locals, Steps
<1>6. CASE ReconcileHeadlessService
  BY <1>6, BudgetType DEF TypeOK, ReconcileHeadlessService, Steps
<1>7. CASE ReconcileStatefulSet
  <2>1. UNCHANGED <<cr, owned, svc, cacheVars, podVars, budgets>>
    BY <1>7 DEF ReconcileStatefulSet
  <2>2. CASE Return /\ UNCHANGED sts
    BY <2>1, <2>2, BudgetType, ReturnType DEF TypeOK
  <2>3. CASE /\ UNCHANGED localVars /\ pc' = "list"
             /\ sts' = sts \/ sts' = local.replicas
    <3>1. sts' \in 0 .. MaxReplicas
      BY <2>3 DEF TypeOK, Locals
    <3> QED
      BY <2>1, <2>3, <3>1, BudgetType DEF TypeOK, Steps
  <2> QED
    BY <1>7, <2>2, <2>3 DEF ReconcileStatefulSet
<1>8. CASE GetClusterPods
  BY <1>8, BudgetType, ElectionType DEF TypeOK, GetClusterPods, SeenReady, Steps
<1>9. CASE ReconcileWriteService
  BY <1>9, BudgetType, ReturnType DEF TypeOK, ReconcileWriteService, Steps
<1>10. CASE ReconcileReadService
  BY <1>10, BudgetType DEF TypeOK, ReconcileReadService, Steps
<1>11. CASE EnsureMainRole
  BY <1>11, BudgetType DEF TypeOK, EnsureMainRole, Promote, Steps
<1>12. CASE EnsureMainRoleFails
  BY <1>12, BudgetType DEF TypeOK, EnsureMainRoleFails, MayHaveTakenEffect, Promote, Steps
<1>13. CASE ShowReplicas
  BY <1>13, BudgetType DEF TypeOK, ReconcileInv, ShowReplicas, ReadyReplicas, CanExec, Steps
<1>14. ASSUME NEW p \in AllPods, EnsureReplicaRole(p) PROVE TypeOK'
  BY <1>14, BudgetType DEF TypeOK, EnsureReplicaRole, CanExec, Demote, Continue, Steps
<1>15. ASSUME NEW p \in AllPods, EnsureReplicaRoleFails(p) PROVE TypeOK'
  BY <1>15, BudgetType DEF TypeOK, EnsureReplicaRoleFails, CanExec, Demote, Continue, Steps
<1>16. ASSUME NEW p \in Instances, RegisterReplica(p) PROVE TypeOK'
  BY <1>16, BudgetType DEF TypeOK, ReconcileInv, RegisterReplica, IsNext, MayHaveTakenEffect, Register, Continue, Steps
<1>17. CASE CleanupStaleReplicas
  BY <1>17, BudgetType DEF TypeOK, CleanupStaleReplicas, MayHaveTakenEffect, Steps
<1>18. CASE CheckReplicationHealth
  <2>1. UNCHANGED <<apiVars, cacheVars, podVars, local, localCurrent, listed,
                    listedReady, wi, current, todo>> /\ pc' = "status"
    BY <1>18 DEF CheckReplicationHealth
  <2>2. registered' \in 0 .. MaxReplicas - 1 /\ allHealthy' \in BOOLEAN
    <3>1. wi \in Instances
      BY <1>18 DEF CheckReplicationHealth, ReconcileInv
    <3>2. RegisteredReplicas \in 0 .. MaxReplicas - 1
      BY <3>1, RegistrationCount DEF TypeOK, RegisteredReplicas
    <3> QED
      BY <1>18, <3>2 DEF CheckReplicationHealth, TypeOK
  <2>3. faults' \in 0 .. MaxFaults /\ edits' \in 0 .. MaxEdits
    BY <1>18, BudgetType DEF CheckReplicationHealth
  <2> QED
    BY <2>1, <2>2, <2>3 DEF TypeOK, Steps
<1>19. CASE UpdateStatus
  <2>1. cr' \in Cluster /\ crSeenCurrent' \in BOOLEAN
    <3>1. PhaseFor(Cardinality(listedReady), local.replicas) \in Phases
      BY PodsFinite, PhaseType DEF TypeOK, Locals
    <3>2. ReadyCondition(Cardinality(listedReady), local.replicas) \in BOOLEAN
      BY DEF ReadyCondition, TypeOK
    <3>3. cr \in Cluster /\ wi \in AllPods \cup {NoPod} /\ crSeenCurrent \in BOOLEAN
      BY DEF TypeOK
    <3>4. \/ cr' = cr /\ crSeenCurrent' = crSeenCurrent
          \/ /\ crSeenCurrent' = FALSE
             /\ cr' = [cr EXCEPT
                  !.phase = PhaseFor(Cardinality(listedReady), local.replicas),
                  !.main  = wi,
                  !.ready = ReadyCondition(Cardinality(listedReady), local.replicas)]
      BY <1>19 DEF UpdateStatus, Write
    <3> QED
      BY <3>1, <3>2, <3>3, <3>4 DEF Cluster
  <2>2. Return /\ UNCHANGED <<sts, owned, svc, crSeen, objectsSeen, podVars, budgets>>
    BY <1>19 DEF UpdateStatus
  <2> QED
    BY <2>1, <2>2, ReturnType, BudgetType DEF TypeOK
<1>20. CASE Abort
  BY <1>20, BudgetType, ReturnType DEF TypeOK, Abort
<1>21. ASSUME NEW n \in ReplicaCounts, Scale(n) PROVE TypeOK'
  BY <1>21, BudgetType, SpecAssumption DEF TypeOK, Scale, Write, Cluster
<1>22. CASE Delete
  BY <1>22, BudgetType DEF TypeOK, Delete, Write, Cluster
<1>23. CASE GarbageCollect
  BY <1>23, BudgetType, BoundsAssumption DEF TypeOK, GarbageCollect
<1>24. CASE SyncCluster
  BY <1>24, BudgetType, ViewType DEF TypeOK, SyncCluster
<1>25. CASE SyncStatefulSet \/ SyncService \/ SyncPods
  BY <1>25, BudgetType DEF TypeOK, SyncStatefulSet, SyncService, SyncPods
<1>26. ASSUME NEW p \in Instances, CreatePod(p) PROVE TypeOK'
  BY <1>26, BudgetType, PodsFinite DEF TypeOK, CreatePod
<1>27. ASSUME NEW p \in Instances, DeletePod(p) PROVE TypeOK'
  BY <1>27, BudgetType, PodsFinite DEF TypeOK, DeletePod
<1>28. ASSUME NEW p \in Instances, Evict(p) PROVE TypeOK'
  BY <1>28, BudgetType, PodsFinite DEF TypeOK, Evict
<1>29. ASSUME NEW p \in Instances, BecomeReady(p) PROVE TypeOK'
  BY <1>29, BudgetType, PodsFinite DEF TypeOK, BecomeReady
<1>30. ASSUME NEW p \in Instances, BecomeUnready(p) PROVE TypeOK'
  BY <1>30, BudgetType, PodsFinite DEF TypeOK, BecomeUnready
<1>31. ASSUME NEW p \in JobPods, StartJob(p) PROVE TypeOK'
  BY <1>31, BudgetType DEF TypeOK, StartJob, AllPods
<1>32. ASSUME NEW p \in JobPods, EndJob(p) \/ CollectJob(p) PROVE TypeOK'
  BY <1>32, BudgetType DEF TypeOK, EndJob, CollectJob, AllPods
<1>33. CASE UNCHANGED vars
  BY <1>33 DEF TypeOK, vars, budgets
<1> QED
  BY <1>1, <1>2, <1>3, <1>4, <1>5, <1>6, <1>7, <1>8, <1>9, <1>10, <1>11, <1>12, <1>13, <1>14, <1>15, <1>16, <1>17, <1>18, <1>19, <1>20, <1>21, <1>22, <1>23, <1>24, <1>25, <1>26, <1>27, <1>28, <1>29, <1>30, <1>31, <1>32, <1>33 DEF Next, ReconcileStep, Environment

\* The invariant of the reconcile loop holds initially.
LEMMA InvInit == Init => ReconcileInv
BY DEF Init, ReconcileInv

\* A write to the object that leaves the published main alone keeps the
\* invariant: it outdates every copy.
LEMMA WriteKeepsInv ==
    ASSUME ReconcileInv, NEW c, Write(c), UNCHANGED <<pc, wi, listedReady, todo, role, local>>
    PROVE  ReconcileInv'
BY DEF ReconcileInv, Write

\* A reconcile that has returned satisfies the invariant.
LEMMA ReturnKeepsInv ==
    ASSUME Return, crSeenCurrent' => crSeen' = View(cr')
    PROVE  ReconcileInv'
BY DEF ReconcileInv, Return

\* A new pod starts as a MAIN, which the chosen one has to be.
LEMMA CreateKeepsInv ==
    ASSUME TypeOK, ReconcileInv, NEW p \in Instances, CreatePod(p)
    PROVE  ReconcileInv'
BY DEF ReconcileInv, CreatePod, TypeOK, apiVars, cacheVars, localVars, View

\* Steps that touch neither object, copies, choice nor roles keep it.
LEMMA OthersKeepInv ==
    ASSUME ReconcileInv, UNCHANGED <<cr, crSeen, crSeenCurrent, pc, localVars, role>>
    PROVE  ReconcileInv'
BY DEF ReconcileInv, localVars, View

\* Every step keeps the invariant of the reconcile loop.
LEMMA InvNext == TypeOK /\ ReconcileInv /\ [Next]_vars => ReconcileInv'
<1> SUFFICES ASSUME TypeOK, ReconcileInv, [Next]_vars PROVE ReconcileInv'
  OBVIOUS
<1> USE DEF apiVars, cacheVars, objectsSeen, podVars, localVars
<1>1. CASE HandleNotFound
  BY <1>1, OthersKeepInv DEF HandleNotFound, vars
<1>2. CASE HandleDeletion
  BY <1>2, WriteKeepsInv DEF HandleDeletion
<1>3. CASE AddFinalizer
  BY <1>3, WriteKeepsInv DEF AddFinalizer
<1>4. CASE InitializeStatus
  BY <1>4, WriteKeepsInv DEF InitializeStatus
<1>5. CASE StartReconcile
  <2>1. crSeenCurrent => crSeen.main = cr.main
    <3>1. View(cr).main = cr.main
      BY DEF View
    <3>2. crSeenCurrent => crSeen = View(cr)
      BY DEF ReconcileInv
    <3> QED
      BY <3>1, <3>2
  <2>2. local'.main = crSeen.main /\ localCurrent' = crSeenCurrent
    BY <1>5 DEF StartReconcile
  <2>3. UNCHANGED <<cr, crSeen, crSeenCurrent, role, wi, listedReady, todo>>
        /\ pc = "idle" /\ pc' = "headless"
    BY <1>5 DEF StartReconcile
  <2>4. (crSeenCurrent => crSeen = View(cr))'
    BY <2>3 DEF ReconcileInv, View
  <2>5. (localCurrent => pc # "idle" /\ local.main = cr.main)'
    BY <2>1, <2>2, <2>3
  <2> QED
    BY <2>3, <2>4, <2>5 DEF ReconcileInv
<1>6. CASE ReconcileHeadlessService
  BY <1>6 DEF ReconcileInv, TypeOK, View, ReconcileHeadlessService
<1>7. CASE ReconcileStatefulSet
  <2>1. CASE Return
    BY <1>7, <2>1, ReturnKeepsInv DEF ReconcileStatefulSet, ReconcileInv
  <2>2. CASE UNCHANGED <<cr, localVars>> /\ pc' = "list"
    BY <1>7, <2>2 DEF ReconcileStatefulSet, ReconcileInv, View
  <2> QED
    BY <1>7, <2>1, <2>2 DEF ReconcileStatefulSet
<1>8. CASE GetClusterPods
  <2>1. /\ wi' \in listedReady' \cup {NoPod}
        /\ local.main \in listedReady' => wi' = local.main
    BY <1>8, ElectionType DEF GetClusterPods
  <2>2. todo = {}
    BY <1>8 DEF GetClusterPods, ReconcileInv
  <2> QED
    BY <1>8, <2>1, <2>2 DEF GetClusterPods, ReconcileInv, View
<1>9. CASE ReconcileWriteService
  <2>1. CASE Return
    BY <1>9, <2>1, ReturnKeepsInv DEF ReconcileWriteService, ReconcileInv
  <2>2. CASE UNCHANGED <<cr, localVars>> /\ pc' = "readService"
    BY <1>9, <2>2 DEF ReconcileWriteService, ReconcileInv, View
  <2> QED
    BY <1>9, <2>1, <2>2 DEF ReconcileWriteService
<1>10. CASE ReconcileReadService
  BY <1>10 DEF ReconcileInv, TypeOK, View, ReconcileReadService
<1>11. CASE EnsureMainRole
  BY <1>11 DEF ReconcileInv, TypeOK, View, EnsureMainRole, CanExec, Promote
<1>12. CASE EnsureMainRoleFails
  BY <1>12 DEF ReconcileInv, TypeOK, View, EnsureMainRoleFails
<1>13. CASE ShowReplicas
  BY <1>13 DEF ReconcileInv, TypeOK, View, ShowReplicas, ReadyReplicas
<1>14. ASSUME NEW p \in AllPods, EnsureReplicaRole(p) PROVE ReconcileInv'
  BY <1>14 DEF ReconcileInv, TypeOK, View, EnsureReplicaRole, IsNext, Demote, Continue
<1>15. ASSUME NEW p \in AllPods, EnsureReplicaRoleFails(p) PROVE ReconcileInv'
  BY <1>15 DEF ReconcileInv, TypeOK, View, EnsureReplicaRoleFails, IsNext, Demote, Continue
<1>16. ASSUME NEW p \in Instances, RegisterReplica(p) PROVE ReconcileInv'
  BY <1>16 DEF ReconcileInv, TypeOK, View, RegisterReplica, Continue
<1>17. CASE CleanupStaleReplicas
  BY <1>17 DEF ReconcileInv, TypeOK, View, CleanupStaleReplicas
<1>18. CASE CheckReplicationHealth
  BY <1>18 DEF ReconcileInv, TypeOK, View, CheckReplicationHealth
<1>19. CASE UpdateStatus
  BY <1>19, ReturnKeepsInv DEF UpdateStatus, Write, ReconcileInv
<1>20. CASE Abort
  BY <1>20, ReturnKeepsInv DEF Abort, ReconcileInv
<1>21. ASSUME NEW n \in ReplicaCounts, Scale(n) PROVE ReconcileInv'
  BY <1>21, WriteKeepsInv DEF Scale
<1>22. CASE Delete
  BY <1>22, WriteKeepsInv DEF Delete
<1>23. CASE GarbageCollect
  BY <1>23, OthersKeepInv DEF GarbageCollect
<1>24. CASE SyncCluster
  BY <1>24 DEF ReconcileInv, TypeOK, View, SyncCluster
<1>25. CASE SyncStatefulSet \/ SyncService \/ SyncPods
  BY <1>25, OthersKeepInv DEF SyncStatefulSet, SyncService, SyncPods
<1>26. ASSUME NEW p \in Instances, CreatePod(p) PROVE ReconcileInv'
  BY <1>26, CreateKeepsInv
<1>27. ASSUME NEW p \in Instances, DeletePod(p) PROVE ReconcileInv'
  BY <1>27, OthersKeepInv DEF DeletePod
<1>28. ASSUME NEW p \in Instances, Evict(p) PROVE ReconcileInv'
  BY <1>28, OthersKeepInv DEF Evict
<1>29. ASSUME NEW p \in Instances, BecomeReady(p) PROVE ReconcileInv'
  BY <1>29, OthersKeepInv DEF BecomeReady
<1>30. ASSUME NEW p \in Instances, BecomeUnready(p) PROVE ReconcileInv'
  BY <1>30, OthersKeepInv DEF BecomeUnready
<1>31. ASSUME NEW p \in JobPods, StartJob(p) PROVE ReconcileInv'
  BY <1>31, OthersKeepInv DEF StartJob
<1>32. ASSUME NEW p \in JobPods, EndJob(p) \/ CollectJob(p) PROVE ReconcileInv'
  BY <1>32, OthersKeepInv DEF EndJob, CollectJob
<1>33. CASE UNCHANGED vars
  BY <1>33, OthersKeepInv DEF vars
<1> QED
  BY <1>1, <1>2, <1>3, <1>4, <1>5, <1>6, <1>7, <1>8, <1>9, <1>10, <1>11, <1>12, <1>13, <1>14, <1>15, <1>16, <1>17, <1>18, <1>19, <1>20, <1>21, <1>22, <1>23, <1>24, <1>25, <1>26, <1>27, <1>28, <1>29, <1>30, <1>31, <1>32, <1>33 DEF Next, ReconcileStep, Environment

\* Type correctness: in every reachable state the object, the instances and
\* the variables of the running reconcile have their types, and no instance
\* is registered as its own replica.
THEOREM TypeCorrectness == Spec => []TypeOK
<1>1. Init => TypeOK /\ ReconcileInv
  BY TypeInit, InvInit
<1>2. TypeOK /\ ReconcileInv /\ [Next]_vars => TypeOK' /\ ReconcileInv'
  BY TypeNext, InvNext
<1> QED
  BY <1>1, <1>2, PTL DEF Spec

\* The invariant of the reconcile loop holds in every reachable state.
THEOREM ReconcileInvariance == Spec => []ReconcileInv
<1>1. Init => TypeOK /\ ReconcileInv
  BY TypeInit, InvInit
<1>2. TypeOK /\ ReconcileInv /\ [Next]_vars => TypeOK' /\ ReconcileInv'
  BY TypeNext, InvNext
<1> QED
  BY <1>1, <1>2, PTL DEF Spec

\* Only a status update changes the published main.
LEMMA OnlyStatusMovesMain ==
    ASSUME TypeOK, [Next]_vars, cr'.main # cr.main
    PROVE  UpdateStatus
<1> USE DEF apiVars, TypeOK, Cluster
<1>1. SUFFICES ASSUME ~UpdateStatus PROVE cr'.main = cr.main
  OBVIOUS
<1>2. CASE HandleDeletion \/ AddFinalizer \/ InitializeStatus \/ Delete
  BY <1>2 DEF HandleDeletion, AddFinalizer, InitializeStatus, Delete, Write
<1>3. ASSUME NEW n \in ReplicaCounts, Scale(n) PROVE cr'.main = cr.main
  BY <1>3 DEF Scale, Write
<1>4. CASE UNCHANGED cr
  BY <1>4
<1>5. CASE \/ HandleNotFound \/ StartReconcile \/ ReconcileHeadlessService
           \/ ReconcileStatefulSet \/ GetClusterPods \/ ReconcileReadService
           \/ ReconcileWriteService \/ UNCHANGED vars
  BY <1>4, <1>5 DEF HandleNotFound, StartReconcile, ReconcileHeadlessService,
     ReconcileStatefulSet, GetClusterPods, ReconcileReadService,
     ReconcileWriteService, vars
<1>6. CASE \/ EnsureMainRole \/ EnsureMainRoleFails \/ ShowReplicas
           \/ CleanupStaleReplicas \/ CheckReplicationHealth \/ Abort
  BY <1>4, <1>6 DEF EnsureMainRole, EnsureMainRoleFails, ShowReplicas,
     CleanupStaleReplicas, CheckReplicationHealth, Abort
<1>7. ASSUME NEW p \in AllPods,
             \/ EnsureReplicaRole(p) \/ EnsureReplicaRoleFails(p)
             \/ RegisterReplica(p)
      PROVE  cr'.main = cr.main
  BY <1>4, <1>7 DEF EnsureReplicaRole, EnsureReplicaRoleFails, RegisterReplica
<1>8. CASE \/ GarbageCollect \/ SyncCluster \/ SyncStatefulSet \/ SyncService
           \/ SyncPods
  BY <1>4, <1>8 DEF GarbageCollect, SyncCluster, SyncStatefulSet, SyncService,
     SyncPods
<1>9. ASSUME NEW p \in AllPods,
             \/ CreatePod(p) \/ DeletePod(p) \/ Evict(p) \/ BecomeReady(p)
             \/ BecomeUnready(p) \/ StartJob(p) \/ EndJob(p) \/ CollectJob(p)
      PROVE  cr'.main = cr.main
  BY <1>4, <1>9 DEF CreatePod, DeletePod, Evict, BecomeReady, BecomeUnready,
     StartJob, EndJob, CollectJob
<1> QED
  BY <1>1, <1>2, <1>3, <1>5, <1>6, <1>7, <1>8, <1>9
     DEF Next, ReconcileStep, Environment, AllPods

\* The published write instance is replaced only by a reconcile that listed
\* it as not ready: the status update of any other reconcile is refused.
THEOREM ReadyMainIsKept == Spec => KeepsReadyMain
<1>1. ASSUME TypeOK, ReconcileInv, [Next]_vars,
             cr.main # NoPod, cr'.main # cr.main
      PROVE  cr.main \notin listedReady
  <2>1. UpdateStatus
    BY <1>1, OnlyStatusMovesMain
  <2>2. localCurrent /\ cr'.main = wi
    BY <1>1, <2>1 DEF UpdateStatus, Write, TypeOK, Cluster
  <2>3. local.main = cr.main
    BY <1>1, <2>2 DEF ReconcileInv
  <2>4. cr.main \in listedReady => wi = cr.main
    BY <1>1, <2>1, <2>3 DEF ReconcileInv, UpdateStatus
  <2> QED
    BY <1>1, <2>2, <2>4
<1>2. TypeOK /\ ReconcileInv /\ [Next]_vars
        => [cr.main # NoPod /\ cr'.main # cr.main => cr.main \notin listedReady]_vars
  BY <1>1
<1> QED
  BY <1>2, TypeCorrectness, ReconcileInvariance, PTL DEF Spec, KeepsReadyMain

\* Only the loop over the replicas demotes: the next pod, which is there.
LEMMA OnlyLoopDemotes ==
    ASSUME TypeOK, [Next]_vars, NEW p \in Instances, IsDemoted(p)
    PROVE  pc = "replica" /\ p \in todo /\ pod' = pod /\ pod[p] # "absent"
<1> USE DEF podVars, TypeOK, IsDemoted
<1>1. SUFFICES ASSUME ~(EnsureReplicaRole(p) \/ EnsureReplicaRoleFails(p))
               PROVE  FALSE
  BY DEF EnsureReplicaRole, EnsureReplicaRoleFails, IsNext, CanExec
<1>2. CASE UNCHANGED role
  BY <1>2
<1>3. CASE \/ HandleNotFound \/ HandleDeletion \/ AddFinalizer
           \/ InitializeStatus \/ StartReconcile \/ ReconcileHeadlessService
           \/ ReconcileStatefulSet \/ GetClusterPods \/ ReconcileReadService
           \/ ReconcileWriteService \/ UNCHANGED vars
  BY <1>2, <1>3 DEF HandleNotFound, HandleDeletion, AddFinalizer,
     InitializeStatus, StartReconcile, ReconcileHeadlessService,
     ReconcileStatefulSet, GetClusterPods, ReconcileReadService,
     ReconcileWriteService, vars
<1>4. CASE EnsureMainRole \/ EnsureMainRoleFails
  BY <1>4 DEF EnsureMainRole, EnsureMainRoleFails, MayHaveTakenEffect, Promote
<1>5. CASE \/ ShowReplicas \/ CleanupStaleReplicas \/ CheckReplicationHealth
           \/ UpdateStatus \/ Abort
  BY <1>2, <1>5 DEF ShowReplicas, CleanupStaleReplicas, CheckReplicationHealth,
     UpdateStatus, Abort
<1>6. ASSUME NEW q \in AllPods, EnsureReplicaRole(q) \/ EnsureReplicaRoleFails(q)
      PROVE  FALSE
  BY <1>1, <1>6 DEF EnsureReplicaRole, EnsureReplicaRoleFails, Demote
<1>7. ASSUME NEW q \in AllPods,
             \/ RegisterReplica(q) \/ DeletePod(q) \/ Evict(q) \/ BecomeReady(q)
             \/ BecomeUnready(q) \/ StartJob(q) \/ EndJob(q) \/ CollectJob(q)
      PROVE  FALSE
  BY <1>2, <1>7 DEF RegisterReplica, DeletePod, Evict, BecomeReady,
     BecomeUnready, StartJob, EndJob, CollectJob
<1>8. ASSUME NEW q \in Instances, CreatePod(q) PROVE FALSE
  BY <1>8 DEF CreatePod
<1>9. CASE \/ GarbageCollect \/ SyncCluster \/ SyncStatefulSet \/ SyncService
           \/ SyncPods \/ Delete
           \/ \E n \in ReplicaCounts : Scale(n)
  BY <1>2, <1>9 DEF GarbageCollect, SyncCluster, SyncStatefulSet, SyncService,
     SyncPods, Delete, Scale
<1> QED
  BY <1>3, <1>4, <1>5, <1>6, <1>7, <1>8, <1>9
     DEF Next, ReconcileStep, Environment, AllPods

\* The published write instance loses the MAIN role only to a reconcile that
\* read another write instance from its cache.
THEOREM ReportedMainIsDemotedOnlyWhenOutdated ==
    Spec => DemotesReportedMainOnlyWhenOutdated
<1>1. ASSUME TypeOK, ReconcileInv, [Next]_vars, NEW p \in Instances,
             IsDemoted(p), p = cr.main
      PROVE  local.main # cr.main
  <2>1. pc = "replica" /\ p \in todo
    BY <1>1, OnlyLoopDemotes
  <2>2. p \in listedReady /\ p # wi
    BY <1>1, <2>1 DEF ReconcileInv
  <2> QED
    BY <1>1, <2>1, <2>2 DEF ReconcileInv
<1>2. TypeOK /\ ReconcileInv /\ [Next]_vars
        => [\A p \in Instances :
               IsDemoted(p) /\ p = cr.main => local.main # cr.main]_vars
  BY <1>1
<1> QED
  BY <1>2, TypeCorrectness, ReconcileInvariance, PTL
     DEF Spec, DemotesReportedMainOnlyWhenOutdated

\* No instance is demoted before the chosen write instance is MAIN.
THEOREM DemotionFollowsPromotion == Spec => DemotesOnlyUnderAMain
<1>1. ASSUME TypeOK, ReconcileInv, [Next]_vars, NEW p \in Instances, IsDemoted(p)
      PROVE  wi \in Instances \ {p} /\ role[wi] = "MAIN"
  <2>1. pc = "replica" /\ p \in todo
    BY <1>1, OnlyLoopDemotes
  <2> QED
    BY <1>1, <2>1 DEF ReconcileInv
<1>2. TypeOK /\ ReconcileInv /\ [Next]_vars
        => [\A p \in Instances :
               IsDemoted(p) => wi \in Instances \ {p} /\ role[wi] = "MAIN"]_vars
  BY <1>1
<1> QED
  BY <1>2, TypeCorrectness, ReconcileInvariance, PTL DEF Spec, DemotesOnlyUnderAMain

\* The last MAIN among the instances that are there is lost only with a pod, or
\* to a reconcile whose promoted write instance is gone.
THEOREM LiveMainIsKept == Spec => KeepsALiveMain
<1> DEFINE PodGoes == \E p \in Instances : pod[p] # "absent" /\ pod'[p] = "absent"
           MainGone == wi \in Instances /\ pod[wi] = "absent"
<1>1. ASSUME TypeOK, ReconcileInv, [Next]_vars, LiveMain, ~LiveMain', ~PodGoes
      PROVE  MainGone
  <2>1. PICK p \in Instances : pod[p] # "absent" /\ role[p] = "MAIN"
    BY <1>1 DEF LiveMain
  <2>2. \A q \in Instances : role'[q] \in {"MAIN", "REPLICA"}
    BY <1>1, TypeNext DEF TypeOK
  <2>3. pod'[p] # "absent"
    BY <1>1, <2>1
  <2>4. IsDemoted(p)
    BY <1>1, <2>1, <2>2, <2>3 DEF LiveMain, IsDemoted
  <2>5. pc = "replica" /\ pod' = pod
    BY <1>1, <2>4, OnlyLoopDemotes
  <2>6. wi \in Instances /\ role[wi] = "MAIN" /\ wi \notin todo
    BY <1>1, <2>5 DEF ReconcileInv
  <2>7. role'[wi] = "MAIN"
    BY <1>1, <2>2, <2>6, OnlyLoopDemotes DEF IsDemoted
  <2> QED
    BY <1>1, <2>5, <2>6, <2>7 DEF LiveMain
<1>2. TypeOK /\ ReconcileInv /\ [Next]_vars
        => [LiveMain /\ ~LiveMain' => PodGoes \/ MainGone]_vars
  BY <1>1
<1> QED
  BY <1>2, TypeCorrectness, ReconcileInvariance, PTL DEF Spec, KeepsALiveMain

\* Only reconcileWriteService and the garbage collector touch the service.
LEMMA OnlyTwoStepsMoveService ==
    ASSUME [Next]_vars, svc' # svc
    PROVE  ReconcileWriteService \/ GarbageCollect
<1> SUFFICES ASSUME ~ReconcileWriteService, ~GarbageCollect PROVE svc' = svc
  OBVIOUS
<1> USE DEF apiVars
<1>1. CASE \/ HandleNotFound \/ HandleDeletion \/ AddFinalizer
           \/ InitializeStatus \/ StartReconcile \/ ReconcileHeadlessService
           \/ ReconcileStatefulSet \/ GetClusterPods \/ ReconcileReadService
           \/ UNCHANGED vars
  BY <1>1 DEF HandleNotFound, HandleDeletion, AddFinalizer, InitializeStatus,
     StartReconcile, ReconcileHeadlessService, ReconcileStatefulSet,
     GetClusterPods, ReconcileReadService, vars
<1>2. CASE \/ EnsureMainRole \/ EnsureMainRoleFails \/ ShowReplicas
           \/ CleanupStaleReplicas \/ CheckReplicationHealth \/ UpdateStatus
           \/ Abort
  BY <1>2 DEF EnsureMainRole, EnsureMainRoleFails, ShowReplicas,
     CleanupStaleReplicas, CheckReplicationHealth, UpdateStatus, Abort
<1>3. ASSUME NEW p \in AllPods,
             \/ EnsureReplicaRole(p) \/ EnsureReplicaRoleFails(p)
             \/ RegisterReplica(p) \/ CreatePod(p) \/ DeletePod(p) \/ Evict(p)
             \/ BecomeReady(p) \/ BecomeUnready(p) \/ StartJob(p) \/ EndJob(p)
             \/ CollectJob(p)
      PROVE  svc' = svc
  BY <1>3 DEF EnsureReplicaRole, EnsureReplicaRoleFails, RegisterReplica,
     CreatePod, DeletePod, Evict, BecomeReady, BecomeUnready, StartJob, EndJob,
     CollectJob
<1>4. CASE \/ SyncCluster \/ SyncStatefulSet \/ SyncService \/ SyncPods
           \/ Delete \/ \E n \in ReplicaCounts : Scale(n)
  BY <1>4 DEF SyncCluster, SyncStatefulSet, SyncService, SyncPods, Delete, Scale
<1> QED
  BY <1>1, <1>2, <1>3, <1>4 DEF Next, ReconcileStep, Environment, AllPods

\* The write service is moved only to a listed-ready pod, the reported main if
\* that is one, and loses its pod name only with the whole service.
THEOREM WriteServiceIsPinned == Spec => WriteServiceStaysPinned
<1> DEFINE Pinned == svc' # svc =>
             \/ /\ svc' \in listedReady
                /\ local.main \in listedReady => svc' = local.main
             \/ svc = NoService /\ svc' = NoPod
             \/ ~cr.exists /\ svc' = NoService
<1>1. ASSUME ReconcileInv, [Next]_vars, svc' # svc PROVE Pinned
  <2>1. CASE GarbageCollect
    BY <2>1 DEF GarbageCollect
  <2>2. CASE ReconcileWriteService
    <3>1. /\ pc = "writeService"
          /\ svc' = wi /\ svcSeen = svc
          /\ svcSeen = NoService \/ wi # NoPod
      BY <1>1, <2>2 DEF ReconcileWriteService, apiVars
    <3>2. wi \in listedReady \cup {NoPod}
          /\ (local.main \in listedReady => wi = local.main)
      BY <1>1, <3>1 DEF ReconcileInv
    <3>3. CASE wi = NoPod
      BY <3>1, <3>3
    <3>4. CASE wi # NoPod
      BY <3>1, <3>2, <3>4
    <3> QED
      BY <3>3, <3>4
  <2> QED
    BY <1>1, <2>1, <2>2, OnlyTwoStepsMoveService
<1>2. ReconcileInv /\ [Next]_vars => [Pinned]_vars
  BY <1>1
<1> QED
  BY <1>2, ReconcileInvariance, PTL DEF Spec, WriteServiceStaysPinned

-----------------------------------------------------------------------------
(* A settled cluster is left alone.                                        *)

\* The cluster as it is outside of the running reconcile.
world == <<cr, sts, svc, crSeen, objectsSeen, pod, role, regs>>

\* What a settled state says of the pods: the instances that the spec asks for
\* are there and ready, the main is one of them, and no other pod is ready.
LEMMA SettledFacts ==
    ASSUME TypeOK, Settled
    PROVE  /\ cr.replicas \in 1 .. MaxReplicas
           /\ 0 .. cr.replicas - 1 \subseteq Instances
           /\ cr.main \in 0 .. cr.replicas - 1
           /\ \A p \in AllPods : pod[p] = "ready" <=> p \in 0 .. cr.replicas - 1
           /\ \A p \in Instances : pod[p] # "absent" <=> p \in 0 .. cr.replicas - 1
           /\ \A p \in 0 .. cr.replicas - 1 :
                 CanExec(p) /\ (ExecFails(p) => budgets' # budgets)
           /\ role[cr.main] = "MAIN"
           /\ \A p \in (0 .. cr.replicas - 1) \ {cr.main} : role[p] = "REPLICA"
           /\ regs[cr.main] = (0 .. cr.replicas - 1) \ {cr.main}
<1>1. cr.replicas \in 1 .. MaxReplicas /\ MaxReplicas \in Nat /\ NumJobPods \in Nat
  BY BoundsAssumption DEF TypeOK, Cluster
<1>2. 0 .. cr.replicas - 1 \subseteq Instances
  BY <1>1 DEF Instances
<1>3. /\ cr.main \in 0 .. cr.replicas - 1
      /\ role[cr.main] = "MAIN"
      /\ \A p \in (0 .. cr.replicas - 1) \ {cr.main} : role[p] = "REPLICA"
      /\ regs[cr.main] = (0 .. cr.replicas - 1) \ {cr.main}
  BY DEF Settled, Converged
<1>4. \A p \in AllPods : p < cr.replicas <=> p \in 0 .. cr.replicas - 1
  BY <1>1 DEF AllPods, Instances, JobPods
<1>5. /\ \A p \in Instances :
           pod[p] = IF p \in 0 .. cr.replicas - 1 THEN "ready" ELSE "absent"
      /\ \A p \in AllPods : pod[p] = "ready" <=> p \in 0 .. cr.replicas - 1
  <2>1. \A p \in JobPods : p \notin 0 .. cr.replicas - 1
    BY <1>1 DEF JobPods
  <2> QED
    BY <1>4, <2>1 DEF Settled, AllPods
<1>6. ASSUME NEW p \in 0 .. cr.replicas - 1
      PROVE  CanExec(p) /\ (ExecFails(p) => budgets' # budgets)
  <2>1. p \in Instances /\ p \in AllPods /\ p \notin JobPods
    BY <1>1, <1>2 DEF AllPods, Instances, JobPods
  <2>2. Fault => budgets' # budgets
    BY DEF Fault, budgets, TypeOK
  <2> QED
    BY <1>5, <2>1, <2>2 DEF CanExec, ExecFails
<1> QED
  BY <1>1, <1>2, <1>3, <1>5, <1>6

\* Nothing outside of the reconcile moves, and the reconcile stays up to date.
LEMMA SettledFrame ==
    ASSUME Settled, UNCHANGED world, ReadsUpToDate'
    PROVE  Settled'
BY DEF Settled, Converged, SeenReady, View, world, objectsSeen

\* updateStatus of an up-to-date reconcile publishes what is published.
LEMMA StatusKeepsSettled ==
    ASSUME TypeOK, Settled, UpdateStatus
    PROVE  Settled'
<1>1. /\ wi = cr.main
      /\ listedReady = 0 .. cr.replicas - 1
      /\ local.replicas = cr.replicas
  BY DEF Settled, ReadsUpToDate, Listed, UpdateStatus
<1>2. Cardinality(listedReady) = cr.replicas
  BY <1>1, SettledFacts, FS_Interval
<1>3. PhaseFor(Cardinality(listedReady), local.replicas) = "Running"
  BY <1>1, <1>2, SettledFacts DEF PhaseFor
<1>4. PICK b : cr' = cr \/ cr' = [cr EXCEPT !.phase = "Running",
                                            !.main = cr.main, !.ready = b]
  BY <1>1, <1>3 DEF UpdateStatus, Write
<1>5. /\ cr'.exists = cr.exists /\ cr'.deleting = cr.deleting
      /\ cr'.finalizer = cr.finalizer /\ cr'.replicas = cr.replicas
      /\ cr'.main = cr.main /\ cr'.phase = "Running"
  <2>1. cr \in Cluster /\ cr.phase = "Running"
    BY DEF TypeOK, Settled, Converged
  <2>2. CASE cr' = cr
    BY <2>1, <2>2
  <2>3. CASE cr' = [cr EXCEPT !.phase = "Running", !.main = cr.main, !.ready = b]
    BY <2>1, <2>3 DEF Cluster
  <2> QED
    BY <1>4, <2>2, <2>3
<1>6. View(cr') = View(cr)
  BY <1>5 DEF View, Settled, Converged
<1>7. UNCHANGED <<sts, svc, crSeen, objectsSeen, pod, role, regs>> /\ pc' = "idle"
  BY DEF UpdateStatus, podVars, Return
<1>8. Converged'
  BY <1>5, <1>7 DEF Settled, Converged
<1>9. ReadsUpToDate'
  BY <1>7 DEF ReadsUpToDate, Listed
<1> QED
  BY <1>5, <1>6, <1>7, <1>8, <1>9 DEF Settled, SeenReady, objectsSeen

\* A step outside of the reconcile that is neither a fault nor an edit finds
\* nothing to do.
LEMMA EnvironmentKeepsSettled ==
    ASSUME TypeOK, Settled, Environment, budgets' = budgets
    PROVE  Settled'
<1> USE DEF podVars, apiVars, cacheVars, objectsSeen
<1>1. ~Edit /\ ~Fault
  BY DEF TypeOK, Edit, Fault, budgets
<1>2. ASSUME UNCHANGED <<world, pc, localVars>> PROVE Settled'
  <2>1. ReadsUpToDate'
    BY <1>2 DEF Settled, ReadsUpToDate, Listed, world, localVars
  <2> QED
    BY <1>2, <2>1, SettledFrame
<1>3. ~(Delete \/ \E n \in ReplicaCounts : Scale(n))
  BY <1>1 DEF Delete, Scale
<1>4. ~GarbageCollect
  BY DEF GarbageCollect, Settled
<1>5. CASE SyncCluster
  BY <1>2, <1>5 DEF SyncCluster, Settled, world
<1>6. ~SyncStatefulSet /\ ~SyncService
  BY DEF SyncStatefulSet, SyncService, Settled
<1>9. ASSUME UNCHANGED <<cr, sts, svc, crSeen, stsSeen, svcSeen, role, regs, pc, localVars>>,
             \A p \in Instances : pod'[p] = pod[p],
             \A p \in JobPods : pod'[p] # "ready",
             SeenReady' = SeenReady
      PROVE  Settled'
  <2>1. ReadsUpToDate'
    BY <1>9 DEF Settled, ReadsUpToDate, Listed, localVars
  <2> QED
    BY <1>9, <2>1 DEF Settled, Converged, View
<1>10. CASE SyncPods
  <2>1. SeenReady' = SeenReady
    <3>1. SeenReady' = {p \in AllPods : pod[p] = "ready"}
      BY <1>10 DEF SyncPods, SeenReady
    <3>2. 0 .. cr.replicas - 1 \subseteq AllPods
      BY SettledFacts DEF AllPods
    <3>3. SeenReady = 0 .. cr.replicas - 1
      BY DEF Settled
    <3> QED
      BY <3>1, <3>2, <3>3, SettledFacts
  <2> QED
    BY <1>9, <1>10, <2>1 DEF SyncPods, Settled
<1>11. ASSUME NEW p \in JobPods, CollectJob(p) PROVE Settled'
  <2>1. p \notin Instances
    BY BoundsAssumption DEF Instances, JobPods
  <2>2. pod \in [AllPods -> {"absent", "unready", "ready"}] /\ p \in AllPods
    BY DEF TypeOK, AllPods
  <2>3. /\ \A q \in Instances : pod'[q] = pod[q]
        /\ \A q \in JobPods : pod'[q] # "ready"
    BY <1>11, <2>1, <2>2 DEF CollectJob, Settled, AllPods
  <2>4. SeenReady' = SeenReady
    BY <1>11 DEF CollectJob, SeenReady
  <2> QED
    BY <1>9, <1>11, <2>3, <2>4 DEF CollectJob
<1>7. ASSUME NEW p \in Instances
      PROVE  ~(\/ CreatePod(p) \/ DeletePod(p) \/ Evict(p)
               \/ BecomeReady(p) \/ BecomeUnready(p))
  <2>1. p \in AllPods /\ p \in Int /\ sts = cr.replicas /\ cr.replicas \in Int
    BY SettledFacts, BoundsAssumption DEF AllPods, Instances, Settled, Converged
  <2>2. pod[p] = "ready" <=> p < sts
    BY <2>1 DEF Settled
  <2>3. pod[p] = "absent" <=> ~(p < sts)
    BY <2>1 DEF Settled
  <2> QED
    BY <1>1, <2>1, <2>2, <2>3 DEF CreatePod, DeletePod, Evict, BecomeReady, BecomeUnready
<1>8. ASSUME NEW p \in JobPods PROVE ~(StartJob(p) \/ EndJob(p))
  <2>1. p \in AllPods /\ p \notin 0 .. cr.replicas - 1
    BY SettledFacts, BoundsAssumption DEF AllPods, JobPods, Instances
  <2> QED
    BY <1>1, <2>1, SettledFacts DEF StartJob, EndJob
<1> QED
  BY <1>3, <1>4, <1>5, <1>6, <1>7, <1>8, <1>10, <1>11 DEF Environment

\* A call of a reconcile that meets no fault changes nothing outside of it and
\* reads what is there.
LEMMA ReconcileKeepsSettled ==
    ASSUME TypeOK, ReconcileInv, Settled, ReconcileStep, budgets' = budgets
    PROVE  Settled'
<1> USE DEF podVars, apiVars, cacheVars, objectsSeen, localVars
<1> DEFINE instances == 0 .. cr.replicas - 1
<1>0. /\ ReadsUpToDate
      /\ cr.main \in instances
      /\ cr.main \in Instances
      /\ CanExec(cr.main) /\ ~ExecFails(cr.main)
  BY SettledFacts DEF Settled
<1>1. CASE HandleNotFound \/ HandleDeletion \/ AddFinalizer \/ InitializeStatus
  <2>1. crSeen.exists /\ ~crSeen.deleting /\ crSeen.finalizer /\ ~crSeen.fresh
    BY DEF Settled, View, Converged
  <2> QED
    BY <1>1, <2>1 DEF HandleNotFound, HandleDeletion, AddFinalizer, InitializeStatus
<1>2. CASE StartReconcile
  <2>1. crSeen.replicas = cr.replicas /\ crSeen.main = cr.main
    BY DEF Settled, View
  <2>2. UNCHANGED world /\ ReadsUpToDate'
    BY <1>2, <2>1 DEF StartReconcile, ReadsUpToDate, Listed, world
  <2> QED
    BY <2>2, SettledFrame
<1>3. CASE ReconcileHeadlessService
  <2>1. UNCHANGED world /\ ReadsUpToDate'
    BY <1>0, <1>3 DEF ReconcileHeadlessService, ReadsUpToDate, Listed, world
  <2> QED
    BY <2>1, SettledFrame
<1>4. CASE ReconcileStatefulSet
  <2>1. stsSeen = local.replicas
    BY <1>0, <1>4 DEF ReconcileStatefulSet, ReadsUpToDate, Settled, Converged
  <2>2. UNCHANGED world /\ ReadsUpToDate'
    BY <1>0, <1>4, <2>1 DEF ReconcileStatefulSet, ReadsUpToDate, Listed, world
  <2> QED
    BY <2>2, SettledFrame
<1>5. CASE GetClusterPods
  <2>2. listedReady' = instances
    BY <1>5 DEF GetClusterPods, Settled
  <2>3. wi' \in DetermineWriteInstance(cr.main, instances)
    <3>1. local.main = cr.main
      BY <1>0, <1>5 DEF GetClusterPods, ReadsUpToDate
    <3>2. wi' \in DetermineWriteInstance(local.main, listedReady')
      BY <1>5 DEF GetClusterPods
    <3> QED
      BY <2>2, <3>1, <3>2
  <2>4. wi' = cr.main
    BY <1>0, <2>3 DEF DetermineWriteInstance
  <2>5. UNCHANGED world /\ ReadsUpToDate'
    BY <1>0, <1>5, <2>2, <2>4 DEF GetClusterPods, ReadsUpToDate, Listed, world
  <2> QED
    BY <2>5, SettledFrame
<1>6. CASE ReconcileWriteService
  <2>1. wi = cr.main /\ svcSeen = svc /\ svc = cr.main /\ svc # NoService
    BY <1>0, <1>6, BoundsAssumption
       DEF ReconcileWriteService, ReadsUpToDate, Listed, Settled, Converged,
           Instances, NoService
  <2>2. pc' = "readService" /\ UNCHANGED <<apiVars, localVars>>
    BY <1>6, <2>1 DEF ReconcileWriteService
  <2>3. UNCHANGED world /\ ReadsUpToDate'
    BY <1>0, <1>6, <2>2 DEF ReconcileWriteService, ReadsUpToDate, Listed, world
  <2> QED
    BY <2>3, SettledFrame
<1>7. CASE ReconcileReadService
  <2>1. UNCHANGED world /\ ReadsUpToDate'
    BY <1>0, <1>7 DEF ReconcileReadService, ReadsUpToDate, Listed, world
  <2> QED
    BY <2>1, SettledFrame
<1>8. CASE EnsureMainRole \/ EnsureMainRoleFails
  <2>1. wi = cr.main /\ role[wi] = "MAIN" /\ role \in [Instances -> {"MAIN", "REPLICA"}]
    BY <1>0, <1>8, SettledFacts
       DEF EnsureMainRole, EnsureMainRoleFails, ReadsUpToDate, Listed, TypeOK
  <2>2. EnsureMainRole
    BY <1>0, <1>8, <2>1 DEF EnsureMainRoleFails
  <2>3. role' = role
    BY <1>0, <2>1, <2>2 DEF EnsureMainRole, Promote
  <2>4. UNCHANGED world /\ ReadsUpToDate'
    BY <1>0, <2>2, <2>3 DEF EnsureMainRole, ReadsUpToDate, Listed, world
  <2> QED
    BY <2>4, SettledFrame
<1>9. CASE ShowReplicas
  <2>1. wi = cr.main
    BY <1>0, <1>9 DEF ShowReplicas, ReadsUpToDate, Listed
  <2>2. current' = regs[cr.main]
    BY <1>0, <1>9, <2>1 DEF ShowReplicas
  <2>3. UNCHANGED world /\ ReadsUpToDate'
    BY <1>0, <1>9, <2>2 DEF ShowReplicas, ReadsUpToDate, Listed, world
  <2> QED
    BY <2>3, SettledFrame
<1>10. ASSUME NEW p \in AllPods, EnsureReplicaRole(p) \/ EnsureReplicaRoleFails(p)
       PROVE  Settled'
  <2>1. p \in todo /\ pc = "replica" /\ wi = cr.main /\ listedReady = instances
        /\ current = regs[cr.main]
    BY <1>0, <1>10 DEF EnsureReplicaRole, EnsureReplicaRoleFails, IsNext,
       ReadsUpToDate, Listed
  <2>2. p \in instances \ {cr.main}
    BY <2>1 DEF ReconcileInv
  <2>3. role[p] = "REPLICA" /\ p \in current /\ ~ExecFails(p) /\ p \in Instances
    BY <2>1, <2>2, SettledFacts
  <2>4. EnsureReplicaRole(p)
    BY <1>10, <2>3 DEF EnsureReplicaRoleFails
  <2>5. role' = role /\ regs' = regs
    BY <2>3, <2>4 DEF EnsureReplicaRole, Demote, TypeOK
  <2>6. UNCHANGED world /\ ReadsUpToDate'
    BY <1>0, <2>3, <2>4, <2>5
       DEF EnsureReplicaRole, Continue, ReadsUpToDate, Listed, world
  <2> QED
    BY <2>6, SettledFrame
<1>11. ASSUME NEW p \in Instances PROVE ~RegisterReplica(p)
  BY <1>0 DEF RegisterReplica, ReadsUpToDate
<1>12. CASE CleanupStaleReplicas
  <2>1. /\ wi = cr.main /\ listedReady = instances /\ current = regs[cr.main]
        /\ regs[cr.main] = instances \ {cr.main}
    BY <1>0, <1>12, SettledFacts DEF CleanupStaleReplicas, ReadsUpToDate, Listed
  <2>2. StaleReplicas = {}
    BY <2>1 DEF StaleReplicas, ReadyReplicas
  <2>3. regs' = regs
    <3>1. regs' = [regs EXCEPT ![wi] = @ \ {}]
      BY <1>0, <1>12, <2>1, <2>2 DEF CleanupStaleReplicas
    <3> QED
      BY <3>1 DEF TypeOK
  <2>4. UNCHANGED world /\ ReadsUpToDate'
    BY <1>0, <1>12, <2>3 DEF CleanupStaleReplicas, ReadsUpToDate, Listed, world
  <2> QED
    BY <2>4, SettledFrame
<1>13. CASE CheckReplicationHealth
  <2>1. UNCHANGED world /\ ReadsUpToDate'
    BY <1>0, <1>13 DEF CheckReplicationHealth, ReadsUpToDate, Listed, world
  <2> QED
    BY <2>1, SettledFrame
<1>14. CASE UpdateStatus
  BY <1>14, StatusKeepsSettled
<1> QED
  BY <1>1, <1>2, <1>3, <1>4, <1>5, <1>6, <1>7, <1>8, <1>9, <1>10, <1>11, <1>12,
     <1>13, <1>14 DEF ReconcileStep

\* Whatever call of a reconcile it is in, a settled cluster of any size is
\* moved only by a fault, an edit or a snapshot Job.
THEOREM SettledStaysSettled == Spec => SettledIsStable
<1>1. ASSUME TypeOK, ReconcileInv, [Next]_vars, Settled, budgets' = budgets
      PROVE  Settled'
  <2>1. CASE UNCHANGED vars
    <3>1. ReadsUpToDate'
      BY <1>1, <2>1 DEF Settled, ReadsUpToDate, Listed, vars, localVars, apiVars, podVars
    <3> QED
      BY <1>1, <2>1, <3>1, SettledFrame DEF vars, world, apiVars, cacheVars, objectsSeen, podVars
  <2>2. ~Abort
    BY <1>1 DEF Abort, Fault, budgets, TypeOK
  <2> QED
    BY <1>1, <2>1, <2>2, ReconcileKeepsSettled, EnvironmentKeepsSettled DEF Next
<1>2. TypeOK /\ ReconcileInv /\ [Next]_vars
        => [Settled => Settled' \/ budgets' # budgets]_vars
  BY <1>1
<1> QED
  BY <1>2, TypeCorrectness, ReconcileInvariance, PTL DEF Spec, SettledIsStable

=============================================================================
