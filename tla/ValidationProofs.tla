-------------------------- MODULE ValidationProofs --------------------------
(***************************************************************************)
(* Theorems about the election, the data and the validation composed, for  *)
(* any number of instances, Job pods, commits and restarts.  The order is  *)
(* that of the modules: what an election step does to the roles, what a    *)
(* step does to the data, what the validation knows.                       *)
(***************************************************************************)
EXTENDS Validation, TLAPS

-----------------------------------------------------------------------------
(* The election.                                                           *)

LEMMA ElectionTypeInit == ElectionInit => ElectionTypeOK
BY DEF ElectionInit, ElectionTypeOK

LEMMA OperatorType == ElectionTypeOK /\ OperatorStep => ElectionTypeOK'
<1> SUFFICES ASSUME ElectionTypeOK, OperatorStep PROVE ElectionTypeOK'
  OBVIOUS
<1> USE DEF ElectionTypeOK, Pods
<1>1. ASSUME NEW p \in Pods \cup {NoPod}, Choose(p) PROVE ElectionTypeOK'
  BY <1>1 DEF Choose
<1>2. CASE Route
  BY <1>2 DEF Route
<1>3. CASE Promote
  BY <1>3 DEF Promote
<1>4. CASE Publish
  BY <1>4 DEF Publish
<1>5. CASE GiveUp
  BY <1>5 DEF GiveUp
<1>6. ASSUME NEW p \in Instances, Demote(p) PROVE ElectionTypeOK'
  BY <1>6 DEF Demote
<1>7. ASSUME NEW p \in Instances, Register(p) PROVE ElectionTypeOK'
  BY <1>7 DEF Register, MainIsSet
<1>8. ASSUME NEW stale \in SUBSET Instances, Unregister(stale) PROVE ElectionTypeOK'
  BY <1>8 DEF Unregister, MainIsSet
<1> QED
  BY <1>1, <1>2, <1>3, <1>4, <1>5, <1>6, <1>7, <1>8 DEF OperatorStep

LEMMA KubernetesType ==
    ASSUME ElectionTypeOK,
           \/ \E seen \in SUBSET Pods : SyncPods(seen)
           \/ \E p \in Instances : Restart(p)
    PROVE  ElectionTypeOK'
BY DEF ElectionTypeOK, SyncPods, Restart

-----------------------------------------------------------------------------
(* The data.                                                               *)

\* A step takes no commit away from an instance, or one has restarted.
DataKept ==
    restarts' > 0 \/ (restarts = 0 /\ \A p \in Instances : data[p] \subseteq data'[p])

LEMMA CommitKeeps ==
    ASSUME DataTypeOK, NEW p \in Instances, Commit(p)
    PROVE  /\ data' \in [Instances -> SUBSET Commits]
           /\ epoch' \in [Instances -> Epochs]
           /\ commits' \in 1 .. MaxCommits
           /\ restarts' \in 0 .. MaxRestarts
           /\ commits' = commits + 1
           /\ commits' \in data'[p]
           /\ DataKept
BY DataAssumption DEF DataTypeOK, Commit, Commits, DataKept

LEMMA DataUnchanged ==
    ASSUME DataTypeOK, ElectionTypeOK', UNCHANGED dataVars
    PROVE  DataTypeOK' /\ DataKept
BY DEF DataTypeOK, dataVars, DataKept

LEMMA EnvironmentKeeps ==
    ASSUME DataTypeOK, DataEnvironment
    PROVE  /\ DataTypeOK' /\ DataKept
           /\ commits <= commits' /\ UNCHANGED <<main, choice>>
<1>0. ElectionTypeOK /\ Instances \subseteq Pods
  BY DEF DataTypeOK, Pods
<1>1. ASSUME NEW p \in Instances, ClientWrite(p)
      PROVE  /\ DataTypeOK' /\ DataKept
             /\ commits <= commits' /\ UNCHANGED <<main, choice>>
  <2>1. UNCHANGED electionVars
    BY <1>1 DEF ClientWrite
  <2>2. ElectionTypeOK'
    BY <1>0, <2>1 DEF ElectionTypeOK, electionVars
  <2> QED
    BY <1>1, <2>1, <2>2, CommitKeeps DEF ClientWrite, electionVars, DataTypeOK
<1>2. ASSUME NEW p \in Instances, RestartPod(p) \/ RestartContainer(p)
      PROVE  /\ DataTypeOK' /\ DataKept
             /\ commits <= commits' /\ UNCHANGED <<main, choice>>
  <2>1. ElectionTypeOK' /\ UNCHANGED <<main, choice>>
    <3>1. CASE RestartPod(p)
      BY <1>0, <3>1, KubernetesType DEF RestartPod, Restart
    <3>2. CASE RestartContainer(p)
      BY <1>0, <3>2 DEF RestartContainer, electionVars, ElectionTypeOK
    <3> QED
      BY <1>2, <3>1, <3>2
  <2>2. Recover(p)
    BY <1>2 DEF RestartPod, RestartContainer
  <2>3. restarts' \in 0 .. MaxRestarts /\ restarts' > 0 /\ commits' = commits
    BY <2>2, DataAssumption DEF Recover, DataTypeOK
  <2>4. epoch' \in [Instances -> Epochs]
    BY <1>2, <2>2, DataAssumption
       DEF RestartPod, RestartContainer, Recover, DataTypeOK, Epochs
  <2>5. data' \in [Instances -> SUBSET Commits]
    BY <2>2 DEF Recover, DataTypeOK
  <2> QED
    BY <2>1, <2>3, <2>4, <2>5 DEF DataTypeOK, DataKept
<1>3. ASSUME NEW m \in Instances, NEW r \in Instances, Stream(m, r)
      PROVE  /\ DataTypeOK' /\ DataKept
             /\ commits <= commits' /\ UNCHANGED <<main, choice>>
  <2>1. UNCHANGED electionVars /\ UNCHANGED <<commits, restarts>>
    BY <1>3 DEF Stream
  <2>2. ElectionTypeOK'
    BY <1>0, <2>1 DEF ElectionTypeOK, electionVars
  <2>3. PICK c \in Missing(r, m) : data' = [data EXCEPT ![r] = @ \cup {c}]
    BY <1>3 DEF Stream
  <2>4. c \in Commits
    BY DEF Missing, DataTypeOK
  <2>5. data' \in [Instances -> SUBSET Commits] /\ DataKept
    BY <2>1, <2>3, <2>4 DEF DataTypeOK, DataKept
  <2>6. epoch' \in [Instances -> Epochs]
    BY <1>3 DEF Stream, DataTypeOK
  <2> QED
    BY <2>1, <2>2, <2>5, <2>6 DEF DataTypeOK, electionVars
<1>4. ASSUME NEW seen \in SUBSET Pods, SyncPods(seen), UNCHANGED dataVars
      PROVE  /\ DataTypeOK' /\ DataKept
             /\ commits <= commits' /\ UNCHANGED <<main, choice>>
  <2>1. ElectionTypeOK'
    BY <1>0, <1>4, KubernetesType
  <2>2. DataTypeOK' /\ DataKept
    BY <1>4, <2>1, DataUnchanged
  <2> QED
    BY <1>4, <2>1, <2>2 DEF SyncPods, dataVars, DataTypeOK
<1> QED
  BY <1>1, <1>2, <1>3, <1>4 DEF DataEnvironment

-----------------------------------------------------------------------------
(* The validation.                                                         *)

\* The test write went through on the write instance, which still has it unless
\* an instance has restarted.
Written ==
    /\ choice \in Instances
    /\ value \in tests
    /\ value \in data[choice] \/ restarts > 0

\* Until the write nothing is found; from then on, unless it failed, the
\* verdict rests on a write that went through.
ResultInv ==
    /\ vpc \in {"idle", "ping", "write"} => unread = {} /\ received = {}
    /\ vpc \in {"read", "cleanup"} => Written
    /\ vpc = "status" /\ replication /\ several /\ choice # NoPod => Written

ValidationInv == TypeOK /\ ResultInv

LEMMA InvStarts == Init => ValidationInv
<1> SUFFICES ASSUME Init PROVE ValidationInv
  OBVIOUS
<1>1. DataTypeOK
  BY ElectionTypeInit, DataAssumption
     DEF Init, DataInit, DataTypeOK, Commits, Epochs
<1>2. TypeOK
  <2>1. value \in 0 .. commits
    BY DEF Init, DataInit
  <2>2. /\ listed \subseteq Pods /\ unread \subseteq listed \ {choice}
        /\ received \subseteq Instances
        /\ tests \subseteq Commits /\ cleanups \subseteq Commits
    BY DEF Init
  <2>3. /\ several \in BOOLEAN /\ connectivity \in BOOLEAN
        /\ replication \in BOOLEAN /\ wasRunning \in BOOLEAN
        /\ recent \in BOOLEAN
    BY Zenon DEF Init
  <2> QED
    BY <1>1, <2>1, <2>2, <2>3 DEF Init, TypeOK
<1> QED
  BY <1>2 DEF Init, ValidationInv, ResultInv

\* What the operator does outside the validation.
LEMMA OutsideKeeps ==
    ASSUME ValidationInv, OperatorStep, UNCHANGED dataVars
    PROVE  DataTypeOK' /\ DataKept
<1>1. ElectionTypeOK'
  BY OperatorType DEF ValidationInv, TypeOK, DataTypeOK
<1> QED
  BY <1>1, DataUnchanged DEF ValidationInv, TypeOK

\* The end of a reconcile leaves no result behind.
LEMMA EndKeeps ==
    ASSUME ValidationInv, DataTypeOK', EndReconcile,
           UNCHANGED <<commits, nodeVars>>,
           recent' \in BOOLEAN, wasRunning' \in BOOLEAN
    PROVE  ValidationInv'
<1>1. TypeOK'
  <2>1. value' \in 0 .. commits'
    BY DEF EndReconcile, NoResult, DataTypeOK
  <2>2. /\ listed' \subseteq Pods /\ unread' \subseteq listed' \ {choice'}
        /\ received' \subseteq Instances
        /\ vpc' = "idle"
    BY DEF EndReconcile, NoResult
  <2>3. several' \in BOOLEAN /\ connectivity' \in BOOLEAN /\ replication' \in BOOLEAN
    BY Zenon DEF EndReconcile, NoResult
  <2>4. tests' \subseteq Commits /\ cleanups' \subseteq Commits
    BY DEF ValidationInv, TypeOK, nodeVars
  <2> QED
    BY <2>1, <2>2, <2>3, <2>4 DEF TypeOK
<1>2. ResultInv'
  BY DEF EndReconcile, NoResult, ResultInv
<1> QED
  BY <1>1, <1>2 DEF ValidationInv

LEMMA ReconcileKeeps ==
    ASSUME ValidationInv,
           ListPods \/ Configure \/ UpdateStatus \/ Abort
    PROVE  ValidationInv' /\ DataKept
<1>1. CASE ListPods
  <2>1. DataTypeOK' /\ DataKept
    BY <1>1, OutsideKeeps DEF ListPods, OperatorStep
  <2>2. vpc = "idle" /\ vpc' = "idle" /\ unread = {} /\ received = {}
    BY <1>1 DEF ListPods, ValidationInv, ResultInv
  <2>3. listed' \subseteq Pods /\ several' \in BOOLEAN
    <3>1. listed' \subseteq Pods
      BY <1>1 DEF ListPods, ValidationInv, TypeOK, DataTypeOK, ElectionTypeOK
    <3>2. several' = TRUE \/ several' = (Cardinality(ready) > 1)
      BY <1>1, Zenon DEF ListPods
    <3>3. (Cardinality(ready) > 1) \in BOOLEAN
      OBVIOUS
    <3> QED
      BY <3>1, <3>2, <3>3, Zenon
  <2>4. UNCHANGED <<commits, resultVars, statusVars, nodeVars>>
    BY <1>1 DEF ListPods, dataVars
  <2>5. TypeOK'
    BY <2>1, <2>2, <2>3, <2>4
       DEF ValidationInv, TypeOK, resultVars, statusVars, nodeVars
  <2>6. ResultInv'
    BY <2>2, <2>4 DEF ResultInv, resultVars
  <2> QED
    BY <2>1, <2>5, <2>6 DEF ValidationInv
<1>2. CASE Configure
  <2>1. DataTypeOK' /\ DataKept
    BY <1>2, OutsideKeeps DEF Configure, OperatorStep
  <2>2. UNCHANGED <<choice, dataVars, validationVars>>
    BY <1>2 DEF Configure, Promote, Demote, Register, Unregister
  <2>3. TypeOK'
    BY <2>1, <2>2 DEF ValidationInv, TypeOK, dataVars, validationVars,
       resultVars, statusVars, nodeVars
  <2>4. ResultInv'
    BY <2>2 DEF ValidationInv, ResultInv, Written,
       dataVars, validationVars, resultVars, nodeVars
  <2> QED
    BY <2>1, <2>3, <2>4 DEF ValidationInv
<1>3. CASE UpdateStatus
  <2>1. DataTypeOK' /\ DataKept
    BY <1>3, OutsideKeeps DEF UpdateStatus, OperatorStep
  <2>2. recent' \in BOOLEAN /\ wasRunning' \in BOOLEAN
    BY <1>3 DEF UpdateStatus, ValidationInv, TypeOK
  <2> QED
    BY <1>3, <2>1, <2>2, EndKeeps DEF UpdateStatus, dataVars
<1>4. CASE Abort
  <2>1. DataTypeOK' /\ DataKept
    BY <1>4, OutsideKeeps DEF Abort, OperatorStep
  <2> QED
    BY <1>4, <2>1, EndKeeps DEF Abort, dataVars, statusVars, ValidationInv, TypeOK
<1> QED
  BY <1>1, <1>2, <1>3, <1>4

\* Steps that touch neither roles nor data.
LEMMA QuietSteps ==
    ASSUME ValidationInv, StartValidation \/ Ping \/ Elapse
    PROVE  ValidationInv' /\ DataKept
<1> USE DEF ValidationInv
<1>1. UNCHANGED <<electionVars, dataVars, listed, several, nodeVars>>
  BY DEF StartValidation, Ping, Elapse
<1>2. /\ DataTypeOK' /\ DataKept
      /\ UNCHANGED <<choice, data, commits, restarts, tests, cleanups>>
  BY <1>1, DataUnchanged DEF TypeOK, DataTypeOK, ElectionTypeOK,
     electionVars, dataVars, nodeVars
<1>3. CASE StartValidation
  <2>1. /\ vpc' = "ping" /\ unread' = {} /\ received' = {} /\ value' = 0
        /\ UNCHANGED <<recent, wasRunning>>
    BY <1>3 DEF StartValidation, NoResult, statusVars
  <2>2. connectivity' \in BOOLEAN /\ replication' \in BOOLEAN
    BY <1>3, Zenon DEF StartValidation, NoResult
  <2>3. TypeOK'
    BY <1>1, <1>2, <2>1, <2>2 DEF TypeOK, DataTypeOK
  <2> QED
    BY <1>2, <2>1, <2>3 DEF ResultInv
<1>4. CASE Ping
  <2>1. /\ vpc = "ping" /\ vpc' \in {"write", "status"}
        /\ vpc' = "status" => ~(choice # NoPod /\ several)
        /\ UNCHANGED <<replication, value, unread, received, recent, wasRunning>>
    BY <1>4 DEF Ping, statusVars
  <2>2. connectivity' \in BOOLEAN
    <3>1. connectivity' = FALSE \/ connectivity' = (listed \cap JobPods = {})
      BY <1>4, Zenon DEF Ping
    <3> QED
      BY <3>1
  <2>3. TypeOK'
    BY <1>1, <1>2, <2>1, <2>2 DEF TypeOK
  <2> QED
    BY <1>1, <1>2, <2>1, <2>3 DEF ResultInv
<1>5. CASE Elapse
  <2>1. /\ recent' = FALSE
        /\ UNCHANGED <<vpc, connectivity, replication, value, unread, received,
                       wasRunning>>
    BY <1>5 DEF Elapse, resultVars
  <2>2. TypeOK'
    BY <1>1, <1>2, <2>1 DEF TypeOK
  <2>3. ResultInv'
    BY <1>1, <1>2, <2>1 DEF ResultInv, Written
  <2> QED
    BY <1>2, <2>2, <2>3
<1> QED
  BY <1>3, <1>4, <1>5

\* The test write.
LEMMA WriteKeeps ==
    ASSUME ValidationInv, WriteTestValue \/ WriteTestValueFails
    PROVE  ValidationInv' /\ DataKept
<1> USE DEF ValidationInv
<1>1. /\ vpc = "write" /\ unread = {} /\ received = {}
      /\ UNCHANGED <<electionVars, listed, several, connectivity, received,
                     recent, wasRunning>>
  BY DEF WriteTestValue, WriteTestValueFails, ResultInv, statusVars
<1>2. ElectionTypeOK' /\ choice' = choice
  BY <1>1 DEF TypeOK, DataTypeOK, ElectionTypeOK, electionVars
<1>3. ASSUME CommitTest
      PROVE  /\ choice \in Instances /\ DataTypeOK' /\ DataKept
             /\ tests' \subseteq Commits /\ cleanups' \subseteq Commits
             /\ commits' \in data'[choice] \cap tests'
             /\ commits <= commits'
  <2>1. choice \in Instances /\ Commit(choice)
    BY <1>3 DEF CommitTest
  <2>2. /\ data' \in [Instances -> SUBSET Commits]
        /\ epoch' \in [Instances -> Epochs]
        /\ commits' \in 1 .. MaxCommits
        /\ restarts' \in 0 .. MaxRestarts
        /\ commits' = commits + 1
        /\ commits' \in data'[choice]
        /\ DataKept
    BY <2>1, CommitKeeps DEF TypeOK
  <2>3. DataTypeOK'
    BY <1>2, <2>2 DEF DataTypeOK
  <2> QED
    BY <1>3, <2>1, <2>2, <2>3 DEF CommitTest, Commits, TypeOK, DataTypeOK
<1>4. CASE WriteTestValue
  <2>1. /\ CommitTest /\ value' = commits' /\ unread' = listed \ {choice}
        /\ vpc' \in {"cleanup", "read"} /\ replication' = replication
    BY <1>4 DEF WriteTestValue
  <2>2. TypeOK'
    <3>1. value' \in 0 .. commits'
      BY <1>3, <2>1 DEF DataTypeOK
    <3> QED
      BY <1>1, <1>2, <1>3, <2>1, <3>1 DEF TypeOK
  <2>3. ResultInv'
    BY <1>1, <1>2, <1>3, <2>1 DEF ResultInv, Written
  <2> QED
    BY <1>2, <1>3, <2>1, <2>2, <2>3
<1>5. CASE WriteTestValueFails
  <2>1. /\ vpc' = "status" /\ replication' = FALSE
        /\ UNCHANGED <<value, unread>>
        /\ CommitTest \/ UNCHANGED <<dataVars, nodeVars>>
    BY <1>5 DEF WriteTestValueFails
  <2>2. /\ DataTypeOK' /\ DataKept /\ commits <= commits'
        /\ tests' \subseteq Commits /\ cleanups' \subseteq Commits
    <3>1. CASE CommitTest
      BY <1>3, <3>1
    <3>2. CASE UNCHANGED <<dataVars, nodeVars>>
      BY <1>2, <3>2, DataUnchanged DEF TypeOK, DataTypeOK, dataVars, nodeVars
    <3> QED
      BY <2>1, <3>1, <3>2
  <2>3. value' \in 0 .. commits'
    BY <2>1, <2>2 DEF TypeOK, DataTypeOK
  <2>4. TypeOK'
    BY <1>1, <1>2, <2>1, <2>2, <2>3 DEF TypeOK
  <2>5. ResultInv'
    BY <1>1, <2>1 DEF ResultInv
  <2> QED
    BY <1>2, <2>2, <2>4, <2>5
<1> QED
  BY <1>4, <1>5

\* Reading the replicas changes neither the data nor the write instance.
LEMMA ReadKeeps ==
    ASSUME ValidationInv, NEW p \in Pods, ReadReplica(p)
    PROVE  ValidationInv' /\ DataKept
<1> USE DEF ValidationInv
<1>1. /\ vpc = "read" /\ vpc' \in {"cleanup", "read"}
      /\ unread' = unread \ {p}
      /\ UNCHANGED <<electionVars, dataVars, listed, several, connectivity,
                     value, recent, wasRunning, tests, cleanups>>
  BY DEF ReadReplica, statusVars, nodeVars
<1>2. /\ DataTypeOK' /\ DataKept
      /\ UNCHANGED <<choice, data, commits, restarts>>
  BY <1>1, DataUnchanged DEF TypeOK, DataTypeOK, ElectionTypeOK,
     electionVars, dataVars
<1>3. replication' \in BOOLEAN
  BY DEF ReadReplica, TypeOK
<1>4. \/ received' = received
      \/ p \in Instances /\ Contains(p) /\ received' = received \cup {p}
  BY DEF ReadReplica
<1>5. received' \subseteq Instances
  BY <1>4 DEF TypeOK
<1>6. TypeOK'
  BY <1>1, <1>2, <1>3, <1>5 DEF TypeOK
<1>7. ResultInv'
  BY <1>1, <1>2 DEF ResultInv, Written
<1> QED
  BY <1>2, <1>6, <1>7

LEMMA CleanupKeeps ==
    ASSUME ValidationInv, Cleanup
    PROVE  ValidationInv' /\ DataKept
<1> USE DEF ValidationInv
<1>1. /\ vpc = "cleanup" /\ vpc' = "status" /\ Written
      /\ UNCHANGED <<electionVars, listed, several, resultVars, statusVars>>
  BY DEF Cleanup, ResultInv
<1>2. ElectionTypeOK' /\ choice' = choice
  BY <1>1 DEF TypeOK, DataTypeOK, ElectionTypeOK, electionVars
<1>3. /\ DataTypeOK' /\ DataKept /\ commits <= commits'
      /\ tests' = tests /\ cleanups' \subseteq Commits
  <2>1. CASE UNCHANGED <<dataVars, nodeVars>>
    BY <1>2, <2>1, DataUnchanged DEF TypeOK, DataTypeOK, dataVars, nodeVars
  <2>2. CASE Commit(choice) /\ cleanups' = cleanups \cup {commits'} /\ tests' = tests
    <3>1. /\ data' \in [Instances -> SUBSET Commits]
          /\ epoch' \in [Instances -> Epochs]
          /\ commits' \in 1 .. MaxCommits
          /\ restarts' \in 0 .. MaxRestarts
          /\ commits' = commits + 1
          /\ DataKept
      BY <1>1, <2>2, CommitKeeps DEF TypeOK, Written
    <3>2. DataTypeOK'
      BY <1>2, <3>1 DEF DataTypeOK
    <3> QED
      BY <2>2, <3>1, <3>2 DEF TypeOK, DataTypeOK, Commits
  <2> QED
    BY <2>1, <2>2 DEF Cleanup
<1>4. value' \in 0 .. commits'
  BY <1>1, <1>3 DEF TypeOK, DataTypeOK, resultVars
<1>5. TypeOK'
  BY <1>1, <1>2, <1>3, <1>4 DEF TypeOK, resultVars, statusVars
<1>6. Written'
  BY <1>1, <1>2, <1>3 DEF Written, DataKept, TypeOK, resultVars
<1>7. ResultInv'
  BY <1>1, <1>6 DEF ResultInv
<1> QED
  BY <1>2, <1>3, <1>5, <1>6, <1>7

LEMMA WorldKeeps ==
    ASSUME ValidationInv, DataEnvironment, UNCHANGED validationVars
    PROVE  ValidationInv' /\ DataKept
<1> USE DEF ValidationInv
<1>1. /\ DataTypeOK' /\ DataKept
      /\ commits <= commits' /\ choice' = choice
  BY EnvironmentKeeps DEF TypeOK
<1>2. value' \in 0 .. commits'
  BY <1>1 DEF TypeOK, DataTypeOK, validationVars, resultVars
<1>3. TypeOK'
  BY <1>1, <1>2 DEF TypeOK, validationVars, resultVars, statusVars, nodeVars
<1>4. ResultInv'
  BY <1>1 DEF TypeOK, ResultInv, Written, DataKept,
     validationVars, resultVars, nodeVars
<1> QED
  BY <1>1, <1>3, <1>4

LEMMA InvStep == ValidationInv /\ [Next]_vars => ValidationInv' /\ DataKept
<1> SUFFICES ASSUME ValidationInv, [Next]_vars PROVE ValidationInv' /\ DataKept
  OBVIOUS
<1>1. CASE UNCHANGED vars
  BY <1>1 DEF vars, electionVars, dataVars, validationVars, resultVars,
     statusVars, nodeVars, ValidationInv, TypeOK, DataTypeOK, ElectionTypeOK,
     ResultInv, Written, DataKept
<1>2. CASE Next
  <2>1. CASE ListPods \/ Configure \/ UpdateStatus \/ Abort
    BY <2>1, ReconcileKeeps
  <2>2. CASE StartValidation \/ Ping \/ Elapse
    BY <2>2, QuietSteps
  <2>3. CASE WriteTestValue \/ WriteTestValueFails
    BY <2>3, WriteKeeps
  <2>4. CASE \E p \in Pods : ReadReplica(p)
    BY <2>4, ReadKeeps
  <2>5. CASE Cleanup
    BY <2>5, CleanupKeeps
  <2>6. CASE DataEnvironment /\ UNCHANGED validationVars
    BY <2>6, WorldKeeps
  <2> QED
    BY <1>2, <2>1, <2>2, <2>3, <2>4, <2>5, <2>6 DEF Next, ValidationStep
<1> QED
  BY <1>1, <1>2

-----------------------------------------------------------------------------
(* Theorems.                                                               *)

\* The test write, the streams and the elections keep every variable in its
\* type; in particular the write instance is never read as a replica.
THEOREM ValidationTypes == Spec => []TypeOK
<1>1. ValidationInv => TypeOK
  BY DEF ValidationInv
<1> QED
  BY <1>1, InvStarts, InvStep, PTL DEF Spec

\* A published verdict that passed rests on a write the published main took.
THEOREM PassedVerdictWasWritten == Spec => PassedMeansMainAcceptsWrites
<1>1. ASSUME ValidationInv, [Next]_vars, Publishes, AllReplicasHealthy, several,
             choice # NoPod, ~UNCHANGED vars
      PROVE  /\ main' = choice
             /\ value \in tests
             /\ value \in data[main'] \/ restarts > 0
  <2>1. UpdateStatus
    BY <1>1 DEF Publishes, Next, ListPods, Configure, StartValidation,
       ValidationStep, Ping, WriteTestValue, WriteTestValueFails, ReadReplica,
       Cleanup, Abort, Elapse, validationVars, statusVars
  <2>2. main' = choice
    BY <2>1 DEF UpdateStatus, Publish, GiveUp
  <2>3. Written
    BY <1>1 DEF ValidationInv, ResultInv, Publishes, AllReplicasHealthy
  <2> QED
    BY <2>2, <2>3 DEF Written
<1>2. ValidationInv /\ [Next]_vars
        => [Publishes /\ AllReplicasHealthy /\ several /\ choice # NoPod
            => /\ main' = choice
               /\ value \in tests
               /\ value \in data[main'] \/ restarts > 0]_vars
  BY <1>1
<1> QED
  BY <1>2, InvStarts, InvStep, PTL DEF Spec, PassedMeansMainAcceptsWrites

\* The reconcile with a validation in it is still an election: RunValidation
\* and testReplicationLag write data, and no role, registration or service.
THEOREM ValidationIsAnElection == Spec => ElectionSpec
<1>1. Init => ElectionInit
  BY DEF Init, DataInit
<1>2. [Next]_vars => [ElectionNext]_electionVars
  <2> SUFFICES ASSUME [Next]_vars
               PROVE  ElectionNext \/ UNCHANGED electionVars
    OBVIOUS
  <2>1. CASE ListPods \/ Configure \/ UpdateStatus \/ Abort
    BY <2>1 DEF ListPods, Configure, UpdateStatus, Abort, ElectionNext, OperatorStep
  <2>2. CASE StartValidation \/ ValidationStep \/ Elapse
    BY <2>2 DEF StartValidation, ValidationStep, Ping, WriteTestValue,
       WriteTestValueFails, ReadReplica, Cleanup, Elapse
  <2>3. CASE DataEnvironment
    BY <2>3 DEF DataEnvironment, ClientWrite, RestartPod, RestartContainer, Stream,
       ElectionNext, KubernetesStep
  <2>4. CASE UNCHANGED vars
    BY <2>4 DEF vars
  <2> QED
    BY <2>1, <2>2, <2>3, <2>4 DEF Next
<1> QED
  BY <1>1, <1>2, PTL DEF Spec, ElectionSpec

=============================================================================
