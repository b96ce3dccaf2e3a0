----------------------------- MODULE DataPlane -----------------------------
(***************************************************************************)
(* What the elections do to the data: the commits each instance holds, the *)
(* commits its main streams to it, and the lineage it can prove.           *)
(*                                                                         *)
(* Commits are numbered in the order they are made.  Memgraph streams to a *)
(* registered replica that is empty, or whose history is a part of the     *)
(* main's and carries the same epoch.  epoch is the content of epoch_id: a *)
(* pod that starts without it gets one that nobody else has.  That two     *)
(* histories branched shows in the commits.                                *)
(***************************************************************************)
EXTENDS Election, Naturals, FiniteSets

CONSTANTS
    MaxCommits,     \* bound on commits
    MaxRestarts     \* bound on restarts of instances

ASSUME DataAssumption == MaxCommits \in Nat /\ MaxRestarts \in Nat

Commits == 1 .. MaxCommits
Epochs  == 0 .. MaxRestarts

VARIABLES
    data,           \* the commits of each instance
    epoch,          \* the epoch of each instance
    commits,        \* commits so far
    restarts        \* restarts of instances so far

dataVars == <<data, epoch, commits, restarts>>

DataTypeOK ==
    /\ ElectionTypeOK
    /\ data \in [Instances -> SUBSET Commits]
    /\ epoch \in [Instances -> Epochs]
    /\ commits \in 0 .. MaxCommits
    /\ restarts \in 0 .. MaxRestarts

DataInit ==
    /\ ElectionInit
    /\ data = [p \in Instances |-> {}]
    /\ epoch = [p \in Instances |-> 0]
    /\ commits = 0
    /\ restarts = 0

-----------------------------------------------------------------------------
\* A MAIN commits a write, whoever sends it: the read service and the headless
\* service lead to every instance.
Commit(p) ==
    /\ role[p] = "MAIN"
    /\ commits < MaxCommits
    /\ commits' = commits + 1
    /\ data' = [data EXCEPT ![p] = @ \cup {commits + 1}]
    /\ UNCHANGED <<epoch, restarts>>

ClientWrite(p) ==
    /\ Commit(p)
    /\ UNCHANGED electionVars

IsReplicaOf(r, m) == r \in regs[m] /\ role[m] = "MAIN" /\ role[r] = "REPLICA"

SharesHistory(r, m) ==
    data[r] = {} \/ (epoch[r] = epoch[m] /\ data[r] \subseteq data[m])

Missing(r, m) == data[m] \ data[r]

Stream(m, r) ==
    /\ IsReplicaOf(r, m)
    /\ SharesHistory(r, m)
    /\ Missing(r, m) # {}
    /\ \E c \in Missing(r, m) :
         /\ \A d \in Missing(r, m) : c <= d
         /\ data' = [data EXCEPT ![r] = @ \cup {c}]
    /\ epoch' = [epoch EXCEPT ![r] = epoch[m]]
    /\ UNCHANGED <<electionVars, commits, restarts>>

\* An instance comes back without the commits its write-ahead log had not
\* flushed yet: the last ones, up to walFlushEveryNTx of them.
Recover(p) ==
    /\ restarts < MaxRestarts
    /\ restarts' = restarts + 1
    /\ \E last \in 0 .. MaxCommits :
         data' = [data EXCEPT ![p] = {c \in @ : c <= last}]
    /\ UNCHANGED commits

\* The init container clear-replication-state of a new pod removes epoch_id
\* and keeps the graph.
RestartPod(p) ==
    /\ Recover(p)
    /\ Restart(p)
    /\ epoch' = [epoch EXCEPT ![p] = restarts + 1]

\* Only the container restarts: no init container runs.
RestartContainer(p) ==
    /\ Recover(p)
    /\ UNCHANGED <<electionVars, epoch>>

\* Deletion of the cluster is left to module Reconciler.
DataEnvironment ==
    \/ \E p \in Instances :
          ClientWrite(p) \/ RestartPod(p) \/ RestartContainer(p)
    \/ \E m, r \in Instances : Stream(m, r)
    \/ /\ \E seen \in SUBSET Pods : SyncPods(seen)
       /\ UNCHANGED dataVars

DataNext ==
    \/ OperatorStep /\ UNCHANGED dataVars
    \/ DataEnvironment

DataSpec == DataInit /\ [][DataNext]_<<electionVars, dataVars>>

-----------------------------------------------------------------------------
(* Properties.                                                             *)

\* The comment on clear-replication-state: the graph is preserved and the
\* operator establishes replication again, so a registered replica whose
\* history has not branched, as it has nothing its main lacks, is streamed to.
ReplicationIsReestablished ==
    \A m, r \in Instances :
        IsReplicaOf(r, m) /\ data[r] \subseteq data[m] => SharesHistory(r, m)
=============================================================================
