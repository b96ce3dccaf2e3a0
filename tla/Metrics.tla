------------------------------ MODULE Metrics ------------------------------
(***************************************************************************)
(* The Prometheus series one cluster leaves in the operator's registry.    *)
(* A series appears when a gauge is set for its labels and stays until     *)
(* somebody deletes it, so the question is who does, for every series, in  *)
(* every order of failing calls, changing registrations, deletion of the   *)
(* cluster and restarts of the operator.                                   *)
(*                                                                         *)
(* Gauges that are set and deleted together are one family.  A series is   *)
(* the family and the instance in its labels, NoPod for the families with  *)
(* one series per cluster; roles and values are left out.  So are the      *)
(* counters and the histogram of the reconciles and the snapshots: nothing *)
(* deletes their series, they outlive the cluster.  Which pods are ready,  *)
(* which is the write instance and what is registered with it moves        *)
(* freely.                                                                 *)
(***************************************************************************)
EXTENDS FiniteSets

CONSTANTS
    Instances,      \* pods of the StatefulSet
    NoPod           \* no instance

ASSUME LabelAssumption == NoPod \notin Instances

\* cluster: phase, instance counts, rollups, validation and snapshot;
\* snapshot: what RecordReplicaSet sets; stateful: data channel and behind
\* seconds; drift; instance: health by validation; storage.
ClusterFamily   == "cluster"
SnapshotFamily  == "snapshot"
StatefulFamily  == "stateful"
DriftFamily     == "drift"
InstanceFamily  == "instance"
StorageFamily   == "storage"

Families == {ClusterFamily, SnapshotFamily, StatefulFamily, DriftFamily,
             InstanceFamily, StorageFamily}

VARIABLES
    series,         \* for every family the labels that have a series
    states,         \* replicas the replication manager keeps state of
    manager,        \* the replication manager exists
    exists,         \* the MemgraphCluster object is in the cache
    queued,         \* a reconcile is due
    pc,             \* next part of the running reconcile, or "idle"
    listed,         \* pods it listed as ready
    writer,         \* its write instance
    regs            \* what SHOW REPLICAS on the write instance answers

vars == <<series, states, manager, exists, queued, pc, listed, writer, regs>>
reconcileVars == <<pc, listed, writer>>

NoSeriesAtAll == [f \in Families |-> {}]

TypeOK ==
    /\ series \in [Families -> SUBSET (Instances \cup {NoPod})]
    /\ \A f \in Families \ {ClusterFamily} : NoPod \notin series[f]
    /\ series[ClusterFamily] \subseteq {NoPod}
    /\ series[DriftFamily] \subseteq series[StorageFamily]
    /\ states \subseteq Instances
    /\ states # {} => manager
    /\ manager \in BOOLEAN
    /\ exists \in BOOLEAN
    /\ queued \in BOOLEAN
    /\ pc \in {"idle", "cleanup", "health", "storage", "status"}
    /\ listed \subseteq Instances
    /\ writer \in listed \cup {NoPod}
    /\ regs \subseteq Instances

Init ==
    /\ series = NoSeriesAtAll
    /\ states = {}
    /\ manager = FALSE
    /\ exists = TRUE
    /\ queued = TRUE
    /\ pc = "idle"
    /\ listed = {}
    /\ writer = NoPod
    /\ regs = {}

-----------------------------------------------------------------------------
(* Reconcile.                                                              *)

\* DeleteReplicaMetrics for each of the replicas.
WithoutReplicas(s, replicas) == [s EXCEPT ![StatefulFamily] = @ \ replicas]

\* DeleteClusterState, when there is a manager.
StateDeleted == IF manager THEN WithoutReplicas(series, states) ELSE series

\* Mutant of ClusterMetricsDeleted: the stateful gauges are left to
\* DeleteClusterState.
MutantTrackedOnly(s) ==
    [f \in Families |-> IF f \in {StorageFamily, StatefulFamily}
                        THEN s[f] ELSE {}]

\* DeleteClusterMetrics: every family of gauges but those of the storage.
ClusterMetricsDeleted(s) ==
    [f \in Families |-> IF f = StorageFamily THEN s[f] ELSE {}]

\* Mutant of HandleNotFound: both deletions wait for a manager.
MutantSweepNeedsManager ==
    /\ pc = "idle"
    /\ queued
    /\ ~exists
    /\ series' = IF manager THEN ClusterMetricsDeleted(StateDeleted) ELSE series
    /\ states' = {}
    /\ queued' = FALSE
    /\ UNCHANGED <<manager, exists, reconcileVars, regs>>

HandleNotFound ==
    /\ pc = "idle"
    /\ queued
    /\ ~exists
    /\ series' = ClusterMetricsDeleted(StateDeleted)
    /\ states' = {}
    /\ queued' = FALSE
    /\ UNCHANGED <<manager, exists, reconcileVars, regs>>

\* Up to the List.  Step 7 is skipped when there is no write instance or no
\* second pod, or when the manager cannot be created.
StartReconcile ==
    /\ pc = "idle"
    /\ queued
    /\ exists
    /\ listed' \in SUBSET Instances
    /\ writer' \in IF listed' = {} THEN {NoPod} ELSE listed'
    /\ \/ /\ writer' # NoPod
          /\ manager' = TRUE
          /\ pc' = "cleanup"
       \/ /\ pc' = "storage"
          /\ UNCHANGED manager
    /\ UNCHANGED <<series, states, exists, queued, regs>>

\* ConfigureReplication up to cleanupStaleReplicas: the series of a replica
\* goes when its DROP REPLICA was answered.  When ConfigureReplication
\* returns an error, so does step 7 end.
CleanupStaleReplicas ==
    /\ pc = "cleanup"
    /\ \/ \E dropped \in SUBSET (regs \ (listed \ {writer})) :
            /\ series' = WithoutReplicas(series, dropped)
            /\ regs' \in {regs \ more :
                            more \in {d \in SUBSET (regs \ (listed \ {writer})) :
                                        dropped \subseteq d}}
            /\ pc' = "health"
       \/ /\ pc' = "storage"
          /\ UNCHANGED <<series, regs>>
    /\ UNCHANGED <<states, manager, exists, queued, listed, writer>>

\* Mutant of ReplicaSetRecorded: the old series are not deleted first.
MutantNotDeletedFirst(s) ==
    [s EXCEPT ![SnapshotFamily] = @ \cup regs, ![ClusterFamily] = {NoPod}]

\* RecordReplicaSet.
ReplicaSetRecorded(s) ==
    [s EXCEPT ![SnapshotFamily] = regs, ![ClusterFamily] = {NoPod}]

CheckReplicationHealth ==
    /\ pc = "health"
    /\ states' = regs
    /\ series' = ReplicaSetRecorded([series EXCEPT ![StatefulFamily] = @ \cup regs])
    /\ pc' = "storage"
    /\ UNCHANGED <<manager, exists, queued, listed, writer, regs>>

CheckReplicationHealthFails ==
    /\ pc = "health"
    /\ pc' = "storage"
    /\ UNCHANGED <<series, states, manager, exists, queued, listed, writer, regs>>

\* Mutant of Drifts: a replica whose storage info is missing counts as empty.
MutantMissingIsEmpty(answered) ==
    IF writer \in answered THEN listed \ {writer} ELSE {}

\* The replicas whose drift from the write instance is known.
Drifts(answered) == IF writer \in answered THEN answered \ {writer} ELSE {}

\* Steps 8 to 11: validation may have created the manager; without one no
\* storage metrics are collected.
CollectStorageMetrics ==
    /\ pc = "storage"
    /\ manager' \in {manager, TRUE}
    /\ \/ /\ manager'
          /\ \E answered \in SUBSET listed :
               series' = [series EXCEPT
                   ![StorageFamily] = @ \cup answered,
                   ![DriftFamily] = Drifts(answered)]
       \/ /\ ~manager'
          /\ UNCHANGED series
    /\ pc' = "status"
    /\ UNCHANGED <<states, exists, queued, listed, writer, regs>>

Return ==
    /\ pc' = "idle"
    /\ listed' = {}
    /\ writer' = NoPod

\* The status was updated: cluster gauges and what status.validation holds,
\* maybe of an older validation, are recorded.
RecordClusterMetrics ==
    /\ pc = "status"
    /\ \E validated \in SUBSET Instances :
         series' = [series EXCEPT ![ClusterFamily] = {NoPod},
                                  ![InstanceFamily] = @ \cup validated]
    /\ Return
    /\ UNCHANGED <<states, manager, exists, queued, regs>>

\* An error from any part: only the error counter is touched.
ReconcileFails ==
    /\ pc # "idle"
    /\ Return
    /\ UNCHANGED <<series, states, manager, exists, queued, regs>>

ReconcileStep ==
    \/ HandleNotFound \/ StartReconcile \/ CleanupStaleReplicas
    \/ CheckReplicationHealth \/ CheckReplicationHealthFails
    \/ CollectStorageMetrics \/ RecordClusterMetrics \/ ReconcileFails

-----------------------------------------------------------------------------
(* The rest of the world.                                                  *)

\* Another registration, another write instance, a replaced pod.
ChangeRegistrations ==
    /\ regs' \in SUBSET Instances
    /\ UNCHANGED <<series, states, manager, exists, queued, reconcileVars>>

\* The watch event of a deletion queues a reconcile.
Delete ==
    /\ exists
    /\ exists' = FALSE
    /\ queued' = TRUE
    /\ UNCHANGED <<series, states, manager, reconcileVars, regs>>

\* A cluster of the same name.
Create ==
    /\ ~exists
    /\ exists' = TRUE
    /\ queued' = TRUE
    /\ UNCHANGED <<series, states, manager, reconcileVars, regs>>

\* The registry and the manager are memory of the operator; the informer
\* queues the objects it finds.
RestartOperator ==
    /\ series' = NoSeriesAtAll
    /\ states' = {}
    /\ manager' = FALSE
    /\ queued' = exists
    /\ Return
    /\ UNCHANGED <<exists, regs>>

Next ==
    \/ ReconcileStep
    \/ ChangeRegistrations \/ Delete \/ Create \/ RestartOperator

\* A queued reconcile is run, and its calls return.
Spec == Init /\ [][Next]_vars /\ WF_vars(ReconcileStep)

-----------------------------------------------------------------------------
(* Properties.                                                             *)

NoSeries == \A f \in Families \ {StorageFamily} : series[f] = {}

\* Once the reconcile of a deleted cluster has run, no series of the gauges
\* that DeleteClusterMetrics names is left, also of replicas the manager had
\* forgotten before, and none comes back from a reconcile that was under way.
\* Nothing ever deletes the storage gauges, nor the counters and the histogram.
SweptClusterHasNoSeries == ~exists /\ ~queued => NoSeries

\* A cluster that is deleted, at any moment of a reconcile, loses its series,
\* unless one of the same name is created in the meantime.
SeriesGoWithCluster == ~exists ~> NoSeries \/ exists

\* The series RecordReplicaSet keeps of a replica that is not registered any
\* more disappear, if health checks go on succeeding: it deletes what it does
\* not set again.  This is not said of the data channel and behind seconds,
\* which stay when the state of a replica is pruned.
DroppedReplicaDisappears ==
    \A p \in Instances :
        <>[](p \notin regs) /\ []<><<CheckReplicationHealth>>_vars
            => <>[](p \notin series[SnapshotFamily])
=============================================================================
