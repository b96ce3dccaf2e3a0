---------------------------- MODULE MetricsProofs ----------------------------
(***************************************************************************)
(* Which series a cluster leaves in the registry, for any set of           *)
(* instances.  SweptClusterHasNoSeries is not inductive: a reconcile that  *)
(* was under way when the cluster was deleted could set its gauges after   *)
(* the sweep.  That it cannot is BusyMeansQueued: the deletion is handled  *)
(* by a later reconcile of the same key, and one key is reconciled once at *)
(* a time.                                                                 *)
(***************************************************************************)
EXTENDS Metrics, TLAPS

\* Also, steps 7a and 7b have a manager.
BusyMeansQueued ==
    /\ pc # "idle" => queued
    /\ pc \in {"cleanup", "health"} => manager

MetricsInv == TypeOK /\ BusyMeansQueued /\ SweptClusterHasNoSeries

LEMMA FamiliesDiffer ==
    /\ ClusterFamily \in Families /\ SnapshotFamily \in Families
    /\ StatefulFamily \in Families /\ DriftFamily \in Families
    /\ InstanceFamily \in Families /\ StorageFamily \in Families
    /\ \A f \in {SnapshotFamily, StatefulFamily, DriftFamily, InstanceFamily,
                 StorageFamily} : f # ClusterFamily
    /\ DriftFamily \notin {SnapshotFamily, StatefulFamily, InstanceFamily}
    /\ StorageFamily \notin {SnapshotFamily, StatefulFamily, InstanceFamily,
                             DriftFamily}
BY DEF Families, ClusterFamily, SnapshotFamily, StatefulFamily, DriftFamily,
   InstanceFamily, StorageFamily

SeriesOK(s) ==
    /\ s \in [Families -> SUBSET (Instances \cup {NoPod})]
    /\ \A f \in Families \ {ClusterFamily} : NoPod \notin s[f]
    /\ s[ClusterFamily] \subseteq {NoPod}
    /\ s[DriftFamily] \subseteq s[StorageFamily]

LEMMA NothingIsOK == SeriesOK(NoSeriesAtAll)
BY FamiliesDiffer DEF SeriesOK, NoSeriesAtAll

LEMMA WithoutReplicasOK ==
    ASSUME NEW s, SeriesOK(s), NEW replicas PROVE SeriesOK(WithoutReplicas(s, replicas))
BY FamiliesDiffer DEF SeriesOK, WithoutReplicas

LEMMA SweepOK ==
    ASSUME NEW s, SeriesOK(s) PROVE SeriesOK(ClusterMetricsDeleted(s))
BY FamiliesDiffer DEF SeriesOK, ClusterMetricsDeleted

LEMMA RecordedOK ==
    ASSUME NEW s, SeriesOK(s), regs \subseteq Instances
    PROVE  SeriesOK(ReplicaSetRecorded([s EXCEPT ![StatefulFamily] = @ \cup regs]))
<1> DEFINE t == [s EXCEPT ![StatefulFamily] = @ \cup regs]
<1>1. SeriesOK(t)
  BY FamiliesDiffer, LabelAssumption DEF SeriesOK
<1>2. ASSUME NEW u, SeriesOK(u) PROVE SeriesOK(ReplicaSetRecorded(u))
  BY <1>2, FamiliesDiffer, LabelAssumption DEF SeriesOK, ReplicaSetRecorded
<1> HIDE DEF t
<1>3. SeriesOK(ReplicaSetRecorded(t))
  BY <1>1, <1>2
<1> QED
  BY <1>3 DEF t

LEMMA StorageOK ==
    ASSUME NEW s, SeriesOK(s), NEW answered \in SUBSET Instances
    PROVE  SeriesOK([s EXCEPT ![StorageFamily] = @ \cup answered,
                              ![DriftFamily] = Drifts(answered)])
<1>1. Drifts(answered) \subseteq answered
  BY DEF Drifts
<1> QED
  BY <1>1, FamiliesDiffer, LabelAssumption DEF SeriesOK

LEMMA ClusterOK ==
    ASSUME NEW s, SeriesOK(s), NEW validated \in SUBSET Instances
    PROVE  SeriesOK([s EXCEPT ![ClusterFamily] = {NoPod},
                              ![InstanceFamily] = @ \cup validated])
BY FamiliesDiffer, LabelAssumption DEF SeriesOK

-----------------------------------------------------------------------------
LEMMA InvStarts == Init => MetricsInv
<1> SUFFICES ASSUME Init PROVE MetricsInv
  OBVIOUS
<1>1. SeriesOK(series)
  BY NothingIsOK DEF Init
<1>2. TypeOK
  BY <1>1 DEF Init, TypeOK, SeriesOK
<1> QED
  BY <1>2 DEF Init, MetricsInv, BusyMeansQueued, SweptClusterHasNoSeries

\* The sweep leaves nothing but storage series, whatever the manager knew.
LEMMA SweepSweeps ==
    ASSUME MetricsInv, HandleNotFound PROVE MetricsInv'
<1>1. SeriesOK(StateDeleted)
  BY WithoutReplicasOK DEF StateDeleted, MetricsInv, TypeOK, SeriesOK
<1>2. SeriesOK(series')
  BY <1>1, SweepOK DEF HandleNotFound, SeriesOK
<1>3. TypeOK'
  BY <1>2 DEF HandleNotFound, MetricsInv, TypeOK, SeriesOK, reconcileVars
<1>4. NoSeries'
  BY DEF HandleNotFound, NoSeries, ClusterMetricsDeleted
<1> QED
  BY <1>3, <1>4 DEF HandleNotFound, MetricsInv, BusyMeansQueued,
     SweptClusterHasNoSeries, reconcileVars

\* Every other step of a reconcile leaves queued as it is, and runs only
\* while it is TRUE.
LEMMA ReconcileKeeps ==
    ASSUME MetricsInv,
           \/ StartReconcile \/ CleanupStaleReplicas \/ CheckReplicationHealth
           \/ CheckReplicationHealthFails \/ CollectStorageMetrics
           \/ RecordClusterMetrics \/ ReconcileFails
    PROVE  MetricsInv'
<1> USE DEF MetricsInv
<1>1. queued /\ queued' /\ exists' = exists
  BY DEF BusyMeansQueued, StartReconcile, CleanupStaleReplicas,
     CheckReplicationHealth, CheckReplicationHealthFails, CollectStorageMetrics,
     RecordClusterMetrics, ReconcileFails
<1>2. SeriesOK(series) /\ regs \subseteq Instances /\ listed \subseteq Instances
  BY DEF TypeOK, SeriesOK
<1>3. CASE StartReconcile
  <2>1. /\ listed' \subseteq Instances /\ writer' \in listed' \cup {NoPod}
        /\ pc' \in {"cleanup", "storage"}
        /\ UNCHANGED <<series, states, exists, queued, regs>>
    BY <1>3 DEF StartReconcile
  <2>2. /\ manager' = TRUE \/ manager' = manager
        /\ pc' = "cleanup" => manager' = TRUE
    BY <1>3 DEF StartReconcile
  <2>3. manager' \in BOOLEAN /\ (manager => manager')
    <3>1. manager' = manager \/ manager' = TRUE
      BY <2>2
    <3> QED
      BY <3>1, Zenon DEF TypeOK
  <2>4. TypeOK'
    BY <2>1, <2>3 DEF TypeOK
  <2> QED
    BY <1>1, <2>1, <2>2, <2>4 DEF BusyMeansQueued, SweptClusterHasNoSeries
<1>4. CASE CleanupStaleReplicas
  <2>1. SeriesOK(series') /\ regs' \subseteq Instances /\ pc' \in {"health", "storage"}
    BY <1>2, <1>4, WithoutReplicasOK DEF CleanupStaleReplicas, SeriesOK
  <2>2. TypeOK'
    BY <1>4, <2>1 DEF CleanupStaleReplicas, TypeOK, SeriesOK
  <2> QED
    BY <1>1, <1>4, <2>2 DEF CleanupStaleReplicas, BusyMeansQueued,
       SweptClusterHasNoSeries
<1>5. CASE CheckReplicationHealth
  <2>1. SeriesOK(series')
    BY <1>2, <1>5, RecordedOK DEF CheckReplicationHealth
  <2>2. TypeOK'
    BY <1>5, <2>1 DEF CheckReplicationHealth, TypeOK, SeriesOK, BusyMeansQueued
  <2> QED
    BY <1>1, <1>5, <2>2 DEF CheckReplicationHealth, BusyMeansQueued,
       SweptClusterHasNoSeries
<1>6. CASE CheckReplicationHealthFails
  <2>1. TypeOK'
    BY <1>6 DEF CheckReplicationHealthFails, TypeOK
  <2> QED
    BY <1>1, <1>6, <2>1 DEF CheckReplicationHealthFails, BusyMeansQueued,
       SweptClusterHasNoSeries
<1>7. CASE CollectStorageMetrics
  <2>1. SeriesOK(series')
    <3>1. ASSUME NEW answered \in SUBSET listed,
                 series' = [series EXCEPT ![StorageFamily] = @ \cup answered,
                                          ![DriftFamily] = Drifts(answered)]
          PROVE  SeriesOK(series')
      BY <1>2, <3>1, StorageOK
    <3> QED
      BY <1>2, <1>7, <3>1 DEF CollectStorageMetrics
  <2>2. manager' \in BOOLEAN /\ (manager => manager')
    <3>1. manager' = manager \/ manager' = TRUE
      BY <1>7 DEF CollectStorageMetrics
    <3> QED
      BY <3>1, Zenon DEF TypeOK
  <2>3. pc' = "status" /\ UNCHANGED <<states, exists, queued, listed, writer, regs>>
    BY <1>7 DEF CollectStorageMetrics
  <2>4. TypeOK'
    BY <2>1, <2>2, <2>3 DEF TypeOK, SeriesOK
  <2> QED
    BY <1>1, <2>3, <2>4 DEF BusyMeansQueued, SweptClusterHasNoSeries
<1>8. CASE RecordClusterMetrics
  <2>1. SeriesOK(series')
    BY <1>2, <1>8, ClusterOK DEF RecordClusterMetrics
  <2>2. TypeOK'
    BY <1>8, <2>1 DEF RecordClusterMetrics, Return, TypeOK, SeriesOK
  <2> QED
    BY <1>1, <1>8, <2>2 DEF RecordClusterMetrics, Return, BusyMeansQueued,
       SweptClusterHasNoSeries
<1>9. CASE ReconcileFails
  <2>1. TypeOK'
    BY <1>9 DEF ReconcileFails, Return, TypeOK
  <2> QED
    BY <1>1, <1>9, <2>1 DEF ReconcileFails, Return, BusyMeansQueued,
       SweptClusterHasNoSeries
<1> QED
  BY <1>3, <1>4, <1>5, <1>6, <1>7, <1>8, <1>9

LEMMA WorldKeeps ==
    ASSUME MetricsInv,
           \/ ChangeRegistrations \/ Delete \/ Create \/ RestartOperator
    PROVE  MetricsInv'
<1> USE DEF MetricsInv
<1>1. CASE ChangeRegistrations
  BY <1>1 DEF ChangeRegistrations, reconcileVars, TypeOK, BusyMeansQueued,
     SweptClusterHasNoSeries, NoSeries
<1>2. CASE Delete \/ Create
  BY <1>2 DEF Delete, Create, reconcileVars, TypeOK, BusyMeansQueued,
     SweptClusterHasNoSeries
<1>3. CASE RestartOperator
  <2>1. SeriesOK(series') /\ NoSeries'
    BY <1>3, NothingIsOK DEF RestartOperator, SeriesOK, NoSeries, NoSeriesAtAll
  <2>2. TypeOK'
    BY <1>3, <2>1 DEF RestartOperator, Return, TypeOK, SeriesOK
  <2> QED
    BY <1>3, <2>1, <2>2 DEF RestartOperator, Return, BusyMeansQueued,
       SweptClusterHasNoSeries
<1> QED
  BY <1>1, <1>2, <1>3

LEMMA InvHolds == Spec => []MetricsInv
<1>1. MetricsInv /\ [Next]_vars => MetricsInv'
  <2> SUFFICES ASSUME MetricsInv, [Next]_vars PROVE MetricsInv'
    OBVIOUS
  <2>1. CASE UNCHANGED vars
    BY <2>1 DEF vars, MetricsInv, TypeOK, BusyMeansQueued,
       SweptClusterHasNoSeries, NoSeries
  <2> QED
    BY <2>1, SweepSweeps, ReconcileKeeps, WorldKeeps DEF Next, ReconcileStep
<1> QED
  BY <1>1, InvStarts, PTL DEF Spec

\* Every gauge is set for the labels it is deleted by, and a drift gauge only
\* for an instance that has storage gauges.
THEOREM MetricsTypes == Spec => []TypeOK
<1>1. MetricsInv => TypeOK
  BY DEF MetricsInv
<1> QED
  BY <1>1, InvHolds, PTL

\* After the reconcile of a deleted cluster no series of the gauges that
\* DeleteClusterMetrics names is left, and none comes back.
THEOREM SweepIsFinal == Spec => []SweptClusterHasNoSeries
<1>1. MetricsInv => SweptClusterHasNoSeries
  BY DEF MetricsInv
<1> QED
  BY <1>1, InvHolds, PTL
=============================================================================
