---------------------------- MODULE ReplicaHealth ----------------------------
(***************************************************************************)
(* CheckReplicationHealth: what the operator remembers of each registered  *)
(* replica between health checks, and the verdicts it reaches.  The memory *)
(* is a map in the operator's process: a restart empties it, a check       *)
(* prunes it to the replicas it saw, the deletion of the cluster drops it. *)
(*                                                                         *)
(* Time is discrete and only ages are kept, capped at MaxAge, beyond every *)
(* threshold.  The code does not have the variables sinceStreaming and     *)
(* sinceCaughtUp, which keep for the properties how long ago a check last  *)
(* did not find the replica registered and                                 *)
(*   - without data_info,                                                  *)
(*   - with lag or with an invalid database: then classifyReplica returns  *)
(*     before it looks at the lag and its timer, which runs on.            *)
(***************************************************************************)
EXTENDS ReplicaClassifier, FiniteSets

CONSTANTS
    Replicas,       \* replica names
    Databases,      \* databases of the instance
    Lags,           \* values of behind that are reported
    MaxRestarts     \* bound on operator restarts and cluster deletions

ASSUME HealthAssumption ==
    /\ IsFiniteSet(Databases)
    /\ Lags \subseteq Int
    /\ MaxRestarts \in Nat

DataInfos ==
    UNION {[D -> [status : Statuses, lag : Lags]] : D \in SUBSET Databases}

\* data_info is {} or Null.
EmptyInfo == [d \in {} |-> [status |-> "ready", lag |-> 0]]

MaxAge == 1 + IF GracePeriod > BehindThreshold THEN GracePeriod ELSE BehindThreshold

Ages == 0 .. MaxAge

VARIABLES
    registered,     \* replicas the main reports
    info,           \* the data_info it reports for each
    tracked,        \* keys of states[cluster]
    timers,         \* replicaState of each replica, zero when not tracked
    class,          \* verdict of the last check that saw it, or "none"
    sinceStreaming,
    sinceCaughtUp,
    restarts

vars == <<registered, info, tracked, timers, class, sinceStreaming,
          sinceCaughtUp, restarts>>

TypeOK ==
    /\ registered \subseteq Replicas
    /\ info \in [Replicas -> DataInfos]
    /\ tracked \subseteq Replicas
    /\ timers \in [Replicas -> [behind : Ages \cup {NotSet},
                                channelDown : Ages \cup {NotSet}]]
    /\ \A r \in Replicas \ tracked : timers[r] = NoTimers
    /\ class \in [Replicas -> Classes \cup {"none"}]
    /\ sinceStreaming \in [Replicas -> Ages]
    /\ sinceCaughtUp \in [Replicas -> Ages]
    /\ restarts \in 0 .. MaxRestarts

Init ==
    /\ registered = {}
    /\ info = [r \in Replicas |-> EmptyInfo]
    /\ tracked = {}
    /\ timers = [r \in Replicas |-> NoTimers]
    /\ class = [r \in Replicas |-> "none"]
    /\ sinceStreaming = [r \in Replicas |-> 0]
    /\ sinceCaughtUp = [r \in Replicas |-> 0]
    /\ restarts = 0

-----------------------------------------------------------------------------
\* Mutant of PruneStates: the entry is kept.
MutantNotPruned(r) == timers[r]

\* What is left of a replica that was not reported: a later stateFor creates
\* its entry with both timers unset.
PruneStates(r) == NoTimers

\* SHOW REPLICAS answers.  A check that gets no answer changes nothing.
CheckReplicationHealth ==
    LET verdict == [r \in registered |-> ClassifyReplica(info[r], timers[r])]
    IN  /\ tracked' = registered
        /\ timers' = [r \in Replicas |->
              IF r \in registered THEN verdict[r].timers ELSE PruneStates(r)]
        /\ class' = [r \in Replicas |->
              IF r \in registered THEN verdict[r].class ELSE "none"]
        /\ sinceStreaming' = [r \in Replicas |->
              IF r \in registered /\ IsEmpty(info[r]) THEN sinceStreaming[r] ELSE 0]
        /\ sinceCaughtUp' = [r \in Replicas |->
              IF /\ r \in registered
                 /\ HasInvalid(info[r]) \/ IsBehind(info[r])
              THEN sinceCaughtUp[r] ELSE 0]
        /\ UNCHANGED <<registered, info, restarts>>

HealthyReplicas == {r \in tracked : IsHealthy(class[r])}

\* The process of the operator starts with an empty map.
Restart ==
    /\ restarts < MaxRestarts
    /\ restarts' = restarts + 1
    /\ tracked' = {}
    /\ timers' = [r \in Replicas |-> NoTimers]
    /\ class' = [r \in Replicas |-> "none"]
    /\ UNCHANGED <<registered, info, sinceStreaming, sinceCaughtUp>>

\* Reconcile does not find the object: DeleteClusterState.
DeleteClusterState ==
    /\ restarts < MaxRestarts
    /\ restarts' = restarts + 1
    /\ registered' = {}
    /\ tracked' = {}
    /\ timers' = [r \in Replicas |-> NoTimers]
    /\ class' = [r \in Replicas |-> "none"]
    /\ UNCHANGED <<info, sinceStreaming, sinceCaughtUp>>

-----------------------------------------------------------------------------
(* The main's registrations and its reports, and time.                     *)

\* REGISTER REPLICA, DROP REPLICA or another main.
ChangeRegistration(r) ==
    /\ registered' = IF r \in registered THEN registered \ {r}
                     ELSE registered \cup {r}
    /\ UNCHANGED <<info, tracked, timers, class, sinceStreaming, sinceCaughtUp,
                   restarts>>

Report(r, i) ==
    /\ r \in registered
    /\ i # info[r]
    /\ info' = [info EXCEPT ![r] = i]
    /\ UNCHANGED <<registered, tracked, timers, class, sinceStreaming,
                   sinceCaughtUp, restarts>>

Older(age) == IF age \in {NotSet, MaxAge} THEN age ELSE age + 1

Tick ==
    /\ timers' = [r \in Replicas |->
          Timers(Older(timers[r].behind), Older(timers[r].channelDown))]
    /\ sinceStreaming' = [r \in Replicas |-> Older(sinceStreaming[r])]
    /\ sinceCaughtUp' = [r \in Replicas |-> Older(sinceCaughtUp[r])]
    /\ UNCHANGED <<registered, info, tracked, class, restarts>>

Next ==
    \/ CheckReplicationHealth \/ Restart \/ DeleteClusterState \/ Tick
    \/ \E r \in Replicas : ChangeRegistration(r) \/ \E i \in DataInfos : Report(r, i)

\* Reconcile is requeued at the latest after requeueAfterError, and time goes
\* on.
Fairness == WF_vars(CheckReplicationHealth) /\ WF_vars(Tick)

Spec == Init /\ [][Next]_vars /\ Fairness

-----------------------------------------------------------------------------
(* Properties.                                                             *)

\* The loop of classifyReplica reaches the verdict and leaves the timers that
\* ClassifyReplica says, in whatever order Go ranges over the databases.
LoopOrderDoesNotMatter ==
    \A r \in Replicas :
        ~IsEmpty(info[r]) /\ ~HasInvalid(info[r]) =>
            \A order \in SetToSeqs(DOMAIN info[r]) :
                ScanDatabases(info[r], order, timers[r])
                    = ClassifyReplica(info[r], timers[r])

\* The snapshot gauges of a replica, which the client derives in a loop of
\* its own and again in any order, agree with the verdict: a replica shown as
\* healthy has its data channel up, one shown as behind is behind for the
\* classifier too, and one that counts as healthy and is not in its grace
\* period is not shown as invalid.
GaugesAgreeWithVerdict ==
    \A r \in Replicas : \A order \in SetToSeqs(DOMAIN info[r]) :
        LET summary == SummarizeDataInfo(info[r], order)
            verdict == ClassifyReplica(info[r], timers[r])
        IN  /\ IsStreaming(summary) => ChannelUp(verdict.class)
            /\ summary.behind > 0 <=> IsBehind(info[r])
            /\ verdict.class \in {"Healthy", "Behind"} => summary.status # "invalid"

\* A replica is reported as DataChannelDown only when for longer than the
\* grace period every check found it registered and without data_info, also
\* across restarts, re-registrations and deletions.
NoFalseChannelAlarm ==
    \A r \in Replicas :
        class[r] = "DataChannelDown" => sinceStreaming[r] > GracePeriod

\* A replica is reported as BehindTooLong only when for longer than the
\* threshold every check found it registered and with lag or with an invalid
\* database: the return for the latter comes before the lag is looked at.
NoFalseLagAlarm ==
    \A r \in Replicas :
        class[r] = "BehindTooLong" => sinceCaughtUp[r] > BehindThreshold

\* What the two NoFalse properties rest on: a timer never runs for longer than
\* what it measures has been seen.
TimersInv ==
    \A r \in Replicas :
        /\ timers[r].channelDown <= sinceStreaming[r]
        /\ timers[r].behind <= sinceCaughtUp[r]

\* A replica whose data channel stays down is reported as such for good, and
\* is no longer counted as healthy.
DeadChannelIsReported ==
    \A r \in Replicas :
        <>[](r \in registered /\ IsEmpty(info[r]))
            => <>[](class[r] = "DataChannelDown" /\ r \notin HealthyReplicas)

\* A replica that stays behind, never invalid or without data_info, is
\* reported as such for good and no longer counted as healthy, whatever else
\* its databases report meanwhile.
LastingLagIsReported ==
    \A r \in Replicas :
        <>[](r \in registered /\ IsBehind(info[r]) /\ ~HasInvalid(info[r]))
            => <>[](class[r] = "BehindTooLong" /\ r \notin HealthyReplicas)
=============================================================================
