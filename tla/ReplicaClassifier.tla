-------------------------- MODULE ReplicaClassifier --------------------------
(***************************************************************************)
(* classifyReplica: the verdict on one replica from the data_info its main *)
(* reports and two timers that span health checks.                         *)
(*                                                                         *)
(* A timer is kept as its age, now - since, or NotSet for the zero time.   *)
(* data_info is a function from databases to status and lag; dbStatus has  *)
(* folded the spelling of a status, so a status is one of the four the     *)
(* client names or "unknown".  Lag is negative, zero or positive.          *)
(***************************************************************************)
EXTENDS Integers, SequencesExt

CONSTANTS
    GracePeriod,        \* channelDownGracePeriod
    BehindThreshold     \* spec.replication.behindAlertThreshold

ASSUME TimesAssumption == GracePeriod \in Nat /\ BehindThreshold \in Nat \ {0}

NotSet == -1

GoodStatuses == {"ready", "recovery", "replicating"}
Statuses == GoodStatuses \cup {"invalid", "unknown"}

Classes == {"Healthy", "Behind", "Transient", "DataChannelDown", "Invalid",
            "UnknownStatus", "BehindTooLong"}

\* Whether a class counts toward HealthyReplicas.
IsHealthy(class) == class \in {"Healthy", "Behind", "Transient"}

Started(timer) == IF timer = NotSet THEN 0 ELSE timer

\* The timers after a check.
Timers(behind, channelDown) == [behind |-> behind, channelDown |-> channelDown]

NoTimers == Timers(NotSet, NotSet)

Verdict(class, timers) == [class |-> class, timers |-> timers]

IsEmpty(info)    == DOMAIN info = {}
HasInvalid(info) == \E d \in DOMAIN info : info[d].status = "invalid"
HasUnknown(info) == \E d \in DOMAIN info : info[d].status \notin GoodStatuses
IsBehind(info)   == \E d \in DOMAIN info : info[d].lag > 0

-----------------------------------------------------------------------------
(* The verdict case by case.                                               *)

\* Mutant of EmptyVerdict: the channel timer starts anew at every check.
MutantChannelTimerRestarted(timers) ==
    Verdict(IF 0 > GracePeriod THEN "DataChannelDown" ELSE "Transient",
            Timers(NotSet, 0))

EmptyVerdict(timers) ==
    LET down == Started(timers.channelDown)
    IN  Verdict(IF down > GracePeriod THEN "DataChannelDown" ELSE "Transient",
                Timers(NotSet, down))

\* Mutant of BehindVerdict: an unknown status hides the lag.
MutantUnknownHidesLag(info, timers) ==
    LET behind == Started(timers.behind)
    IN  Verdict(CASE HasUnknown(info) -> "UnknownStatus"
                  [] ~HasUnknown(info) /\ behind > BehindThreshold -> "BehindTooLong"
                  [] OTHER -> "Behind",
                Timers(behind, NotSet))

BehindVerdict(info, timers) ==
    LET behind == Started(timers.behind)
    IN  Verdict(CASE behind > BehindThreshold -> "BehindTooLong"
                  [] behind <= BehindThreshold /\ HasUnknown(info) -> "UnknownStatus"
                  [] OTHER -> "Behind",
                Timers(behind, NotSet))

\* Mutants of CaughtUpVerdict: one of the two timers is not cleared.
MutantBehindTimerKept(info, timers) ==
    Verdict(IF HasUnknown(info) THEN "UnknownStatus" ELSE "Healthy",
            Timers(timers.behind, NotSet))
MutantChannelTimerKept(info, timers) ==
    Verdict(IF HasUnknown(info) THEN "UnknownStatus" ELSE "Healthy",
            Timers(NotSet, timers.channelDown))

CaughtUpVerdict(info, timers) ==
    Verdict(IF HasUnknown(info) THEN "UnknownStatus" ELSE "Healthy", NoTimers)

\* An invalid database ends the check before the lag timer is looked at.
ClassifyReplica(info, timers) ==
    CASE IsEmpty(info) -> EmptyVerdict(timers)
      [] ~IsEmpty(info) /\ HasInvalid(info) ->
            Verdict("Invalid", Timers(timers.behind, NotSet))
      [] ~IsEmpty(info) /\ ~HasInvalid(info) /\ IsBehind(info) ->
            BehindVerdict(info, timers)
      [] OTHER -> CaughtUpVerdict(info, timers)

-----------------------------------------------------------------------------
(* The loop over the databases, in an order that Go leaves open.  It       *)
(* returns at the first database that is behind for too long.              *)

\* Mutant of ScanDatabase: lag is looked at only while all is well, so the
\* verdict depends on the order of the databases.
MutantUnknownEndsScan(acc, db) ==
    LET behind == db.lag > 0 /\ acc.worst # "UnknownStatus"
        since  == IF behind THEN Started(acc.since) ELSE acc.since
    IN  IF acc.worst = "BehindTooLong" THEN acc ELSE
        [worst |-> CASE behind /\ since > BehindThreshold -> "BehindTooLong"
                     [] db.status \notin GoodStatuses -> "UnknownStatus"
                     [] behind /\ acc.worst = "Healthy" -> "Behind"
                     [] OTHER -> acc.worst,
         anyBehind |-> acc.anyBehind \/ behind,
         since |-> since]

ScanDatabase(acc, db) ==
    LET behind == db.lag > 0
        since  == IF behind THEN Started(acc.since) ELSE acc.since
        worst  == IF db.status \notin GoodStatuses THEN "UnknownStatus" ELSE acc.worst
    IN  IF acc.worst = "BehindTooLong" THEN acc ELSE
        [worst |-> CASE behind /\ since > BehindThreshold -> "BehindTooLong"
                     [] behind /\ since <= BehindThreshold /\ worst = "Healthy" -> "Behind"
                     [] OTHER -> worst,
         anyBehind |-> acc.anyBehind \/ behind,
         since |-> since]

\* The loop's variables before each iteration, and after the last.
ScanStates(info, order, timers) ==
    LET acc[i \in 0 .. Len(order)] ==
            IF i = 0
            THEN [worst |-> "Healthy", anyBehind |-> FALSE, since |-> timers.behind]
            ELSE ScanDatabase(acc[i - 1], info[order[i]])
    IN  acc

ScanDatabases(info, order, timers) ==
    LET acc == ScanStates(info, order, timers)[Len(order)]
    IN  Verdict(acc.worst,
                Timers(IF acc.anyBehind THEN acc.since ELSE NotSet, NotSet))

-----------------------------------------------------------------------------
(* What the client derives from data_info for the snapshot gauges, in a    *)
(* loop over the databases of its own.                                     *)

StatusRank == [ready |-> 0, replicating |-> 1, recovery |-> 2, invalid |-> 3]

\* Mutant of DBStatus: a missing key has rank zero, like ready.
MutantUnknownIsReady(status) == IF status = "unknown" THEN "ready" ELSE status

\* An unknown status ranks as invalid.
DBStatus(status) == IF status = "unknown" THEN "invalid" ELSE status

SummarizeDatabase(acc, db) ==
    [behind |-> IF acc.first \/ db.lag > acc.behind THEN db.lag ELSE acc.behind,
     status |-> IF StatusRank[DBStatus(db.status)] > StatusRank[acc.status]
                THEN DBStatus(db.status) ELSE acc.status,
     first  |-> FALSE]

SummaryStates(info, order) ==
    LET acc[i \in 0 .. Len(order)] ==
            IF i = 0
            THEN [behind |-> 0, first |-> TRUE,
                  status |-> IF IsEmpty(info) THEN "invalid" ELSE "ready"]
            ELSE SummarizeDatabase(acc[i - 1], info[order[i]])
    IN  acc

SummarizeDataInfo(info, order) == SummaryStates(info, order)[Len(order)]

\* ReplicaInfo.IsHealthy, the gauge memgraph_replica_healthy.
IsStreaming(summary) == summary.status \in {"ready", "replicating"}

\* The gauge memgraph_replica_data_channel_up.
ChannelUp(class) ==
    class \notin {"DataChannelDown", "Transient", "Invalid", "UnknownStatus"}
=============================================================================
