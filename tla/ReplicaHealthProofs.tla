------------------------- MODULE ReplicaHealthProofs -------------------------
(***************************************************************************)
(* Proofs about ReplicaHealth, for every set of replicas and databases and *)
(* every grace period and threshold.                                       *)
(***************************************************************************)
EXTENDS ReplicaHealth, NumberLemmas, FunctionTheorems

Age == Ages \cup {NotSet}

\* Ages lie beyond both thresholds.
LEMMA AgeFacts ==
    /\ MaxAge \in Nat /\ MaxAge > GracePeriod /\ MaxAge > BehindThreshold
    /\ Age = -1 .. MaxAge /\ Ages = 0 .. MaxAge
BY TimesAssumption DEF MaxAge, Age, Ages, NotSet

\* Time keeps ages in range and in order.
LEMMA OlderFacts ==
    ASSUME NEW a \in Age, NEW b \in Ages
    PROVE  /\ Older(a) \in Age /\ Older(b) \in Ages
           /\ Older(b) >= b
           /\ a <= b => Older(a) <= Older(b)
BY AgeFacts DEF Older, NotSet

\* A verdict is a class and a pair of timers.
LEMMA VerdictType ==
    ASSUME NEW i, NEW t \in [behind : Age, channelDown : Age]
    PROVE  /\ ClassifyReplica(i, t).class \in Classes
           /\ ClassifyReplica(i, t).timers \in [behind : Age, channelDown : Age]
<1> USE AgeFacts DEF NotSet, Verdict, Timers, Classes
<1>1. CASE IsEmpty(i)
  BY <1>1 DEF ClassifyReplica, EmptyVerdict, Started
<1>2. CASE ~IsEmpty(i) /\ HasInvalid(i)
  BY <1>2 DEF ClassifyReplica
<1>3. CASE ~IsEmpty(i) /\ ~HasInvalid(i) /\ IsBehind(i)
  BY <1>3 DEF ClassifyReplica, BehindVerdict, Started
<1>4. CASE ~IsEmpty(i) /\ ~HasInvalid(i) /\ ~IsBehind(i)
  BY <1>4 DEF ClassifyReplica, CaughtUpVerdict, NoTimers
<1> QED
  BY <1>1, <1>2, <1>3, <1>4

\* A timer that a check leaves running is at most as old as the evidence,
\* and an alarm needs a timer older than its threshold.
LEMMA VerdictBound ==
    ASSUME NEW i, NEW t \in [behind : Age, channelDown : Age],
           NEW s \in Ages, NEW c \in Ages, t.channelDown <= s, t.behind <= c
    PROVE  LET v == ClassifyReplica(i, t)
               s1 == IF IsEmpty(i) THEN s ELSE 0
               c1 == IF HasInvalid(i) \/ IsBehind(i) THEN c ELSE 0
           IN  /\ v.timers.channelDown <= s1
               /\ v.timers.behind <= c1
               /\ v.class = "DataChannelDown" => s1 > GracePeriod
               /\ v.class = "BehindTooLong" => c1 > BehindThreshold
<1> USE AgeFacts, TimesAssumption DEF NotSet, Verdict, Timers
<1>1. CASE IsEmpty(i)
  BY <1>1 DEF ClassifyReplica, EmptyVerdict, Started
<1>2. CASE ~IsEmpty(i) /\ HasInvalid(i)
  BY <1>2 DEF ClassifyReplica
<1>3. CASE ~IsEmpty(i) /\ ~HasInvalid(i) /\ IsBehind(i)
  BY <1>3 DEF ClassifyReplica, BehindVerdict, Started
<1>4. CASE ~IsEmpty(i) /\ ~HasInvalid(i) /\ ~IsBehind(i)
  BY <1>4 DEF ClassifyReplica, CaughtUpVerdict, NoTimers
<1> QED
  BY <1>1, <1>2, <1>3, <1>4

\* Every initial state is well-typed.
LEMMA TypeInit == Init => TypeOK
<1> SUFFICES ASSUME Init PROVE TypeOK
  OBVIOUS
<1>1. EmptyInfo \in DataInfos
  <2>1. EmptyInfo \in [{} -> [status : Statuses, lag : Lags]]
    BY DEF EmptyInfo
  <2> QED
    BY <2>1 DEF DataInfos
<1>2. NoTimers \in [behind : Age, channelDown : Age]
  BY DEF NoTimers, Timers, Age
<1>3. 0 \in Ages /\ 0 \in 0 .. MaxRestarts
  BY AgeFacts, HealthAssumption
<1> QED
  BY <1>1, <1>2, <1>3 DEF Init, TypeOK, Age

\* Every step keeps the types.
LEMMA TypeNext == TypeOK /\ [Next]_vars => TypeOK'
<1> SUFFICES ASSUME TypeOK, [Next]_vars PROVE TypeOK'
  OBVIOUS
<1>1. NoTimers \in [behind : Age, channelDown : Age] /\ 0 \in Ages
  BY AgeFacts DEF NoTimers, Timers, Age
<1>2. timers \in [Replicas -> [behind : Age, channelDown : Age]]
  BY DEF TypeOK, Age
<1>3. CASE CheckReplicationHealth
  <2>1. \A r \in registered :
          /\ ClassifyReplica(info[r], timers[r]).class \in Classes
          /\ ClassifyReplica(info[r], timers[r]).timers
               \in [behind : Age, channelDown : Age]
    BY <1>2, VerdictType DEF TypeOK
  <2>2. timers' \in [Replicas -> [behind : Age, channelDown : Age]]
    BY <1>1, <1>3, <2>1 DEF CheckReplicationHealth, PruneStates, TypeOK
  <2>3. \A r \in Replicas \ tracked' : timers'[r] = NoTimers
    BY <1>3 DEF CheckReplicationHealth, PruneStates
  <2>4. class' \in [Replicas -> Classes \cup {"none"}]
    BY <1>3, <2>1 DEF CheckReplicationHealth, TypeOK
  <2> QED
    BY <1>1, <1>3, <2>2, <2>3, <2>4 DEF CheckReplicationHealth, TypeOK, Age
<1>4. CASE Restart
  BY <1>1, <1>4, HealthAssumption DEF Restart, TypeOK, Age
<1>5. CASE DeleteClusterState
  BY <1>1, <1>5, HealthAssumption DEF DeleteClusterState, TypeOK, Age
<1>6. ASSUME NEW r \in Replicas, ChangeRegistration(r) PROVE TypeOK'
  BY <1>6 DEF ChangeRegistration, TypeOK
<1>7. ASSUME NEW r \in Replicas, NEW i \in DataInfos, Report(r, i) PROVE TypeOK'
  BY <1>7 DEF Report, TypeOK
<1>8. CASE Tick
  <2>1. timers' \in [Replicas -> [behind : Age, channelDown : Age]]
    BY <1>1, <1>2, <1>8, OlderFacts DEF Tick, Timers
  <2>2. \A r \in Replicas \ tracked' : timers'[r] = NoTimers
    BY <1>8 DEF Tick, TypeOK, NoTimers, Timers, Older
  <2>3. /\ sinceStreaming' \in [Replicas -> Ages] /\ sinceCaughtUp' \in [Replicas -> Ages]
    BY <1>1, <1>8, OlderFacts DEF Tick, TypeOK, Age
  <2> QED
    BY <1>8, <2>1, <2>2, <2>3 DEF Tick, TypeOK, Age
<1>9. CASE UNCHANGED vars
  BY <1>9 DEF TypeOK, vars
<1> QED
  BY <1>3, <1>4, <1>5, <1>6, <1>7, <1>8, <1>9 DEF Next

\* Type correctness of the health checks.
THEOREM TypeCorrectness == Spec => []TypeOK
BY TypeInit, TypeNext, PTL DEF Spec

Safe == TimersInv /\ NoFalseChannelAlarm /\ NoFalseLagAlarm

\* Every step keeps the timers within the evidence, and the alarms sound.
LEMMA SafeNext == TypeOK /\ Safe /\ [Next]_vars => Safe'
<1> SUFFICES ASSUME TypeOK, Safe, [Next]_vars, NEW r \in Replicas
             PROVE  /\ timers'[r].channelDown <= sinceStreaming'[r]
                    /\ timers'[r].behind <= sinceCaughtUp'[r]
                    /\ class'[r] = "DataChannelDown" => sinceStreaming'[r] > GracePeriod
                    /\ class'[r] = "BehindTooLong" => sinceCaughtUp'[r] > BehindThreshold
  BY DEF Safe, TimersInv, NoFalseChannelAlarm, NoFalseLagAlarm
<1>1. /\ timers[r] \in [behind : Age, channelDown : Age]
      /\ sinceStreaming[r] \in Ages /\ sinceCaughtUp[r] \in Ages
  BY DEF TypeOK, Age
<1>2. /\ timers[r].channelDown <= sinceStreaming[r]
      /\ timers[r].behind <= sinceCaughtUp[r]
      /\ class[r] = "DataChannelDown" => sinceStreaming[r] > GracePeriod
      /\ class[r] = "BehindTooLong" => sinceCaughtUp[r] > BehindThreshold
  BY DEF Safe, TimersInv, NoFalseChannelAlarm, NoFalseLagAlarm
<1>3. NoTimers.behind = -1 /\ NoTimers.channelDown = -1
  BY DEF NoTimers, Timers, NotSet
<1>4. CASE CheckReplicationHealth /\ r \in registered
  <2>1. /\ timers'[r] = ClassifyReplica(info[r], timers[r]).timers
        /\ class'[r] = ClassifyReplica(info[r], timers[r]).class
        /\ sinceStreaming'[r] = IF IsEmpty(info[r]) THEN sinceStreaming[r] ELSE 0
        /\ sinceCaughtUp'[r] = IF HasInvalid(info[r]) \/ IsBehind(info[r])
                               THEN sinceCaughtUp[r] ELSE 0
    BY <1>4 DEF CheckReplicationHealth
  <2> QED
    BY <1>1, <1>2, <2>1, VerdictBound
<1>5. CASE CheckReplicationHealth /\ r \notin registered
  <2>1. /\ timers'[r] = NoTimers /\ class'[r] = "none"
        /\ sinceStreaming'[r] = 0 /\ sinceCaughtUp'[r] = 0
    BY <1>5 DEF CheckReplicationHealth, PruneStates
  <2> QED
    BY <1>3, <2>1
<1>6. CASE Restart \/ DeleteClusterState
  <2>1. /\ timers'[r] = NoTimers /\ class'[r] = "none"
        /\ sinceStreaming'[r] = sinceStreaming[r]
        /\ sinceCaughtUp'[r] = sinceCaughtUp[r]
    BY <1>6 DEF Restart, DeleteClusterState
  <2> QED
    BY <1>1, <1>3, <2>1, AgeFacts
<1>7. CASE Tick
  <2>1. /\ timers'[r].channelDown = Older(timers[r].channelDown)
        /\ timers'[r].behind = Older(timers[r].behind)
        /\ sinceStreaming'[r] = Older(sinceStreaming[r])
        /\ sinceCaughtUp'[r] = Older(sinceCaughtUp[r])
        /\ class'[r] = class[r]
    BY <1>7 DEF Tick, Timers
  <2>2. /\ Older(timers[r].channelDown) <= Older(sinceStreaming[r])
        /\ Older(timers[r].behind) <= Older(sinceCaughtUp[r])
        /\ Older(sinceStreaming[r]) >= sinceStreaming[r]
        /\ Older(sinceCaughtUp[r]) >= sinceCaughtUp[r]
        /\ Older(sinceStreaming[r]) \in Int /\ Older(sinceCaughtUp[r]) \in Int
    <3>1. timers[r].channelDown \in Age /\ timers[r].behind \in Age
      BY <1>1
    <3>2. /\ Older(timers[r].channelDown) <= Older(sinceStreaming[r])
          /\ Older(sinceStreaming[r]) >= sinceStreaming[r]
          /\ Older(sinceStreaming[r]) \in Ages
      BY <1>1, <1>2, <3>1, OlderFacts
    <3>3. /\ Older(timers[r].behind) <= Older(sinceCaughtUp[r])
          /\ Older(sinceCaughtUp[r]) >= sinceCaughtUp[r]
          /\ Older(sinceCaughtUp[r]) \in Ages
      BY <1>1, <1>2, <3>1, OlderFacts
    <3> QED
      BY <3>2, <3>3, AgeFacts
  <2>3. \A a, b \in Int : a > GracePeriod /\ b >= a => b > GracePeriod
    BY TimesAssumption
  <2>4. \A a, b \in Int : a > BehindThreshold /\ b >= a => b > BehindThreshold
    BY TimesAssumption
  <2>5. sinceStreaming[r] \in Int /\ sinceCaughtUp[r] \in Int
    BY <1>1, AgeFacts
  <2> QED
    BY <1>2, <2>1, <2>2, <2>3, <2>4, <2>5
<1>8. CASE UNCHANGED <<timers, class, sinceStreaming, sinceCaughtUp>>
  BY <1>2, <1>8
<1> QED
  BY <1>4, <1>5, <1>6, <1>7, <1>8 DEF Next, ChangeRegistration, Report, vars

\* No false alarm, for every grace period: DataChannelDown is reported only
\* after checks over more than the grace period all found no data_info.
THEOREM ChannelAlarmIsSound == Spec => []NoFalseChannelAlarm
<1>1. Init => Safe
  BY DEF Init, Safe, TimersInv, NoFalseChannelAlarm, NoFalseLagAlarm, NoTimers,
     Timers, NotSet
<1>2. TypeOK /\ Safe /\ [Next]_vars => Safe'
  BY SafeNext
<1>3. Safe => NoFalseChannelAlarm
  BY DEF Safe
<1> QED
  BY <1>1, <1>2, <1>3, TypeCorrectness, PTL DEF Spec

\* No false alarm, for every threshold: BehindTooLong is reported only after
\* checks over more than the threshold each of which saw the replica with lag
\* or with an invalid database.
THEOREM LagAlarmIsSound == Spec => []NoFalseLagAlarm
<1>1. Init => Safe
  BY DEF Init, Safe, TimersInv, NoFalseChannelAlarm, NoFalseLagAlarm, NoTimers,
     Timers, NotSet
<1>2. TypeOK /\ Safe /\ [Next]_vars => Safe'
  BY SafeNext
<1>3. Safe => NoFalseLagAlarm
  BY DEF Safe
<1> QED
  BY <1>1, <1>2, <1>3, TypeCorrectness, PTL DEF Spec

-----------------------------------------------------------------------------
(* The loops over the databases.                                           *)

DBInfo == [status : Statuses, lag : Lags]

ScanAccs == [worst : Classes, anyBehind : BOOLEAN, since : Age]

\* An order that Go may range in visits every database.
LEMMA OrderVisitsAll ==
    ASSUME NEW D, IsFiniteSet(D), NEW order \in SetToSeqs(D)
    PROVE  /\ Cardinality(D) \in Nat
           /\ Len(order) = Cardinality(D)
           /\ order \in [1 .. Len(order) -> D]
           /\ \A d \in D : \E k \in 1 .. Len(order) : order[k] = d
<1> DEFINE n == Cardinality(D)
<1>1. n \in Nat
  BY FS_CardinalityType
<1>2. /\ order \in [1 .. n -> D]
      /\ \A i, j \in 1 .. n : i # j => order[i] # order[j]
  BY DEF SetToSeqs
<1>3. Len(order) = n
  BY <1>1, <1>2
<1>4. order \in Injection(1 .. n, D)
  BY <1>2 DEF Injection, IsInjective
<1>5. IsFiniteSet(1 .. n) /\ Cardinality(1 .. n) = n
  BY <1>1, FS_Interval
<1>6. order \in Surjection(1 .. n, D)
  BY <1>4, <1>5, FS_Injection
<1>7. \A d \in D : \E k \in 1 .. n : order[k] = d
  BY <1>6 DEF Surjection
<1> QED
  BY <1>1, <1>2, <1>3, <1>7

\* The databases of a replica are finitely many.
LEMMA InfoType ==
    ASSUME NEW i \in DataInfos
    PROVE  IsFiniteSet(DOMAIN i) /\ i \in [DOMAIN i -> DBInfo]
<1>1. PICK D \in SUBSET Databases : i \in [D -> DBInfo]
  BY DEF DataInfos, DBInfo
<1>2. IsFiniteSet(D)
  BY FS_Subset, HealthAssumption
<1> QED
  BY <1>1, <1>2

\* One iteration keeps the loop's variables in their types.
LEMMA ScanDatabaseType ==
    ASSUME NEW acc \in ScanAccs, NEW db \in DBInfo
    PROVE  ScanDatabase(acc, db) \in ScanAccs
BY AgeFacts, TimesAssumption
   DEF ScanAccs, ScanDatabase, Started, NotSet, Classes, Age, Ages

\* The variables of classifyReplica's loop from iteration to iteration.
LEMMA ScanStatesFacts ==
    ASSUME NEW D, NEW i \in [D -> DBInfo], NEW n \in Nat, NEW order \in [1 .. n -> D],
           Len(order) = n, NEW t \in [behind : Age, channelDown : Age],
           NEW g, g = ScanStates(i, order, t)
    PROVE  /\ g[0] = [worst |-> "Healthy", anyBehind |-> FALSE, since |-> t.behind]
           /\ \A k \in 1 .. n : g[k] = ScanDatabase(g[k - 1], i[order[k]])
<1> DEFINE Equation(f) == f = [k \in 0 .. n |->
              IF k = 0
              THEN [worst |-> "Healthy", anyBehind |-> FALSE, since |-> t.behind]
              ELSE ScanDatabase(f[k - 1], i[order[k]])]
<1>1. PICK s0 : s0 = [worst |-> "Healthy", anyBehind |-> FALSE, since |-> t.behind]
  OBVIOUS
<1>2. s0 \in ScanAccs
  BY <1>1 DEF ScanAccs, Classes
<1>3. \A k \in 1 .. n : i[order[k]] \in DBInfo
  OBVIOUS
<1>4. PICK F : F = [k \in 1 .. n |->
                      [acc \in ScanAccs |-> ScanDatabase(acc, i[order[k]])]]
  OBVIOUS
<1>5. F \in [1 .. n -> [ScanAccs -> ScanAccs]]
  BY <1>3, <1>4, ScanDatabaseType
<1>6. PICK f : IsRun(f, n, ScanAccs, s0, F)
  BY <1>2, <1>5, LoopHasRun
<1>7. Equation(f)
  <2>1. \A k \in 1 .. n : f[k - 1] \in ScanAccs
    BY <1>6 DEF IsRun
  <2>2. \A k \in 1 .. n : f[k] = ScanDatabase(f[k - 1], i[order[k]])
    BY <1>4, <1>6, <2>1 DEF IsRun
  <2> QED
    BY <1>1, <1>6, <2>2 DEF IsRun
<1>8. Equation(g)
  <2>1. g = CHOOSE h : Equation(h)
    BY DEF ScanStates
  <2> HIDE DEF Equation
  <2> QED
    BY <1>7, <2>1
<1>9. ASSUME NEW k \in 1 .. n PROVE g[k] = ScanDatabase(g[k - 1], i[order[k]])
  <2>1. k \in 0 .. n /\ k # 0
    OBVIOUS
  <2> QED
    BY <1>8, <2>1, Zenon
<1>10. g[0] = [worst |-> "Healthy", anyBehind |-> FALSE, since |-> t.behind]
  BY <1>8
<1> QED
  BY <1>9, <1>10

\* What the loop knows after it has seen some databases: b, one of them is
\* behind; u, one of them has an unknown status.
ScanResult(b, u, t) ==
    IF b /\ Started(t.behind) > BehindThreshold
    THEN [worst |-> "BehindTooLong", anyBehind |-> TRUE, since |-> Started(t.behind)]
    ELSE [worst |-> IF u THEN "UnknownStatus" ELSE IF b THEN "Behind" ELSE "Healthy",
          anyBehind |-> b,
          since |-> IF b THEN Started(t.behind) ELSE t.behind]

\* One iteration adds what it sees of one database, in whatever state the
\* earlier ones left the loop.
LEMMA ScanStep ==
    ASSUME NEW b \in BOOLEAN, NEW u \in BOOLEAN, NEW db \in DBInfo,
           NEW t \in [behind : Age, channelDown : Age]
    PROVE  ScanDatabase(ScanResult(b, u, t), db)
             = ScanResult(b \/ db.lag > 0, u \/ db.status \notin GoodStatuses, t)
<1>1. PICK s : s = Started(t.behind)
  OBVIOUS
<1>2. s \in Nat /\ Started(s) = s /\ BehindThreshold \in Nat
  BY <1>1, AgeFacts, TimesAssumption DEF Started, NotSet
<1>3. CASE b /\ s > BehindThreshold
  BY <1>1, <1>3 DEF ScanDatabase, ScanResult
<1>4. CASE b /\ ~(s > BehindThreshold)
  BY <1>1, <1>2, <1>4 DEF ScanDatabase, ScanResult
<1>5. CASE ~b /\ db.lag > 0
  <2>1. CASE s > BehindThreshold
    <3>1. PICK w \in {"UnknownStatus", "Healthy"} :
            ScanResult(b, u, t) = [worst |-> w, anyBehind |-> FALSE, since |-> t.behind]
      BY <1>5 DEF ScanResult
    <3>2. ScanResult(TRUE, u \/ db.status \notin GoodStatuses, t)
            = [worst |-> "BehindTooLong", anyBehind |-> TRUE, since |-> s]
      BY <1>1, <2>1 DEF ScanResult
    <3>3. (b \/ db.lag > 0) = TRUE
      BY <1>5
    <3>4. ~(s <= BehindThreshold)
      BY <1>2, <2>1
    <3>5. ScanDatabase([worst |-> w, anyBehind |-> FALSE, since |-> t.behind], db)
            = [worst |-> "BehindTooLong", anyBehind |-> TRUE, since |-> s]
      BY <1>1, <1>5, <2>1, <3>4 DEF ScanDatabase
    <3> QED
      BY <3>1, <3>2, <3>3, <3>5
  <2>2. CASE ~(s > BehindThreshold)
    BY <1>1, <1>2, <1>5, <2>2 DEF ScanDatabase, ScanResult
  <2> QED
    BY <2>1, <2>2
<1>6. CASE ~b /\ ~(db.lag > 0)
  BY <1>1, <1>2, <1>6 DEF ScanDatabase, ScanResult
<1> QED
  BY <1>3, <1>4, <1>5, <1>6

\* The loop ends in the same state in every order.
LEMMA ScanEnd ==
    ASSUME NEW i \in DataInfos, NEW order \in SetToSeqs(DOMAIN i),
           NEW t \in [behind : Age, channelDown : Age]
    PROVE  ScanStates(i, order, t)[Len(order)]
             = ScanResult(IsBehind(i), HasUnknown(i), t)
<1>1. PICK D, n : D = DOMAIN i /\ n = Len(order)
  OBVIOUS
<1>2. i \in [D -> DBInfo] /\ IsFiniteSet(D)
  BY <1>1, InfoType
<1>3. /\ n \in Nat /\ order \in [1 .. n -> D]
      /\ \A d \in D : \E k \in 1 .. n : order[k] = d
  BY <1>1, <1>2, OrderVisitsAll
<1>4. PICK f : f = ScanStates(i, order, t)
  OBVIOUS
<1>5. /\ f[0] = [worst |-> "Healthy", anyBehind |-> FALSE, since |-> t.behind]
      /\ \A k \in 1 .. n : f[k] = ScanDatabase(f[k - 1], i[order[k]])
  BY <1>1, <1>2, <1>3, <1>4, ScanStatesFacts
<1>6. PICK behind : behind = [k \in 0 .. n |-> \E j \in 1 .. k : i[order[j]].lag > 0]
  OBVIOUS
<1>7. PICK unknown : unknown = [k \in 0 .. n |->
                        \E j \in 1 .. k : i[order[j]].status \notin GoodStatuses]
  OBVIOUS
<1>8. \A k \in 0 .. n : behind[k] \in BOOLEAN /\ unknown[k] \in BOOLEAN
  BY <1>6, <1>7
<1>9. PICK T : T = {k \in 0 .. n : f[k] = ScanResult(behind[k], unknown[k], t)}
  OBVIOUS
<1>10. 0 \in T
  <2>1. behind[0] = FALSE /\ unknown[0] = FALSE
    BY <1>3, <1>6, <1>7
  <2>2. f[0] = ScanResult(FALSE, FALSE, t)
    BY <1>5 DEF ScanResult
  <2>3. f[0] = ScanResult(behind[0], unknown[0], t)
    BY <2>1, <2>2, Zenon
  <2> QED
    BY <1>3, <1>9, <2>3
<1>11. ASSUME NEW k \in 1 .. n, k - 1 \in T PROVE k \in T
  <2>1. PICK db : db = i[order[k]]
    OBVIOUS
  <2>2. db \in DBInfo
    BY <1>2, <1>3, <2>1
  <2>3. k \in 0 .. n /\ k - 1 \in 0 .. n /\ 1 .. k = (1 .. k - 1) \cup {k}
    BY <1>3
  <2>4. f[k] = ScanDatabase(ScanResult(behind[k - 1], unknown[k - 1], t), db)
    BY <1>5, <1>9, <1>11, <2>1
  <2>5. behind[k] = (behind[k - 1] \/ db.lag > 0)
    BY <1>6, <2>1, <2>3, Zenon
  <2>6. unknown[k] = (unknown[k - 1] \/ db.status \notin GoodStatuses)
    BY <1>7, <2>1, <2>3, Zenon
  <2>7. f[k] = ScanResult(behind[k], unknown[k], t)
    BY <1>8, <2>2, <2>3, <2>4, <2>5, <2>6, ScanStep
  <2> QED
    BY <1>9, <2>3, <2>7
<1>12. n \in T
  <2>1. \A k \in 1 .. n : k - 1 \in T => k \in T
    BY <1>11
  <2>2. \A k \in 0 .. n : k \in T
    BY <1>3, <1>10, <2>1, IntervalInduction
  <2> QED
    BY <1>3, <2>2
<1>13. behind[n] = IsBehind(i)
  BY <1>1, <1>3, <1>6 DEF IsBehind
<1>14. unknown[n] = HasUnknown(i)
  BY <1>1, <1>3, <1>7 DEF HasUnknown
<1> QED
  BY <1>1, <1>4, <1>9, <1>12, <1>13, <1>14

\* The verdict of the loop is that of the case distinction.
LEMMA ScanVerdict ==
    ASSUME NEW i \in DataInfos, NEW order \in SetToSeqs(DOMAIN i),
           NEW t \in [behind : Age, channelDown : Age], ~IsEmpty(i), ~HasInvalid(i)
    PROVE  ScanDatabases(i, order, t) = ClassifyReplica(i, t)
<1>1. PICK acc : acc = ScanStates(i, order, t)[Len(order)]
  OBVIOUS
<1>2. acc = ScanResult(IsBehind(i), HasUnknown(i), t)
  BY <1>1, ScanEnd
<1>3. ScanDatabases(i, order, t)
        = Verdict(acc.worst, Timers(IF acc.anyBehind THEN acc.since ELSE NotSet, NotSet))
  BY <1>1 DEF ScanDatabases
<1>4. Started(t.behind) \in Nat /\ BehindThreshold \in Nat
  BY AgeFacts, TimesAssumption DEF Started, NotSet
<1>5. CASE IsBehind(i)
  <2>1. ClassifyReplica(i, t) = BehindVerdict(i, t)
    BY <1>5 DEF ClassifyReplica
  <2>2. acc.anyBehind /\ acc.since = Started(t.behind)
    BY <1>2, <1>5 DEF ScanResult
  <2>3. CASE Started(t.behind) > BehindThreshold
    BY <1>2, <1>3, <1>4, <1>5, <2>1, <2>2, <2>3 DEF ScanResult, BehindVerdict
  <2>4. CASE ~(Started(t.behind) > BehindThreshold)
    BY <1>2, <1>3, <1>4, <1>5, <2>1, <2>2, <2>4 DEF ScanResult, BehindVerdict
  <2> QED
    BY <2>3, <2>4
<1>6. CASE ~IsBehind(i)
  <2>1. ClassifyReplica(i, t) = CaughtUpVerdict(i, t)
    BY <1>6 DEF ClassifyReplica
  <2> QED
    BY <1>2, <1>3, <1>6, <2>1 DEF ScanResult, CaughtUpVerdict, NoTimers
<1> QED
  BY <1>5, <1>6

\* For every set of databases and every threshold, the order in which Go
\* ranges over data_info changes neither the verdict nor the timers.
THEOREM LoopIsDeterministic == Spec => []LoopOrderDoesNotMatter
<1>1. TypeOK => LoopOrderDoesNotMatter
  <2> SUFFICES ASSUME TypeOK, NEW r \in Replicas,
                      ~IsEmpty(info[r]), ~HasInvalid(info[r]),
                      NEW order \in SetToSeqs(DOMAIN info[r])
               PROVE  ScanDatabases(info[r], order, timers[r])
                        = ClassifyReplica(info[r], timers[r])
    BY DEF LoopOrderDoesNotMatter
  <2>1. info[r] \in DataInfos /\ timers[r] \in [behind : Age, channelDown : Age]
    BY DEF TypeOK, Age
  <2> QED
    BY <2>1, ScanVerdict
<1> QED
  BY <1>1, TypeCorrectness, PTL

SummaryAccs == [behind : Int, status : GoodStatuses \cup {"invalid"}, first : BOOLEAN]

\* One iteration of summarizeDataInfo: the lag stays positive and the status
\* invalid once a database made it so.
LEMMA SummaryStep ==
    ASSUME NEW acc \in SummaryAccs, NEW db \in DBInfo, acc.first => acc.behind = 0,
           NEW next, next = SummarizeDatabase(acc, db)
    PROVE  /\ next \in SummaryAccs
           /\ ~next.first
           /\ next.behind > 0 <=> acc.behind > 0 \/ db.lag > 0
           /\ next.status = "invalid" <=>
                 acc.status = "invalid" \/ db.status \notin GoodStatuses
<1>1. db.lag \in Int /\ acc.behind \in Int
  BY HealthAssumption DEF DBInfo, SummaryAccs
<1>2. db.status \in Statuses /\ acc.status \in GoodStatuses \cup {"invalid"}
  BY DEF DBInfo, SummaryAccs
<1>3. DBStatus(db.status) \in GoodStatuses \cup {"invalid"}
  BY <1>2 DEF DBStatus, Statuses, GoodStatuses
<1>4. DBStatus(db.status) = "invalid" <=> db.status \notin GoodStatuses
  BY <1>2 DEF DBStatus, Statuses, GoodStatuses
<1>5. PICK p : p = DBStatus(db.status)
  OBVIOUS
<1>6. /\ next.behind = IF acc.first \/ db.lag > acc.behind THEN db.lag ELSE acc.behind
      /\ next.status = IF StatusRank[p] > StatusRank[acc.status]
                       THEN p ELSE acc.status
      /\ next.first = FALSE
      /\ next = [behind |-> next.behind, status |-> next.status, first |-> FALSE]
  BY <1>5 DEF SummarizeDatabase
<1>7. next.behind \in Int /\ (next.behind > 0 <=> acc.behind > 0 \/ db.lag > 0)
  BY <1>1, <1>6
<1>8. next.status = "invalid" <=> acc.status = "invalid" \/ p = "invalid"
  <2>1. p \in GoodStatuses \cup {"invalid"}
    BY <1>3, <1>5
  <2> QED
    BY <1>2, <1>6, <2>1 DEF StatusRank, GoodStatuses
<1>9. next.status \in GoodStatuses \cup {"invalid"}
  BY <1>2, <1>3, <1>5, <1>6
<1> QED
  BY <1>4, <1>5, <1>6, <1>7, <1>8, <1>9 DEF SummaryAccs

\* The variables of summarizeDataInfo's loop from iteration to iteration.
LEMMA SummaryStatesFacts ==
    ASSUME NEW D, NEW i \in [D -> DBInfo], NEW n \in Nat, NEW order \in [1 .. n -> D],
           Len(order) = n, NEW g, g = SummaryStates(i, order)
    PROVE  /\ g[0] = [behind |-> 0, first |-> TRUE,
                      status |-> IF IsEmpty(i) THEN "invalid" ELSE "ready"]
           /\ \A k \in 1 .. n : g[k] = SummarizeDatabase(g[k - 1], i[order[k]])
<1> DEFINE Equation(f) == f = [k \in 0 .. n |->
              IF k = 0
              THEN [behind |-> 0, first |-> TRUE,
                    status |-> IF IsEmpty(i) THEN "invalid" ELSE "ready"]
              ELSE SummarizeDatabase(f[k - 1], i[order[k]])]
<1>1. PICK s0 : s0 = [behind |-> 0, first |-> TRUE,
                      status |-> IF IsEmpty(i) THEN "invalid" ELSE "ready"]
  OBVIOUS
<1>2. s0 \in SummaryAccs
  BY <1>1 DEF SummaryAccs, GoodStatuses
<1>3. \A k \in 1 .. n : i[order[k]] \in DBInfo
  OBVIOUS
<1>4. \A acc \in SummaryAccs, db \in DBInfo : SummarizeDatabase(acc, db) \in SummaryAccs
  <2> SUFFICES ASSUME NEW acc \in SummaryAccs, NEW db \in DBInfo
               PROVE  SummarizeDatabase(acc, db) \in SummaryAccs
    OBVIOUS
  <2>1. db.lag \in Int /\ acc.behind \in Int
    BY HealthAssumption DEF DBInfo, SummaryAccs
  <2>2. DBStatus(db.status) \in GoodStatuses \cup {"invalid"}
    BY DEF DBInfo, DBStatus, Statuses, GoodStatuses
  <2> QED
    BY <2>1, <2>2 DEF SummarizeDatabase, SummaryAccs
<1>5. PICK F : F = [k \in 1 .. n |->
                      [acc \in SummaryAccs |-> SummarizeDatabase(acc, i[order[k]])]]
  OBVIOUS
<1>6. F \in [1 .. n -> [SummaryAccs -> SummaryAccs]]
  BY <1>3, <1>4, <1>5
<1>7. PICK f : IsRun(f, n, SummaryAccs, s0, F)
  BY <1>2, <1>6, LoopHasRun
<1>8. Equation(f)
  <2>1. \A k \in 1 .. n : f[k - 1] \in SummaryAccs
    BY <1>7 DEF IsRun
  <2>2. \A k \in 1 .. n : f[k] = SummarizeDatabase(f[k - 1], i[order[k]])
    BY <1>5, <1>7, <2>1 DEF IsRun
  <2> QED
    BY <1>1, <1>7, <2>2 DEF IsRun
<1>9. Equation(g)
  <2>1. g = CHOOSE h : Equation(h)
    BY DEF SummaryStates
  <2> HIDE DEF Equation
  <2> QED
    BY <1>8, <2>1
<1>10. ASSUME NEW k \in 1 .. n PROVE g[k] = SummarizeDatabase(g[k - 1], i[order[k]])
  <2>1. k \in 0 .. n /\ k # 0
    OBVIOUS
  <2> QED
    BY <1>9, <2>1, Zenon
<1>11. g[0] = s0
  BY <1>1, <1>9
<1> QED
  BY <1>1, <1>10, <1>11

\* The summary's lag is positive if and only if a database lags, its status
\* invalid if and only if there is no database or one without a good status,
\* in every order.
LEMMA SummaryEnd ==
    ASSUME NEW i \in DataInfos, NEW order \in SetToSeqs(DOMAIN i)
    PROVE  /\ SummarizeDataInfo(i, order).behind > 0 <=> IsBehind(i)
           /\ SummarizeDataInfo(i, order).status = "invalid"
                <=> IsEmpty(i) \/ HasUnknown(i)
           /\ SummarizeDataInfo(i, order) \in SummaryAccs
<1>1. PICK D, n : D = DOMAIN i /\ n = Len(order)
  OBVIOUS
<1>2. i \in [D -> DBInfo] /\ IsFiniteSet(D)
  BY <1>1, InfoType
<1>3. /\ n \in Nat /\ order \in [1 .. n -> D]
      /\ \A d \in D : \E k \in 1 .. n : order[k] = d
  BY <1>1, <1>2, OrderVisitsAll
<1>4. PICK f : f = SummaryStates(i, order)
  OBVIOUS
<1>5. /\ f[0] = [behind |-> 0, first |-> TRUE,
                 status |-> IF IsEmpty(i) THEN "invalid" ELSE "ready"]
      /\ \A k \in 1 .. n : f[k] = SummarizeDatabase(f[k - 1], i[order[k]])
  BY <1>1, <1>2, <1>3, <1>4, SummaryStatesFacts
<1> DEFINE Behind(k) == \E j \in 1 .. k : i[order[j]].lag > 0
           Unknown(k) == \E j \in 1 .. k : i[order[j]].status \notin GoodStatuses
           Inv(k) == /\ f[k] \in SummaryAccs
                     /\ f[k].first => f[k].behind = 0
                     /\ f[k].behind > 0 <=> Behind(k)
                     /\ f[k].status = "invalid" <=> IsEmpty(i) \/ Unknown(k)
<1>6. PICK T : T = {k \in 0 .. n : Inv(k)}
  OBVIOUS
<1>7. 0 \in T
  <2>1. ~Behind(0) /\ ~Unknown(0)
    OBVIOUS
  <2>2. /\ f[0] \in SummaryAccs /\ f[0].behind = 0
        /\ f[0].status = "invalid" <=> IsEmpty(i)
    BY <1>5 DEF SummaryAccs, GoodStatuses
  <2>3. Inv(0)
    BY <2>1, <2>2
  <2> QED
    BY <1>3, <1>6, <2>3
<1>8. ASSUME NEW k \in 1 .. n, k - 1 \in T PROVE k \in T
  <2>1. PICK db : db = i[order[k]]
    OBVIOUS
  <2>2. db \in DBInfo
    BY <1>2, <1>3, <2>1
  <2>3. k \in 0 .. n /\ k - 1 \in 0 .. n /\ 1 .. k = (1 .. k - 1) \cup {k}
    BY <1>3
  <2>4. Inv(k - 1)
    BY <1>6, <1>8
  <2>5. /\ Behind(k) <=> Behind(k - 1) \/ db.lag > 0
        /\ Unknown(k) <=> Unknown(k - 1) \/ db.status \notin GoodStatuses
    BY <2>1, <2>3, Zenon
  <2>6. f[k] = SummarizeDatabase(f[k - 1], db)
    BY <1>5, <2>1
  <2>7. /\ f[k] \in SummaryAccs
        /\ ~f[k].first
        /\ f[k].behind > 0 <=> f[k - 1].behind > 0 \/ db.lag > 0
        /\ f[k].status = "invalid" <=>
              f[k - 1].status = "invalid" \/ db.status \notin GoodStatuses
    BY <2>2, <2>4, <2>6, SummaryStep
  <2>8. Inv(k)
    BY <2>4, <2>5, <2>7
  <2> QED
    BY <1>6, <2>3, <2>8
<1>9. Inv(n)
  <2>1. \A k \in 1 .. n : k - 1 \in T => k \in T
    BY <1>8
  <2>2. \A k \in 0 .. n : k \in T
    BY <1>3, <1>7, <2>1, IntervalInduction
  <2> QED
    BY <1>3, <1>6, <2>2
<1>10. (Behind(n) <=> IsBehind(i)) /\ (Unknown(n) <=> HasUnknown(i))
  BY <1>1, <1>3 DEF IsBehind, HasUnknown
<1>11. SummarizeDataInfo(i, order) = f[n]
  BY <1>1, <1>4 DEF SummarizeDataInfo
<1> QED
  BY <1>9, <1>10, <1>11

\* For every set of databases and every order of the client's loop, the
\* snapshot gauges of a replica agree with the verdict on it.
THEOREM GaugesAgree == Spec => []GaugesAgreeWithVerdict
<1>1. TypeOK => GaugesAgreeWithVerdict
  <2> SUFFICES ASSUME TypeOK, NEW r \in Replicas,
                      NEW order \in SetToSeqs(DOMAIN info[r]),
                      NEW summary, summary = SummarizeDataInfo(info[r], order),
                      NEW verdict, verdict = ClassifyReplica(info[r], timers[r])
               PROVE  /\ IsStreaming(summary) => ChannelUp(verdict.class)
                      /\ summary.behind > 0 <=> IsBehind(info[r])
                      /\ verdict.class \in {"Healthy", "Behind"}
                           => summary.status # "invalid"
    BY DEF GaugesAgreeWithVerdict
  <2>1. PICK i, t : i = info[r] /\ t = timers[r]
    OBVIOUS
  <2>2. i \in DataInfos
    BY <2>1 DEF TypeOK
  <2>3. /\ summary.behind > 0 <=> IsBehind(i)
        /\ summary.status = "invalid" <=> IsEmpty(i) \/ HasUnknown(i)
    BY <2>1, <2>2, SummaryEnd
  <2>4. HasInvalid(i) => HasUnknown(i)
    BY DEF HasInvalid, HasUnknown, GoodStatuses
  <2>5. ~IsEmpty(i) /\ ~HasUnknown(i)
          => verdict.class \in {"Healthy", "Behind", "BehindTooLong"}
    <3> SUFFICES ASSUME ~IsEmpty(i), ~HasUnknown(i)
                 PROVE  verdict.class \in {"Healthy", "Behind", "BehindTooLong"}
      OBVIOUS
    <3>1. CASE IsBehind(i)
      BY <2>1, <2>4, <3>1 DEF ClassifyReplica, BehindVerdict, Verdict
    <3>2. CASE ~IsBehind(i)
      BY <2>1, <2>4, <3>2 DEF ClassifyReplica, CaughtUpVerdict, Verdict
    <3> QED
      BY <3>1, <3>2
  <2>6. IsEmpty(i) \/ HasUnknown(i) => verdict.class \notin {"Healthy", "Behind"}
    <3>1. CASE IsEmpty(i)
      BY <2>1, <3>1 DEF ClassifyReplica, EmptyVerdict, Verdict
    <3>2. CASE ~IsEmpty(i) /\ HasInvalid(i)
      BY <2>1, <3>2 DEF ClassifyReplica, Verdict
    <3>3. CASE ~IsEmpty(i) /\ ~HasInvalid(i) /\ HasUnknown(i) /\ IsBehind(i)
      <4>1. Started(t.behind) \in Nat /\ BehindThreshold \in Nat
        BY <2>1, AgeFacts, TimesAssumption DEF TypeOK, Started, NotSet, Age
      <4>2. verdict = BehindVerdict(i, t)
        BY <2>1, <3>3 DEF ClassifyReplica
      <4> QED
        BY <3>3, <4>1, <4>2 DEF BehindVerdict, Verdict
    <3>4. CASE ~IsEmpty(i) /\ ~HasInvalid(i) /\ HasUnknown(i) /\ ~IsBehind(i)
      BY <2>1, <3>4 DEF ClassifyReplica, CaughtUpVerdict, Verdict
    <3> QED
      BY <3>1, <3>2, <3>3, <3>4
  <2> QED
    BY <2>1, <2>3, <2>5, <2>6 DEF IsStreaming, ChannelUp
<1> QED
  BY <1>1, TypeCorrectness, PTL

==============================================================================
