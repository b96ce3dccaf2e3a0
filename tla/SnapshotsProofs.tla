--------------------------- MODULE SnapshotsProofs ---------------------------
(***************************************************************************)
(* Proofs about Snapshots, for every history limit, every number of Jobs,  *)
(* edits and faults and all values of the spec.                            *)
(***************************************************************************)
EXTENDS Snapshots, NumberLemmas

Bit(a) == IF a THEN 1 ELSE 0

Change(a, b) == IF a = b THEN 0 ELSE 1

\* An edit of spec.snapshot.enabled travels from the object through the cache
\* and the reconcile's copy to the CronJob.  Every CronJob was created and
\* deleted by an edit that arrived, and every change on the way is an edit
\* that has not arrived yet.
UidBound ==
    2 * uid - Bit(cron.exists)
        + Change(cron.exists, local.spec.enabled)
        + Change(local.spec.enabled, seen.spec.enabled)
        + Change(seen.spec.enabled, spec.enabled) <= edits + 1

\* What is known of a Job: it has a CronJob for an owner, the Jobs before it
\* were started, and it has a completion time, one of those given out so far,
\* while it is complete.
JobRecordInv ==
    \A j \in Jobs :
        /\ job[j].state = "none" => job[j] = NoJob
        /\ job[j].state # "none" => job[j].owner \in 1 .. uid
        /\ job[j].state # "none" => \A i \in 1 .. j - 1 : job[i].state # "none"
        /\ job[j].done <= Ended
        /\ job[j].state \in {"active", "failed"} => job[j].done = 0
        /\ job[j].state = "complete" => job[j].done # 0

\* The controller's list of the Jobs is one that was, and a time that is
\* published, cached or about to be published is known from it.
TimesInv ==
    /\ cron.exists => uid >= 1
    /\ EndedIn(jobSeen) <= Ended
    /\ \A j \in Jobs : jobSeen[j].done <= EndedIn(jobSeen)
    /\ \A time \in {last, seen.last, local.last} : time <= EndedIn(jobSeen)

\* As long as the first CronJob is there, the list has the newest success it
\* may know of, and a status to be published is not behind the published one.
PublishInv ==
    uid = 1 /\ cron.exists =>
        /\ EndedIn(jobSeen) \in Completions \cup {0}
        /\ pc = "status" => local.last >= last

-----------------------------------------------------------------------------
(* The completion times that were given out.                               *)

LEMMA EndedType ==
    ASSUME NEW list
    PROVE  /\ EndedIn(list) \in 0 .. MaxJobs
           /\ \A j \in Jobs : list[j].done = 0 => EndedIn(list) + 1 \in 0 .. MaxJobs
<1>1. PICK S : S = {j \in Jobs : list[j].done # 0}
  OBVIOUS
<1>2. IsFiniteSet(Jobs) /\ Cardinality(Jobs) = MaxJobs
  BY FS_Interval, SnapshotAssumption DEF Jobs
<1>3. S \in SUBSET Jobs
  BY <1>1
<1>4. /\ IsFiniteSet(S) /\ Cardinality(S) <= Cardinality(Jobs)
      /\ Cardinality(Jobs) = Cardinality(S) => Jobs = S
  BY <1>2, <1>3, FS_Subset
<1>5. Cardinality(S) \in Nat
  BY <1>4, FS_CardinalityType
<1>6. EndedIn(list) = Cardinality(S)
  BY <1>1 DEF EndedIn
<1>7. \A j \in Jobs : list[j].done = 0 => Cardinality(S) # MaxJobs
  BY <1>1, <1>2, <1>4
<1> QED
  BY <1>2, <1>4, <1>5, <1>6, <1>7, SnapshotAssumption

\* No step but the completion of a Job gives out a time.
LEMMA EndedSame ==
    ASSUME \A j \in Jobs : job'[j].done # 0 <=> job[j].done # 0
    PROVE  Ended' = Ended
<1>1. {j \in Jobs : job'[j].done # 0} = {j \in Jobs : job[j].done # 0}
  OBVIOUS
<1> QED
  BY <1>1 DEF Ended, EndedIn, Jobs

\* The completion of a Job gives out the next one.
LEMMA EndedNext ==
    ASSUME NEW j \in Jobs, job[j].done = 0, job'[j].done # 0,
           \A i \in Jobs : i # j => job'[i].done = job[i].done
    PROVE  Ended' = Ended + 1
<1>1. PICK S : S = {i \in Jobs : job[i].done # 0}
  OBVIOUS
<1>2. {i \in Jobs : job'[i].done # 0} = S \cup {j}
  BY <1>1
<1>3. IsFiniteSet(Jobs)
  BY FS_Interval, SnapshotAssumption DEF Jobs
<1>4. IsFiniteSet(S)
  BY <1>1, <1>3, FS_Subset
<1>5. j \notin S
  BY <1>1
<1>6. Cardinality(S \cup {j}) = Cardinality(S) + 1
  BY <1>4, <1>5, FS_AddElement
<1> QED
  BY <1>1, <1>2, <1>6 DEF Ended, EndedIn, Jobs

\* A completed Job in the controller's list has a time that the list knows
\* of; the latest of them is what updateSnapshotStatus takes.
LEMMA LatestSuccessFacts ==
    ASSUME TypeOK, TimesInv
    PROVE  /\ LatestSuccess \in Times /\ LatestSuccess <= EndedIn(jobSeen)
           /\ \A c \in Completions : LatestSuccess >= c
<1>0. PICK known : known = EndedIn(jobSeen)
  OBVIOUS
<1>1. known \in Nat /\ known <= MaxJobs
  BY <1>0, EndedType, SnapshotAssumption
<1>2. Completions \in SUBSET (0 .. known)
  <2> SUFFICES ASSUME NEW j \in Jobs, jobSeen[j].state = "complete"
               PROVE  jobSeen[j].done \in 0 .. known
    BY DEF Completions
  <2>1. jobSeen[j].done \in 0 .. MaxJobs /\ jobSeen[j].done <= known
    BY <1>0 DEF TypeOK, JobRecords, Times, TimesInv
  <2> QED
    BY <1>1, <2>1, SnapshotAssumption
<1>3. CASE Completions = {}
  <2>1. LatestSuccess = local.last /\ local.last <= known
    BY <1>0, <1>3 DEF LatestSuccess, TimesInv
  <2>2. local.last \in 0 .. MaxJobs
    BY DEF TypeOK, Objects, Times
  <2> QED
    BY <1>0, <1>3, <2>1, <2>2 DEF Times
<1>4. CASE Completions # {}
  <2>1. LatestSuccess \in Completions /\ \A c \in Completions : c <= LatestSuccess
    BY <1>1, <1>2, <1>4, MaxIsGreatest DEF LatestSuccess
  <2> QED
    BY <1>0, <1>1, <1>2, <2>1, SnapshotAssumption DEF Times
<1> QED
  BY <1>3, <1>4

-----------------------------------------------------------------------------
(* Edits on their way to the CronJob.                                      *)

LEMMA ChangeFacts ==
    ASSUME NEW a \in BOOLEAN, NEW b \in BOOLEAN, NEW c \in BOOLEAN
    PROVE  /\ Change(a, b) \in 0 .. 1 /\ Bit(a) \in 0 .. 1
           /\ Change(a, a) = 0
           /\ Change(a, c) <= Change(a, b) + Change(b, c)
BY DEF Change, Bit

\* Whether snapshots are enabled, in the four places.
LEMMA EnabledType ==
    ASSUME TypeOK
    PROVE  /\ cron.exists \in BOOLEAN /\ local.spec.enabled \in BOOLEAN
           /\ seen.spec.enabled \in BOOLEAN /\ spec.enabled \in BOOLEAN
           /\ uid \in Nat /\ edits \in Nat
<1>1. cron \in CronJobs => cron.exists = TRUE
  BY DEF CronJobs
<1>2. cron = NoCron => cron.exists = FALSE
  BY DEF NoCron
<1>3. cron \in CronJobs \/ cron = NoCron
  BY DEF TypeOK
<1>4. cron.exists \in BOOLEAN
  BY <1>1, <1>2, <1>3
<1> QED
  BY <1>4, SnapshotAssumption DEF TypeOK, Objects, Specs

\* Every step keeps the bound on the CronJobs created.
LEMMA UidNext == TypeOK /\ UidBound /\ [Next]_vars => UidBound'
<1> SUFFICES ASSUME TypeOK, UidBound, [Next]_vars PROVE UidBound'
  OBVIOUS
<1> USE EnabledType
<1>1. CASE UNCHANGED <<cron, uid, local, seen, spec, edits>>
  BY <1>1 DEF UidBound
<1>2. CASE StartReconcile
  BY <1>2, ChangeFacts DEF StartReconcile, UidBound, objectVars, cacheVars, cronVars, budgets
<1>3. CASE SyncCluster
  BY <1>3, ChangeFacts DEF SyncCluster, UidBound, objectVars, reconcileVars, cronVars, budgets
<1>4. ASSUME NEW s \in Specs, EditSnapshot(s) PROVE UidBound'
  <2>1. s.enabled \in BOOLEAN
    BY DEF Specs
  <2> QED
    BY <1>4, <2>1, ChangeFacts DEF EditSnapshot, UidBound, cronVars
<1>5. CASE CreateSnapshotCronJob
  <2>1. CASE cron.exists
    BY <1>5, <2>1 DEF CreateSnapshotCronJob, UidBound, objectVars, cacheVars, cronVars, budgets
  <2>2. CASE ~cron.exists
    <3>1. /\ cron'.exists = TRUE /\ uid' = uid + 1 /\ local.spec.enabled = TRUE
          /\ UNCHANGED <<local, seen, spec, edits>>
      BY <1>5, <2>2 DEF CreateSnapshotCronJob, Stored, BuildSnapshotCronJob,
         objectVars, cacheVars, budgets
    <3>2. /\ Change(cron.exists, local.spec.enabled) = 1 /\ Bit(cron.exists) = 0
          /\ Change(cron'.exists, local'.spec.enabled) = 0 /\ Bit(cron'.exists) = 1
      BY <2>2, <3>1 DEF Change, Bit
    <3>3. 2 * (uid + 1) = 2 * uid + 2
      OBVIOUS
    <3> QED
      BY <3>1, <3>2, <3>3, ChangeFacts DEF UidBound
  <2> QED
    BY <2>1, <2>2
<1>6. CASE UpdateSnapshotCronJob
  <2>1. cron'.exists = cron.exists
    BY <1>6 DEF UpdateSnapshotCronJob, Stored, BuildSnapshotCronJob
  <2> QED
    BY <1>6, <2>1 DEF UpdateSnapshotCronJob, UidBound, objectVars, cacheVars, budgets
<1>7. CASE DeleteSnapshotCronJob
  <2>1. CASE cronSeen.exists
    <3>1. /\ cron'.exists = FALSE /\ local.spec.enabled = FALSE
          /\ UNCHANGED <<uid, local, seen, spec, edits>>
      BY <1>7, <2>1 DEF DeleteSnapshotCronJob, NoCron, objectVars, cacheVars, budgets
    <3>2. /\ Change(cron.exists, local.spec.enabled) = Bit(cron.exists)
          /\ Change(cron'.exists, local'.spec.enabled) = 0 /\ Bit(cron'.exists) = 0
      BY <3>1 DEF Change, Bit
    <3> QED
      BY <3>1, <3>2, ChangeFacts DEF UidBound
  <2>2. CASE ~cronSeen.exists
    BY <1>7, <2>2 DEF DeleteSnapshotCronJob, UidBound, objectVars, cacheVars, budgets
  <2> QED
    BY <2>1, <2>2
<1>8. CASE UpdateSnapshotStatus
  <2>1. local'.spec = local.spec
    BY <1>8 DEF UpdateSnapshotStatus, TypeOK, Objects
  <2> QED
    BY <1>8, <2>1 DEF UpdateSnapshotStatus, UidBound, objectVars, cacheVars, cronVars, budgets
<1>9. CASE KeepSnapshotCronJob \/ UpdateStatus \/ Abort \/ SyncCronJob \/ SyncJobs
  BY <1>1, <1>9 DEF KeepSnapshotCronJob, UpdateStatus, Abort, SyncCronJob, SyncJobs,
     objectVars, cacheVars, cronVars, reconcileVars, budgets
<1>10. ASSUME NEW j \in Jobs, \/ StartJob(j) \/ CompleteJob(j) \/ ExceedDeadline(j)
                              \/ RemoveJob(j)
       PROVE  UidBound'
  BY <1>1, <1>10 DEF StartJob, CompleteJob, ExceedDeadline, EndJob, RemoveJob,
     objectVars, cacheVars, cronVars, reconcileVars, budgets
<1>11. CASE UNCHANGED vars
  BY <1>1, <1>11 DEF vars, objectVars, cacheVars, cronVars, reconcileVars, budgets
<1> QED
  BY <1>2, <1>3, <1>4, <1>5, <1>6, <1>7, <1>8, <1>9, <1>10, <1>11
     DEF Next, ReconcileStep, Environment

-----------------------------------------------------------------------------
(* Types.                                                                  *)

\* A CronJob that is written is one.
LEMMA StoredType ==
    ASSUME NEW s \in Specs
    PROVE  Stored(BuildSnapshotCronJob(s)) \in CronJobs
BY DEF Specs, Stored, BuildSnapshotCronJob, SnapshotArgs, S3Env, CronJobs

\* Every step keeps the types.
LEMMA TypeNext ==
    TypeOK /\ UidBound /\ JobRecordInv /\ TimesInv /\ [Next]_vars => TypeOK'
<1> SUFFICES ASSUME TypeOK, UidBound, JobRecordInv, TimesInv, [Next]_vars
             PROVE  TypeOK'
  OBVIOUS
<1>1. CASE StartReconcile
  BY <1>1 DEF StartReconcile, TypeOK, objectVars, cacheVars, cronVars, budgets
<1>2. CASE CreateSnapshotCronJob
  <2>1. cron' \in CronJobs \cup {NoCron}
    BY <1>2, StoredType DEF CreateSnapshotCronJob, TypeOK, Objects, cronVars
  <2>2. uid' \in 0 .. MaxEdits + 1
    <3>1. CASE cron.exists
      BY <1>2, <3>1 DEF CreateSnapshotCronJob, TypeOK, cronVars
    <3>2. CASE ~cron.exists
      <4>1. Change(cron.exists, local.spec.enabled) = 1 /\ Bit(cron.exists) = 0
        BY <1>2, <3>2, EnabledType DEF CreateSnapshotCronJob, Change, Bit
      <4>2. 2 * uid <= edits /\ uid \in Nat /\ edits \in 0 .. MaxEdits
        BY <4>1, EnabledType, ChangeFacts DEF UidBound, TypeOK
      <4>3. uid' = uid + 1
        BY <1>2, <3>2 DEF CreateSnapshotCronJob
      <4> QED
        BY <4>2, <4>3, SnapshotAssumption
    <3> QED
      BY <3>1, <3>2
  <2> QED
    BY <1>2, <2>1, <2>2 DEF CreateSnapshotCronJob, TypeOK, objectVars, cacheVars, budgets
<1>3. CASE UpdateSnapshotCronJob
  <2>1. cron' \in CronJobs \cup {NoCron}
    BY <1>3, StoredType DEF UpdateSnapshotCronJob, TypeOK, Objects
  <2> QED
    BY <1>3, <2>1 DEF UpdateSnapshotCronJob, TypeOK, objectVars, cacheVars, budgets
<1>4. CASE KeepSnapshotCronJob
  BY <1>4 DEF KeepSnapshotCronJob, TypeOK, objectVars, cacheVars, cronVars, budgets
<1>5. CASE DeleteSnapshotCronJob
  BY <1>5 DEF DeleteSnapshotCronJob, TypeOK, objectVars, cacheVars, budgets
<1>6. CASE UpdateSnapshotStatus
  <2>1. local' \in Objects
    BY <1>6, LatestSuccessFacts DEF UpdateSnapshotStatus, TypeOK, Objects
  <2> QED
    BY <1>6, <2>1 DEF UpdateSnapshotStatus, TypeOK, objectVars, cacheVars, cronVars, budgets
<1>7. CASE UpdateStatus
  <2>1. last' \in Times
    BY <1>7 DEF UpdateStatus, TypeOK, Objects
  <2>2. successes' \in 0 .. MaxSuccesses
    <3>1. MaxSuccesses \in Nat
      BY SnapshotAssumption DEF MaxSuccesses
    <3> QED
      BY <1>7, <3>1 DEF UpdateStatus, RecordSnapshotSuccess, TypeOK
  <2> QED
    BY <1>7, <2>1, <2>2 DEF UpdateStatus, TypeOK, cronVars, budgets
<1>8. CASE Abort
  <2>1. faults' \in 0 .. MaxFaults
    BY <1>8, SnapshotAssumption DEF Abort, TypeOK
  <2> QED
    BY <1>8, <2>1 DEF Abort, TypeOK, objectVars, cacheVars, cronVars
<1>9. ASSUME NEW s \in Specs, EditSnapshot(s) PROVE TypeOK'
  <2>1. edits' \in 0 .. MaxEdits
    BY <1>9, SnapshotAssumption DEF EditSnapshot, TypeOK
  <2> QED
    BY <1>9, <2>1 DEF EditSnapshot, TypeOK, cronVars
<1>10. CASE SyncCluster
  BY <1>10 DEF SyncCluster, TypeOK, Objects, objectVars, cronVars, reconcileVars, budgets
<1>11. CASE SyncCronJob
  BY <1>11 DEF SyncCronJob, TypeOK, objectVars, cronVars, reconcileVars, budgets
<1>12. ASSUME NEW j \in Jobs, \/ StartJob(j) \/ CompleteJob(j) \/ ExceedDeadline(j)
                              \/ RemoveJob(j)
       PROVE  TypeOK'
  <2>1. job[j] \in JobRecords /\ job \in [Jobs -> JobRecords]
    BY DEF TypeOK
  <2>2. job' \in [Jobs -> JobRecords]
    <3>1. CASE StartJob(j)
      <4>1. cron.deadline \in BOOLEAN
        <5>1. cron # NoCron
          BY <3>1 DEF StartJob, NoCron
        <5> QED
          BY <5>1 DEF TypeOK, CronJobs
      <4> QED
        BY <2>1, <3>1, <4>1 DEF StartJob, TypeOK, JobRecords
    <3>2. CASE CompleteJob(j)
      <4>1. Ended + 1 \in Times
        BY <3>2, EndedType DEF CompleteJob, EndJob, JobRecordInv, Times, Ended
      <4> QED
        BY <2>1, <3>2, <4>1 DEF CompleteJob, EndJob, JobRecords
    <3>3. CASE ExceedDeadline(j)
      <4>1. 0 \in Times
        BY SnapshotAssumption DEF Times
      <4> QED
        BY <2>1, <3>3, <4>1 DEF ExceedDeadline, EndJob, JobRecords
    <3>4. CASE RemoveJob(j)
      BY <2>1, <3>4 DEF RemoveJob, JobRecords
    <3> QED
      BY <1>12, <3>1, <3>2, <3>3, <3>4
  <2> QED
    BY <1>12, <2>2 DEF StartJob, CompleteJob, ExceedDeadline, EndJob, RemoveJob, TypeOK,
       objectVars, cacheVars, cronVars, reconcileVars, budgets
<1>13. CASE UNCHANGED vars
  BY <1>13 DEF TypeOK, vars, objectVars, cacheVars, cronVars, reconcileVars, budgets
<1>14. CASE SyncJobs
  BY <1>14 DEF SyncJobs, TypeOK, objectVars, cronVars, reconcileVars, budgets
<1> QED
  BY <1>1, <1>2, <1>3, <1>4, <1>5, <1>6, <1>7, <1>8, <1>9, <1>10, <1>11, <1>12, <1>13,
     <1>14 DEF Next, ReconcileStep, Environment

-----------------------------------------------------------------------------
(* The Jobs.                                                               *)

\* What a step does to the Jobs, and what it does not do to the number of
\* completion times given out.
LEMMA JobStep ==
    ASSUME TypeOK, JobRecordInv, [Next]_vars
    PROVE  \/ UNCHANGED job /\ Ended' = Ended
           \/ \E j \in Jobs : /\ StartJob(j) \/ ExceedDeadline(j) \/ RemoveJob(j)
                              /\ Ended' = Ended
           \/ \E j \in Jobs : CompleteJob(j) /\ Ended' = Ended + 1
<1>1. CASE UNCHANGED job
  BY <1>1, EndedSame
<1>2. ASSUME NEW j \in Jobs, StartJob(j) \/ ExceedDeadline(j) \/ RemoveJob(j)
      PROVE  Ended' = Ended
  <2>1. job \in [Jobs -> JobRecords]
    BY DEF TypeOK
  <2>2. \A i \in Jobs : job'[i].done = job[i].done
    <3>1. CASE StartJob(j)
      BY <2>1, <3>1 DEF StartJob, JobRecords
    <3>2. CASE ExceedDeadline(j)
      <4>1. job[j].done = 0
        BY <3>2 DEF ExceedDeadline, EndJob, JobRecordInv
      <4> QED
        BY <2>1, <3>2, <4>1 DEF ExceedDeadline, EndJob, JobRecords
    <3>3. CASE RemoveJob(j)
      BY <2>1, <3>3 DEF RemoveJob, JobRecords
    <3> QED
      BY <1>2, <3>1, <3>2, <3>3
  <2> QED
    BY <2>2, EndedSame
<1>3. ASSUME NEW j \in Jobs, CompleteJob(j) PROVE Ended' = Ended + 1
  <2>1. job \in [Jobs -> JobRecords]
    BY DEF TypeOK
  <2>2. job[j].done = 0
    BY <1>3 DEF CompleteJob, EndJob, JobRecordInv
  <2>3. job'[j].done = Ended + 1 /\ Ended + 1 # 0
    BY <1>3, <2>1, EndedType, SnapshotAssumption
       DEF CompleteJob, EndJob, JobRecords, Ended
  <2>4. \A i \in Jobs : i # j => job'[i].done = job[i].done
    BY <1>3, <2>1 DEF CompleteJob, EndJob
  <2> QED
    BY <2>2, <2>3, <2>4, EndedNext
<1>4. \/ UNCHANGED job
      \/ \E j \in Jobs : \/ StartJob(j) \/ CompleteJob(j) \/ ExceedDeadline(j)
                         \/ RemoveJob(j)
  BY DEF Next, ReconcileStep, Environment, StartReconcile, CreateSnapshotCronJob,
     UpdateSnapshotCronJob, KeepSnapshotCronJob, DeleteSnapshotCronJob,
     UpdateSnapshotStatus, UpdateStatus, Abort, EditSnapshot, SyncCluster,
     SyncCronJob, SyncJobs, vars
<1> QED
  BY <1>1, <1>2, <1>3, <1>4

\* Times are never taken back.
LEMMA EndedGrows ==
    ASSUME TypeOK, JobRecordInv, [Next]_vars
    PROVE  Ended \in Nat /\ Ended' \in Nat /\ Ended <= Ended'
<1>1. Ended \in Nat
  BY EndedType, SnapshotAssumption DEF Ended
<1> QED
  BY <1>1, JobStep

\* A CronJob is created, or uid stays and none appears.
LEMMA UidStep ==
    ASSUME TypeOK, [Next]_vars
    PROVE  \/ /\ uid' = uid
              /\ cron'.exists => cron.exists
           \/ /\ uid' = uid + 1 /\ ~cron.exists
              /\ UNCHANGED job /\ pc' = "jobs"
<1>1. CASE CreateSnapshotCronJob
  BY <1>1 DEF CreateSnapshotCronJob, cronVars
<1>2. CASE UpdateSnapshotCronJob
  <2>1. cron' # cron => cron.exists
    BY <1>2 DEF UpdateSnapshotCronJob
  <2> QED
    BY <1>2, <2>1 DEF UpdateSnapshotCronJob
<1>3. CASE DeleteSnapshotCronJob
  BY <1>3 DEF DeleteSnapshotCronJob, NoCron
<1>4. CASE UNCHANGED cronVars
  BY <1>4 DEF cronVars
<1>5. \/ CreateSnapshotCronJob \/ UpdateSnapshotCronJob \/ DeleteSnapshotCronJob
      \/ UNCHANGED cronVars
  BY DEF Next, ReconcileStep, Environment, StartReconcile, KeepSnapshotCronJob,
     UpdateSnapshotStatus, UpdateStatus, Abort, EditSnapshot, SyncCluster,
     SyncCronJob, SyncJobs, StartJob, CompleteJob, ExceedDeadline, EndJob, RemoveJob,
     vars
<1> QED
  BY <1>1, <1>2, <1>3, <1>4, <1>5

\* Every step keeps what is known of a Job.
LEMMA JobRecordNext ==
    TypeOK /\ JobRecordInv /\ TimesInv /\ [Next]_vars => JobRecordInv'
<1> DEFINE Good(j) ==
              /\ job'[j].state = "none" => job'[j] = NoJob
              /\ job'[j].state # "none" => job'[j].owner \in 1 .. uid'
              /\ job'[j].state # "none" => \A i \in 1 .. j - 1 : job'[i].state # "none"
              /\ job'[j].done <= Ended'
              /\ job'[j].state \in {"active", "failed"} => job'[j].done = 0
              /\ job'[j].state = "complete" => job'[j].done # 0
<1> SUFFICES ASSUME TypeOK, JobRecordInv, TimesInv, [Next]_vars, NEW j \in Jobs
             PROVE  Good(j)
  BY DEF JobRecordInv, Jobs
<1>1. /\ job[j].state = "none" => job[j] = NoJob
      /\ job[j].state # "none" => job[j].owner \in 1 .. uid
      /\ job[j].state # "none" => \A i \in 1 .. j - 1 : job[i].state # "none"
      /\ job[j].done <= Ended
      /\ job[j].state \in {"active", "failed"} => job[j].done = 0
      /\ job[j].state = "complete" => job[j].done # 0
  BY DEF JobRecordInv
<1>2. /\ job \in [Jobs -> JobRecords] /\ job[j] \in JobRecords
      /\ job[j].done \in Nat /\ uid \in Nat
  BY SnapshotAssumption DEF TypeOK, JobRecords, Times
<1>3. Ended \in Nat /\ Ended' \in Nat /\ Ended <= Ended'
  BY EndedGrows
<1>4. uid' \in Nat /\ uid <= uid'
  BY <1>2, UidStep
<1>5. \A i \in 1 .. j - 1 : i \in Jobs
  BY SnapshotAssumption DEF Jobs
<1>6. CASE UNCHANGED job
  BY <1>1, <1>2, <1>3, <1>4, <1>6
<1>7. ASSUME NEW k \in Jobs, job'[k].state # "none",
             \A i \in Jobs \ {k} : job'[i] = job[i]
      PROVE  \A i \in 1 .. j - 1 : job[i].state # "none" => job'[i].state # "none"
  BY <1>5, <1>7
<1>8. ASSUME NEW k \in Jobs, StartJob(k)
      PROVE  /\ job'[k].state = "active" /\ job'[k].owner = uid /\ job'[k].done = 0
             /\ \A i \in Jobs \ {k} : job'[i] = job[i]
             /\ \A i \in 1 .. k - 1 : job[i].state # "none"
             /\ uid \in 1 .. uid
  <2>1. job[k] = NoJob /\ job[k] \in JobRecords
    BY <1>2, <1>8 DEF StartJob
  <2>2. \A i \in 1 .. k - 1 : i \in Jobs /\ job[i] # NoJob
    BY <1>8, SnapshotAssumption DEF StartJob, Jobs
  <2>3. \A i \in 1 .. k - 1 : job[i].state # "none"
    BY <2>2 DEF JobRecordInv
  <2>4. uid >= 1
    BY <1>8 DEF StartJob, TimesInv
  <2> QED
    BY <1>2, <1>8, <2>1, <2>3, <2>4 DEF StartJob, JobRecords, NoJob
<1>9. ASSUME NEW k \in Jobs, CompleteJob(k)
      PROVE  /\ job[k].state = "active" /\ job'[k].state = "complete"
             /\ job'[k].owner = job[k].owner /\ job'[k].done = Ended + 1
             /\ \A i \in Jobs \ {k} : job'[i] = job[i]
  BY <1>2, <1>9 DEF CompleteJob, EndJob, JobRecords
<1>10. ASSUME NEW k \in Jobs, ExceedDeadline(k)
       PROVE  /\ job[k].state = "active" /\ job'[k].state = "failed"
              /\ job'[k].owner = job[k].owner /\ job'[k].done = 0
              /\ \A i \in Jobs \ {k} : job'[i] = job[i]
  BY <1>2, <1>10 DEF ExceedDeadline, EndJob, JobRecords
<1>11. ASSUME NEW k \in Jobs, RemoveJob(k)
       PROVE  /\ job[k].state # "none" /\ job'[k].state = "removed"
              /\ job'[k].owner = job[k].owner /\ job'[k].done = job[k].done
              /\ \A i \in Jobs \ {k} : job'[i] = job[i]
  BY <1>2, <1>11 DEF RemoveJob, JobRecords
<1>12. ASSUME NEW k \in Jobs, StartJob(k)
       PROVE  Good(j)
  <2>1. CASE j = k
    BY <1>2, <1>3, <1>4, <1>7, <1>8, <1>12, <2>1
  <2>2. CASE j # k
    BY <1>1, <1>2, <1>3, <1>4, <1>7, <1>8, <1>12, <2>2
  <2> QED
    BY <2>1, <2>2
<1>13. ASSUME NEW k \in Jobs, CompleteJob(k), Ended' = Ended + 1
       PROVE  Good(j)
  <2>1. CASE j = k
    BY <1>1, <1>2, <1>3, <1>4, <1>7, <1>9, <1>13, <2>1
  <2>2. CASE j # k
    BY <1>1, <1>2, <1>3, <1>4, <1>7, <1>9, <1>13, <2>2
  <2> QED
    BY <2>1, <2>2
<1>14. ASSUME NEW k \in Jobs, ExceedDeadline(k) \/ RemoveJob(k)
       PROVE  Good(j)
  <2>1. CASE j = k
    BY <1>1, <1>2, <1>3, <1>4, <1>7, <1>10, <1>11, <1>14, <2>1
  <2>2. CASE j # k
    BY <1>1, <1>2, <1>3, <1>4, <1>7, <1>10, <1>11, <1>14, <2>2
  <2> QED
    BY <2>1, <2>2
<1> QED
  BY <1>6, <1>12, <1>13, <1>14, JobStep

\* The controller's list stays, or becomes the present one.
LEMMA SeenStep ==
    ASSUME [Next]_vars
    PROVE  \/ UNCHANGED jobSeen /\ EndedIn(jobSeen') = EndedIn(jobSeen)
           \/ /\ UNCHANGED <<last, seen, local, cron, uid, job, pc>>
              /\ jobSeen' = job /\ EndedIn(jobSeen') = Ended
<1>1. CASE SyncJobs
  BY <1>1 DEF SyncJobs, Ended, objectVars, cronVars, reconcileVars
<1>2. CASE UNCHANGED jobSeen
  BY <1>2
<1>3. SyncJobs \/ UNCHANGED jobSeen
  BY DEF Next, ReconcileStep, Environment, StartReconcile, CreateSnapshotCronJob,
     UpdateSnapshotCronJob, KeepSnapshotCronJob, DeleteSnapshotCronJob,
     UpdateSnapshotStatus, UpdateStatus, Abort, EditSnapshot, SyncCluster,
     SyncCronJob, StartJob, CompleteJob, ExceedDeadline, EndJob, RemoveJob,
     vars, cacheVars
<1> QED
  BY <1>1, <1>2, <1>3

\* Where the times come from that a step publishes, caches or computes.
LEMMA TimesStep ==
    ASSUME TypeOK, [Next]_vars
    PROVE  /\ last' = last \/ (last' = local.last /\ pc = "status" /\ pc' # "status")
           /\ seen'.last \in {seen.last, last}
           /\ \/ UpdateSnapshotStatus /\ local'.last = LatestSuccess
              \/ local'.last \in {local.last, seen.last} /\ pc' # "status"
              \/ local' = local /\ pc = "status"
<1>1. last' = last \/ (last' = local.last /\ pc = "status" /\ pc' # "status")
  BY DEF Next, ReconcileStep, Environment, StartReconcile, CreateSnapshotCronJob,
     UpdateSnapshotCronJob, KeepSnapshotCronJob, DeleteSnapshotCronJob,
     UpdateSnapshotStatus, UpdateStatus, Abort, EditSnapshot, SyncCluster,
     SyncCronJob, SyncJobs, StartJob, CompleteJob, ExceedDeadline, EndJob, RemoveJob,
     vars, objectVars
<1>2. SyncCluster \/ seen' = seen
  BY DEF Next, ReconcileStep, Environment, StartReconcile, CreateSnapshotCronJob,
     UpdateSnapshotCronJob, KeepSnapshotCronJob, DeleteSnapshotCronJob,
     UpdateSnapshotStatus, UpdateStatus, Abort, EditSnapshot,
     SyncCronJob, SyncJobs, StartJob, CompleteJob, ExceedDeadline, EndJob, RemoveJob,
     vars, cacheVars
<1>3. SyncCluster => seen'.last = last
  BY DEF SyncCluster
<1>4. UpdateSnapshotStatus => local'.last = LatestSuccess
  BY DEF UpdateSnapshotStatus, TypeOK, Objects
<1>5. \/ UpdateSnapshotStatus
      \/ local' \in {local, seen} /\ pc' # "status"
      \/ local' = local /\ pc = "status"
  BY DEF Next, ReconcileStep, Environment, StartReconcile, CreateSnapshotCronJob,
     UpdateSnapshotCronJob, KeepSnapshotCronJob, DeleteSnapshotCronJob,
     UpdateStatus, Abort, EditSnapshot, SyncCluster,
     SyncCronJob, SyncJobs, StartJob, CompleteJob, ExceedDeadline, EndJob, RemoveJob,
     vars, reconcileVars
<1> QED
  BY <1>1, <1>2, <1>3, <1>4, <1>5

\* The times that are known, and those that are published, are numbers.
LEMMA TimesAreNumbers ==
    ASSUME TypeOK
    PROVE  /\ EndedIn(jobSeen) \in Nat /\ Ended \in Nat /\ uid \in Nat
           /\ last \in Nat /\ seen.last \in Nat /\ local.last \in Nat
BY EndedType, SnapshotAssumption DEF Ended, TypeOK, Objects, Times

\* Every step keeps the published times among those the list knows of.
LEMMA TimesNext ==
    TypeOK /\ JobRecordInv /\ TimesInv /\ [Next]_vars => TimesInv'
<1> SUFFICES ASSUME TypeOK, JobRecordInv, TimesInv, [Next]_vars PROVE TimesInv'
  OBVIOUS
<1>1. Ended \in Nat /\ Ended' \in Nat /\ Ended <= Ended'
  BY EndedGrows
<1>2. /\ last <= EndedIn(jobSeen) /\ seen.last <= EndedIn(jobSeen)
      /\ local.last <= EndedIn(jobSeen) /\ EndedIn(jobSeen) <= Ended
  BY DEF TimesInv
<1>3. cron'.exists => uid' >= 1
  BY TimesAreNumbers, UidStep DEF TimesInv
<1>4. LatestSuccess \in Nat /\ LatestSuccess <= EndedIn(jobSeen)
  BY LatestSuccessFacts, SnapshotAssumption DEF Times
<1>5. CASE UNCHANGED jobSeen /\ EndedIn(jobSeen') = EndedIn(jobSeen)
  <2>1. \A time \in {last', seen'.last, local'.last} : time <= EndedIn(jobSeen)
    BY <1>2, <1>4, TimesStep
  <2>2. \A j \in Jobs : jobSeen'[j].done <= EndedIn(jobSeen')
    BY <1>5 DEF TimesInv
  <2>3. EndedIn(jobSeen') <= Ended'
    BY <1>1, <1>2, <1>5, TimesAreNumbers
  <2> QED
    BY <1>3, <1>5, <2>1, <2>2, <2>3 DEF TimesInv, Jobs
<1>6. CASE /\ UNCHANGED <<last, seen, local, cron, uid, job, pc>>
           /\ jobSeen' = job /\ EndedIn(jobSeen') = Ended
  <2>1. \A time \in {last', seen'.last, local'.last} : time <= EndedIn(jobSeen')
    BY <1>2, <1>6, TimesAreNumbers
  <2>2. \A j \in Jobs : jobSeen'[j].done <= EndedIn(jobSeen')
    BY <1>6 DEF JobRecordInv
  <2> QED
    BY <1>1, <1>3, <1>6, <2>1, <2>2 DEF TimesInv, Jobs
<1> QED
  BY <1>5, <1>6, SeenStep

\* A set with more than one element has another one.
LEMMA AnotherElement ==
    ASSUME NEW S, NEW n \in Nat \ {0}, Cardinality(S) > n, NEW x
    PROVE  \E y \in S : y # x
<1>1. SUFFICES ASSUME S \subseteq {x} PROVE FALSE
  OBVIOUS
<1>2. IsFiniteSet({x}) /\ Cardinality({x}) = 1
  BY FS_Singleton
<1>3. Cardinality(S) <= 1 /\ Cardinality(S) \in Nat
  BY <1>1, <1>2, FS_Subset, FS_CardinalityType
<1> QED
  BY <1>3

\* Every step keeps the newest success among the Jobs that are listed.
LEMMA JobsNext ==
    TypeOK /\ JobRecordInv /\ TimesInv /\ JobsInv /\ [Next]_vars => JobsInv'
<1> DEFINE ActiveIsLast == \A j \in Jobs : job'[j].state = "active" =>
              \A i \in j + 1 .. MaxJobs : job'[i] = NoJob
           NewestIsListed == Ended' = 0 \/ \E j \in Jobs :
              /\ job'[j].state = "complete" /\ job'[j].done = Ended'
              /\ \A i \in j + 1 .. MaxJobs : job'[i].done = 0
<1> SUFFICES ASSUME TypeOK, JobRecordInv, TimesInv, JobsInv, [Next]_vars,
                    uid' = 1, cron'.exists
             PROVE  ActiveIsLast /\ NewestIsListed
  BY DEF JobsInv, Jobs
<1>1. Ended \in Nat /\ Ended' \in Nat
  BY EndedGrows
<1>2. job \in [Jobs -> JobRecords] /\ uid \in Nat
  BY SnapshotAssumption DEF TypeOK
<1>3. \A j \in Jobs : j \in Int /\ \A i \in j + 1 .. MaxJobs : i \in Jobs /\ i > j
  BY SnapshotAssumption DEF Jobs
<1>4. CASE uid = 0
  <2>1. UNCHANGED job
    BY <1>2, <1>4, UidStep
  <2>2. \A j \in Jobs : job[j] = NoJob
    BY <1>4 DEF JobRecordInv
  <2>3. \A j \in Jobs : job'[j].state # "active" /\ job[j].done = 0
    BY <2>1, <2>2 DEF NoJob
  <2>4. Ended' = 0
    <3>1. {j \in Jobs : job[j].done # 0} = {}
      BY <2>3
    <3>2. Ended = 0
      BY <3>1, FS_EmptySet DEF Ended, EndedIn
    <3> QED
      BY <2>1, <3>2, EndedSame
  <2> QED
    BY <2>3, <2>4
<1>5. CASE uid = 1 /\ cron.exists
  <2>1. \A j \in Jobs : job[j].state = "active" =>
           \A i \in j + 1 .. MaxJobs : job[i] = NoJob
    BY <1>5 DEF JobsInv
  <2>2. Ended = 0 \/ \E j \in Jobs :
           /\ job[j].state = "complete" /\ job[j].done = Ended
           /\ \A i \in j + 1 .. MaxJobs : job[i].done = 0
    BY <1>5 DEF JobsInv
  <2>3. CASE UNCHANGED job /\ Ended' = Ended
    BY <2>1, <2>2, <2>3
  <2>4. ASSUME NEW k \in Jobs, StartJob(k), Ended' = Ended
        PROVE  ActiveIsLast /\ NewestIsListed
    <3>1. /\ job[k] = NoJob /\ job'[k].state = "active" /\ job'[k].done = 0
          /\ \A i \in Jobs \ {k} : job'[i] = job[i]
      BY <1>2, <2>4 DEF StartJob, JobRecords, NoJob
    <3>2. \A i \in Jobs : job[i].state # "active"
      <4> SUFFICES ASSUME NEW i \in Jobs, job[i].state = "active" PROVE FALSE
        OBVIOUS
      <4>1. job[i].owner \in 1 .. uid
        BY DEF JobRecordInv
      <4>2. job[i].owner = uid
        BY <1>5, <4>1
      <4> QED
        BY <2>4, <4>2 DEF StartJob, Active
    <3>3. \A i \in k + 1 .. MaxJobs : job[i] = NoJob
      <4> SUFFICES ASSUME NEW i \in k + 1 .. MaxJobs PROVE job[i] = NoJob
        OBVIOUS
      <4>1. i \in Jobs /\ k \in 1 .. i - 1
        BY SnapshotAssumption DEF Jobs
      <4>2. job[k].state = "none"
        BY <3>1 DEF NoJob
      <4> QED
        BY <4>1, <4>2 DEF JobRecordInv
    <3>4. ActiveIsLast
      <4> SUFFICES ASSUME NEW j \in Jobs, job'[j].state = "active",
                          NEW i \in j + 1 .. MaxJobs
                   PROVE  job'[i] = NoJob
        OBVIOUS
      <4>1. j = k
        BY <3>1, <3>2
      <4>2. i \in Jobs /\ i # k
        BY <1>3, <4>1
      <4> QED
        BY <3>1, <3>3, <4>1, <4>2
    <3>5. NewestIsListed
      <4>1. CASE Ended = 0
        BY <2>4, <4>1
      <4>2. CASE Ended # 0
        <5>1. PICK j \in Jobs : /\ job[j].state = "complete" /\ job[j].done = Ended
                                /\ \A i \in j + 1 .. MaxJobs : job[i].done = 0
          BY <2>2, <4>2
        <5>2. j # k
          BY <3>1, <5>1 DEF NoJob
        <5>3. job'[j] = job[j]
          BY <3>1, <5>2
        <5>4. \A i \in j + 1 .. MaxJobs : job'[i].done = 0
          BY <1>3, <3>1, <5>1
        <5> QED
          BY <2>4, <5>1, <5>3, <5>4
      <4> QED
        BY <4>1, <4>2
    <3> QED
      BY <3>4, <3>5
  <2>5. ASSUME NEW k \in Jobs, CompleteJob(k), Ended' = Ended + 1
        PROVE  ActiveIsLast /\ NewestIsListed
    <3>1. /\ job[k].state = "active" /\ job'[k].state = "complete"
          /\ job'[k].done = Ended'
          /\ \A i \in Jobs \ {k} : job'[i] = job[i]
      BY <1>2, <2>5 DEF CompleteJob, EndJob, JobRecords
    <3>2. \A i \in k + 1 .. MaxJobs : job'[i] = NoJob
      BY <1>3, <2>1, <3>1
    <3>3. \A i \in k + 1 .. MaxJobs : job'[i].done = 0
      BY <3>2 DEF NoJob
    <3>4. ActiveIsLast
      <4> SUFFICES ASSUME NEW j \in Jobs, job'[j].state = "active",
                          NEW i \in j + 1 .. MaxJobs
                   PROVE  job'[i] = NoJob
        OBVIOUS
      <4>1. j # k /\ job[j].state = "active"
        BY <3>1
      <4>2. job[i] = NoJob /\ i \in Jobs
        BY <1>3, <2>1, <4>1
      <4>3. i # k
        BY <3>1, <4>2 DEF NoJob
      <4> QED
        BY <3>1, <4>2, <4>3
    <3> QED
      BY <3>1, <3>3, <3>4
  <2>6. ASSUME NEW k \in Jobs, ExceedDeadline(k) \/ RemoveJob(k), Ended' = Ended
        PROVE  ActiveIsLast /\ NewestIsListed
    <3>1. /\ job[k].state # "none" /\ job'[k].state \in {"failed", "removed"}
          /\ job'[k].done = job[k].done
          /\ \A i \in Jobs \ {k} : job'[i] = job[i]
      <4>1. CASE ExceedDeadline(k)
        <5>1. job[k].state = "active" /\ job[k].done = 0
          BY <4>1 DEF ExceedDeadline, EndJob, JobRecordInv
        <5> QED
          BY <1>2, <4>1, <5>1 DEF ExceedDeadline, EndJob, JobRecords
      <4>2. CASE RemoveJob(k)
        BY <1>2, <4>2 DEF RemoveJob, JobRecords
      <4> QED
        BY <2>6, <4>1, <4>2
    <3>2. \A j \in Jobs : job'[j].done = job[j].done
      BY <3>1
    <3>3. ActiveIsLast
      <4> SUFFICES ASSUME NEW j \in Jobs, job'[j].state = "active",
                          NEW i \in j + 1 .. MaxJobs
                   PROVE  job'[i] = NoJob
        OBVIOUS
      <4>1. job[j].state = "active"
        BY <3>1
      <4>2. job[i] = NoJob /\ i \in Jobs
        BY <1>3, <2>1, <4>1
      <4>3. i # k
        BY <3>1, <4>2 DEF NoJob
      <4> QED
        BY <3>1, <4>2, <4>3
    <3>4. ASSUME Ended # 0
          PROVE  \E j \in Jobs : /\ job'[j].state = "complete" /\ job'[j].done = Ended'
                                 /\ \A i \in j + 1 .. MaxJobs : job'[i].done = 0
      <4>1. PICK j \in Jobs : /\ job[j].state = "complete" /\ job[j].done = Ended
                              /\ \A i \in j + 1 .. MaxJobs : job[i].done = 0
        BY <2>2, <3>4
      <4>2. j # k
        <5> SUFFICES ASSUME j = k PROVE FALSE
          OBVIOUS
        <5>1. RemoveJob(j)
          BY <2>6, <4>1 DEF ExceedDeadline, EndJob
        <5>2. ~IsOrphan(j)
          <6>1. job[j].owner \in 1 .. uid
            BY <4>1 DEF JobRecordInv
          <6> QED
            BY <1>5, <6>1 DEF IsOrphan
        <5>3. PICK kept : kept = {i \in Jobs : job[i].state = "complete" /\ ~IsOrphan(i)}
          OBVIOUS
        <5>4. Cardinality(kept) > HistoryLimit /\ j = Min(kept)
          BY <5>1, <5>2, <5>3 DEF RemoveJob
        <5>5. PICK i \in kept : i # j
          BY <5>4, AnotherElement, SnapshotAssumption
        <5>6. kept \in SUBSET Nat /\ kept # {}
          BY <5>3, <5>5, SnapshotAssumption DEF Jobs
        <5>7. j <= i
          BY <5>4, <5>6, MinIsLeast
        <5>8. i \in j + 1 .. MaxJobs /\ i \in Jobs /\ job[i].state = "complete"
          BY <5>3, <5>5, <5>7, SnapshotAssumption DEF Jobs
        <5>9. job[i].done # 0
          BY <5>8 DEF JobRecordInv
        <5> QED
          BY <4>1, <5>8, <5>9
      <4>3. job'[j] = job[j]
        BY <3>1, <4>2
      <4>4. \A i \in j + 1 .. MaxJobs : job'[i].done = 0
        BY <1>3, <3>2, <4>1
      <4> QED
        BY <2>6, <4>1, <4>3, <4>4
    <3> QED
      BY <2>6, <3>3, <3>4
  <2> QED
    BY <2>3, <2>4, <2>5, <2>6, JobStep
<1>6. uid = 0 \/ (uid = 1 /\ cron.exists)
  BY <1>2, UidStep
<1> QED
  BY <1>4, <1>5, <1>6

\* Every step keeps the list and the status ahead of what is published.
LEMMA PublishNext ==
    TypeOK /\ JobRecordInv /\ TimesInv /\ JobsInv /\ PublishInv /\ [Next]_vars
        => PublishInv'
<1> SUFFICES ASSUME TypeOK, JobRecordInv, TimesInv, JobsInv, PublishInv, [Next]_vars,
                    uid' = 1, cron'.exists
             PROVE  /\ EndedIn(jobSeen') \in Completions' \cup {0}
                    /\ pc' = "status" => local'.last >= last'
  BY DEF PublishInv, EndedIn, Jobs
<1> USE TimesAreNumbers
<1>1. CASE uid = 1 /\ cron.exists
  <2>1. /\ EndedIn(jobSeen) \in Completions \cup {0}
        /\ pc = "status" => local.last >= last
    BY <1>1 DEF PublishInv
  <2>2. EndedIn(jobSeen') \in Completions' \cup {0}
    <3>1. CASE UNCHANGED jobSeen /\ EndedIn(jobSeen') = EndedIn(jobSeen)
      BY <2>1, <3>1 DEF Completions, Jobs
    <3>2. CASE jobSeen' = job /\ EndedIn(jobSeen') = Ended
      BY <1>1, <3>2 DEF Completions, Jobs, JobsInv
    <3> QED
      BY <3>1, <3>2, SeenStep
  <2>3. ASSUME pc' = "status" PROVE local'.last >= last'
    <3>1. last' = last
      BY <2>3, TimesStep
    <3>2. CASE UpdateSnapshotStatus /\ local'.last = LatestSuccess
      <4>1. LatestSuccess \in Nat /\ LatestSuccess >= EndedIn(jobSeen)
        BY <2>1, LatestSuccessFacts, SnapshotAssumption DEF Times
      <4>2. last <= EndedIn(jobSeen)
        BY DEF TimesInv
      <4> QED
        BY <3>1, <3>2, <4>1, <4>2
    <3>3. CASE local' = local /\ pc = "status"
      BY <2>1, <3>1, <3>3
    <3> QED
      BY <2>3, <3>2, <3>3, TimesStep
  <2> QED
    BY <2>2, <2>3
<1>2. CASE uid = 0
  <2>1. pc' # "status" /\ ~(UNCHANGED <<uid, pc>>)
    BY <1>2, UidStep
  <2>2. UNCHANGED jobSeen /\ EndedIn(jobSeen') = EndedIn(jobSeen)
    BY <1>2, SeenStep
  <2>3. \A j \in Jobs : job[j].done = 0
    BY <1>2 DEF JobRecordInv, NoJob
  <2>4. {j \in Jobs : job[j].done # 0} = {}
    BY <2>3
  <2>5. Ended = 0
    BY <2>4, FS_EmptySet DEF Ended, EndedIn
  <2>6. EndedIn(jobSeen') = 0
    BY <2>2, <2>5 DEF TimesInv
  <2> QED
    BY <2>1, <2>6
<1> QED
  BY <1>1, <1>2, UidStep

-----------------------------------------------------------------------------
(* The theorems.                                                           *)

IInv == TypeOK /\ UidBound /\ JobRecordInv /\ TimesInv /\ JobsInv /\ PublishInv

\* The invariant holds initially.
LEMMA IInvInit == Init => IInv
<1> SUFFICES ASSUME Init PROVE IInv
  OBVIOUS
<1>1. /\ (CHOOSE s \in Schedules : TRUE) \in Schedules
      /\ (CHOOSE t \in Targets : TRUE) \in Targets
      /\ (CHOOSE c \in Credentials : TRUE) \in Credentials
  BY SnapshotAssumption
<1>2. spec \in Specs /\ spec.enabled \in BOOLEAN
  BY <1>1 DEF Init, Specs
<1>3. 0 \in Times /\ 0 \in 0 .. MaxEdits + 1 /\ 0 \in 0 .. MaxEdits /\ 0 \in 0 .. MaxFaults
  BY SnapshotAssumption DEF Times
<1>4. NoJob \in JobRecords
  BY <1>3 DEF NoJob, JobRecords
<1>5. 0 \in 0 .. MaxSuccesses
  BY SnapshotAssumption DEF MaxSuccesses
<1>6. TypeOK
  BY <1>2, <1>3, <1>4, <1>5 DEF Init, TypeOK, Objects
<1>7. UidBound
  <2>1. /\ cron.exists = FALSE /\ uid = 0 /\ edits = 0
        /\ local.spec.enabled = spec.enabled /\ seen.spec.enabled = spec.enabled
    BY DEF Init, NoCron
  <2> QED
    BY <1>2, <2>1 DEF UidBound, Change, Bit
<1>8. Ended \in Nat /\ EndedIn(jobSeen) = Ended
  BY EndedType, SnapshotAssumption DEF Init, Ended
<1>9. \A j \in Jobs : job[j] = NoJob
  BY DEF Init
<1>10. JobRecordInv
  BY <1>8, <1>9 DEF JobRecordInv, NoJob, Jobs
<1>11. /\ cron.exists = FALSE /\ last = 0 /\ seen.last = 0 /\ local.last = 0
       /\ jobSeen = job
  BY DEF Init, NoCron
<1>12. TimesInv
  BY <1>8, <1>10, <1>11 DEF TimesInv, JobRecordInv
<1> QED
  BY <1>6, <1>7, <1>10, <1>11, <1>12 DEF IInv, JobsInv, PublishInv

\* The invariant holds throughout.
LEMMA IInvHolds == Spec => []IInv
<1>1. IInv /\ [Next]_vars => IInv'
  BY TypeNext, UidNext, JobRecordNext, TimesNext, JobsNext, PublishNext DEF IInv
<1> QED
  BY <1>1, IInvInit, PTL DEF Spec

\* Type correctness of the scheduled snapshots: with every CronJob and every
\* completion time within its bound.
THEOREM TypeCorrectness == Spec => []TypeOK
<1>1. IInv => TypeOK
  BY DEF IInv
<1> QED
  BY <1>1, IInvHolds, PTL

\* For every number of edits: the controller creates a further CronJob only
\* for two further edits, however old its copies are.
THEOREM RecreationNeedsTwoEdits == Spec => []RecreatedOnlyOnDemand
<1>1. IInv => RecreatedOnlyOnDemand
  <2> SUFFICES ASSUME IInv PROVE RecreatedOnlyOnDemand
    OBVIOUS
  <2>1. TypeOK /\ UidBound
    BY DEF IInv
  <2>2. 2 * uid - Bit(cron.exists) <= edits + 1 /\ Bit(cron.exists) \in 0 .. 1
    BY <2>1, EnabledType, ChangeFacts DEF UidBound
  <2> QED
    BY <2>1, <2>2, EnabledType DEF RecreatedOnlyOnDemand
<1> QED
  BY <1>1, IInvHolds, PTL

\* For every history limit: as long as the first CronJob is there, the newest
\* success of all is among the Jobs that are listed.
THEOREM NewestSuccessIsKept == Spec => []JobsInv
<1>1. IInv => JobsInv
  BY DEF IInv
<1> QED
  BY <1>1, IInvHolds, PTL

\* For every history limit and every delay of the controller's list: the
\* published lastSnapshotTime never goes back while the first CronJob is there.
THEOREM PublishedTimeAdvances == Spec => LastSnapshotTimeAdvances
<1>1. IInv /\ [Next]_vars => [uid = 1 /\ cron.exists => last' >= last]_vars
  <2> SUFFICES ASSUME IInv, [Next]_vars, uid = 1, cron.exists PROVE last' >= last
    OBVIOUS
  <2>1. TypeOK /\ PublishInv
    BY DEF IInv
  <2> QED
    BY <2>1, TimesStep, TimesAreNumbers DEF PublishInv
<1> QED
  BY <1>1, IInvHolds, PTL DEF Spec, LastSnapshotTimeAdvances

\* A reconcile of a CronJob in sync keeps it, and nothing outside of the
\* reconcile but an edit takes the two apart.
THEOREM SyncIsKept == Spec => InSyncIsStable
<1> DEFINE Stays == InSync' /\ UNCHANGED cronVars /\ wrote' \in {wrote, "nothing"}
<1>1. ASSUME TypeOK, [Next]_vars, InSync, edits' = edits PROVE Stays
  <2> USE <1>1 DEF InSync, objectVars, cacheVars, cronVars, reconcileVars, budgets
  <2>1. CASE StartReconcile
    BY <2>1 DEF StartReconcile
  <2>2. ~CreateSnapshotCronJob
    BY DEF CreateSnapshotCronJob
  <2>3. ~UpdateSnapshotCronJob
    BY DEF UpdateSnapshotCronJob, SnapshotCronJobNeedsUpdate,
       SnapshotContainersEqual, BuildSnapshotCronJob, SnapshotArgs
  <2>4. CASE KeepSnapshotCronJob
    BY <2>4 DEF KeepSnapshotCronJob
  <2>5. CASE DeleteSnapshotCronJob
    BY <2>5 DEF DeleteSnapshotCronJob
  <2>6. CASE UpdateSnapshotStatus
    <3>1. local'.spec = local.spec
      BY <2>6 DEF UpdateSnapshotStatus, TypeOK, Objects
    <3> QED
      BY <2>6, <3>1 DEF UpdateSnapshotStatus
  <2>7. CASE UpdateStatus
    BY <2>7 DEF UpdateStatus
  <2>8. CASE Abort
    BY <2>8 DEF Abort
  <2>9. \A s \in Specs : ~EditSnapshot(s)
    BY DEF EditSnapshot, TypeOK
  <2>10. CASE SyncCluster
    BY <2>10 DEF SyncCluster
  <2>11. CASE SyncCronJob
    BY <2>11 DEF SyncCronJob
  <2>12. ASSUME NEW j \in Jobs,
                StartJob(j) \/ CompleteJob(j) \/ ExceedDeadline(j) \/ RemoveJob(j)
         PROVE  Stays
    BY <2>12 DEF StartJob, CompleteJob, ExceedDeadline, EndJob, RemoveJob
  <2>13. CASE UNCHANGED vars
    BY <2>13 DEF vars
  <2>14. CASE SyncJobs
    BY <2>14 DEF SyncJobs
  <2> QED
    BY <2>1, <2>2, <2>3, <2>4, <2>5, <2>6, <2>7, <2>8, <2>9, <2>10, <2>11,
       <2>12, <2>13, <2>14 DEF Next, ReconcileStep, Environment
<1>2. TypeOK /\ [Next]_vars => [InSync => edits' # edits \/ Stays]_vars
  BY <1>1
<1> QED
  BY <1>2, TypeCorrectness, PTL DEF Spec, InSyncIsStable

==============================================================================
