----------------------------- MODULE Snapshots -----------------------------
(***************************************************************************)
(* Scheduled snapshots: the CronJob the controller keeps for a cluster,    *)
(* the Jobs the CronJob starts, and what the controller publishes about    *)
(* them (status.lastSnapshotTime and the snapshot counters).               *)
(*                                                                         *)
(* These are steps 8, 9 and 12 of reconcileResources and the end of        *)
(* Reconcile.  The CronJob controller, the Job controller and the garbage  *)
(* collector are modelled from how the code configures and reads them.     *)
(* The Jobs are numbered in the order they start; a completion time is a   *)
(* position in the order of completions.  concurrencyPolicy is the         *)
(* default, Forbid.                                                        *)
(***************************************************************************)
EXTENDS Integers, FiniteSets, FiniteSetsExt

CONSTANTS
    Schedules,      \* values of schedule, deadlines, node selector, ...
    Targets,        \* values of image, S3 bucket, prefix and endpoint
    Credentials,    \* values of S3 region and secret reference
    HistoryLimit,   \* successfulJobsHistoryLimit
    MaxJobs,        \* bound on Jobs started
    MaxEdits,       \* bound on edits of spec.snapshot
    MaxFaults       \* bound on failing API calls and operator restarts

ASSUME SnapshotAssumption ==
    /\ Schedules # {} /\ Targets # {} /\ Credentials # {}
    /\ HistoryLimit \in Nat \ {0}
    /\ MaxJobs \in Nat
    /\ MaxEdits \in Nat
    /\ MaxFaults \in Nat

Jobs == 1 .. MaxJobs

VARIABLES
    spec,           \* spec.snapshot of the MemgraphCluster
    last,           \* its status.lastSnapshotTime, 0: none
    seen,           \* the controller's cached copy of both
    seenCurrent,    \* whether that copy has the object's resourceVersion
    cron,           \* the CronJob on the API server
    cronSeen,       \* the controller's cached copy of it
    uid,            \* CronJobs created so far: the uid of the latest
    job,            \* the Jobs
    jobSeen,        \* the controller's cached copy of them
    pc,             \* next call of the running reconcile, or "idle"
    local,          \* its copy of spec.snapshot and lastSnapshotTime
    localCurrent,   \* whether that copy has the object's resourceVersion
    wrote,          \* what the last reconcile asked for of the CronJob
    successes,      \* memgraph_snapshot_operations_total{result="success"}
    edits,          \* edits so far
    faults          \* faults so far

objectVars    == <<spec, last>>
cacheVars     == <<seen, seenCurrent, cronSeen, jobSeen>>
cronVars      == <<cron, uid>>
reconcileVars == <<pc, local, localCurrent>>
budgets       == <<edits, faults>>
vars == <<objectVars, cacheVars, cronVars, job, reconcileVars, wrote,
          successes, budgets>>

Specs == [enabled : BOOLEAN, schedule : Schedules, target : Targets,
          credential : Credentials]

Times == 0 .. MaxJobs

Objects == [spec : Specs, last : Times]

NoCron == [exists |-> FALSE]

\* defaulted: the fields of the pod template that the API server fills in.
CronJobs == [exists : {TRUE}, schedule : Schedules, args : Targets,
             env : Credentials, deadline : BOOLEAN, defaulted : BOOLEAN]

NoJob == [state |-> "none", owner |-> 0, deadline |-> FALSE, done |-> 0]

JobRecords == [state : {"none", "active", "complete", "failed", "removed"},
               owner : 0 .. MaxEdits + 1, deadline : BOOLEAN, done : Times]

\* Bound of the success counter: one Job counted twice.
MaxSuccesses == 2

TypeOK ==
    /\ spec \in Specs
    /\ last \in Times
    /\ seen \in Objects
    /\ seenCurrent \in BOOLEAN
    /\ cron \in CronJobs \cup {NoCron}
    /\ cronSeen \in CronJobs \cup {NoCron}
    /\ uid \in 0 .. MaxEdits + 1
    /\ job \in [Jobs -> JobRecords]
    /\ jobSeen \in [Jobs -> JobRecords]
    /\ pc \in {"idle", "cronjob", "jobs", "status"}
    /\ local \in Objects
    /\ localCurrent \in BOOLEAN
    /\ wrote \in {"nothing", "create", "update", "delete"}
    /\ successes \in 0 .. MaxSuccesses
    /\ edits \in 0 .. MaxEdits
    /\ faults \in 0 .. MaxFaults

Init ==
    /\ spec \in [enabled : BOOLEAN, schedule : {CHOOSE s \in Schedules : TRUE},
                 target : {CHOOSE t \in Targets : TRUE},
                 credential : {CHOOSE c \in Credentials : TRUE}]
    /\ last = 0
    /\ seen = [spec |-> spec, last |-> last]
    /\ seenCurrent = TRUE
    /\ cron = NoCron
    /\ cronSeen = NoCron
    /\ uid = 0
    /\ job = [j \in Jobs |-> NoJob]
    /\ jobSeen = job
    /\ pc = "idle"
    /\ local = seen
    /\ localCurrent = FALSE
    /\ wrote = "nothing"
    /\ successes = 0
    /\ edits = 0
    /\ faults = 0

-----------------------------------------------------------------------------
(* The desired CronJob, and how the existing one is compared with it.      *)

\* The scripts of the Job's containers name the image and the S3 target.
SnapshotArgs(s) == s.target

\* The environment of the upload: region and secret.
S3Env(s) == s.credential

\* Mutant of BuildSnapshotCronJob: the Job template has no active deadline.
MutantNoDeadline(s) ==
    [exists |-> TRUE, schedule |-> s.schedule, args |-> SnapshotArgs(s),
     env |-> S3Env(s), deadline |-> FALSE, defaulted |-> FALSE]

\* The active deadline is never left unset.
BuildSnapshotCronJob(s) ==
    [exists |-> TRUE, schedule |-> s.schedule, args |-> SnapshotArgs(s),
     env |-> S3Env(s), deadline |-> TRUE, defaulted |-> FALSE]

SnapshotContainersEqual(existing, desired) == existing.args = desired.args

\* Mutant of SnapshotCronJobNeedsUpdate: whole specs are compared.
MutantWholeSpecsCompared(existing, desired) == existing # desired

SnapshotCronJobNeedsUpdate(existing, desired) ==
    \/ existing.schedule # desired.schedule
    \/ existing.deadline # desired.deadline
    \/ ~SnapshotContainersEqual(existing, desired)

\* The API server fills in the defaults of what it stores.
Stored(c) == [c EXCEPT !.defaulted = TRUE]

-----------------------------------------------------------------------------
(* The reconcile.                                                          *)

StartReconcile ==
    /\ pc = "idle"
    /\ local' = seen
    /\ localCurrent' = seenCurrent
    /\ wrote' = "nothing"
    /\ pc' = "cronjob"
    /\ UNCHANGED <<objectVars, cacheVars, cronVars, job, successes, budgets>>

\* Mutant of CreateSnapshotCronJob: the CronJob has a generated name, so that
\* nothing refuses a second one.
MutantGenerateName ==
    /\ pc = "cronjob"
    /\ local.spec.enabled
    /\ ~cronSeen.exists
    /\ wrote' = "create"
    /\ cron' = Stored(BuildSnapshotCronJob(local.spec))
    /\ uid' = uid + 1
    /\ pc' = "jobs"
    /\ UNCHANGED <<objectVars, cacheVars, job, local, localCurrent, successes,
                   budgets>>

\* Each write is decided on the cached CronJob, and refused if that is
\* outdated: a create because there is one, an update because of the
\* resourceVersion, a delete because there is none.
CreateSnapshotCronJob ==
    /\ pc = "cronjob"
    /\ local.spec.enabled
    /\ ~cronSeen.exists
    /\ wrote' = "create"
    /\ IF cron.exists
       THEN UNCHANGED cronVars
       ELSE /\ cron' = Stored(BuildSnapshotCronJob(local.spec))
            /\ uid' = uid + 1
    /\ pc' = "jobs"
    /\ UNCHANGED <<objectVars, cacheVars, job, local, localCurrent, successes,
                   budgets>>

\* existing.Spec = desired.Spec: fields that are not compared go along.
UpdateSnapshotCronJob ==
    /\ pc = "cronjob"
    /\ local.spec.enabled
    /\ cronSeen.exists
    /\ SnapshotCronJobNeedsUpdate(cronSeen, BuildSnapshotCronJob(local.spec))
    /\ wrote' = "update"
    /\ cron' = IF cron = cronSeen
               THEN Stored(BuildSnapshotCronJob(local.spec)) ELSE cron
    /\ pc' = "jobs"
    /\ UNCHANGED <<objectVars, cacheVars, uid, job, local, localCurrent,
                   successes, budgets>>

KeepSnapshotCronJob ==
    /\ pc = "cronjob"
    /\ local.spec.enabled
    /\ cronSeen.exists
    /\ ~SnapshotCronJobNeedsUpdate(cronSeen, BuildSnapshotCronJob(local.spec))
    /\ pc' = "jobs"
    /\ UNCHANGED <<objectVars, cacheVars, cronVars, job, local, localCurrent,
                   wrote, successes, budgets>>

\* Mutant of DeleteSnapshotCronJob: the call is gated on Enabled, so a
\* disabled schedule is left alone.
MutantDisabledIgnored ==
    /\ pc = "cronjob"
    /\ ~local.spec.enabled
    /\ pc' = "jobs"
    /\ UNCHANGED <<objectVars, cacheVars, cronVars, job, local, localCurrent,
                   wrote, successes, budgets>>

DeleteSnapshotCronJob ==
    /\ pc = "cronjob"
    /\ ~local.spec.enabled
    /\ IF cronSeen.exists
       THEN wrote' = "delete" /\ cron' = NoCron
       ELSE UNCHANGED <<wrote, cron>>
    /\ pc' = "jobs"
    /\ UNCHANGED <<objectVars, cacheVars, uid, job, local, localCurrent,
                   successes, budgets>>

\* Completion times of the Jobs in the controller's list.
Completions ==
    {jobSeen[j].done : j \in {i \in Jobs : jobSeen[i].state = "complete"}}

\* Mutant of LatestSuccess: a lastSnapshotTime that is set is kept.
MutantSetOnce ==
    IF Completions = {} \/ local.last # 0 THEN local.last ELSE Max(Completions)

\* latestSuccess; without one lastSnapshotTime is left as it is.
LatestSuccess == IF Completions = {} THEN local.last ELSE Max(Completions)

UpdateSnapshotStatus ==
    /\ pc = "jobs"
    /\ local' = [local EXCEPT !.last = LatestSuccess]
    /\ pc' = "status"
    /\ UNCHANGED <<objectVars, cacheVars, cronVars, job, localCurrent, wrote,
                   successes, budgets>>

\* Every reconcile that publishes a status with a lastSnapshotTime counts.
RecordSnapshotSuccess ==
    IF local.last # 0 /\ successes < MaxSuccesses
    THEN successes + 1 ELSE successes

\* Refused with a conflict when the reconcile's copy is outdated; then
\* Reconcile returns the error and records nothing.
UpdateStatus ==
    /\ pc = "status"
    /\ IF localCurrent
       THEN /\ last' = local.last
            /\ seenCurrent' = FALSE
            /\ successes' = RecordSnapshotSuccess
       ELSE UNCHANGED <<last, seenCurrent, successes>>
    /\ pc' = "idle"
    /\ localCurrent' = FALSE
    /\ UNCHANGED <<spec, seen, cronSeen, jobSeen, cronVars, job, local, wrote,
                   budgets>>

\* An API call fails, or the operator restarts.
Abort ==
    /\ pc # "idle"
    /\ faults < MaxFaults
    /\ faults' = faults + 1
    /\ pc' = "idle"
    /\ localCurrent' = FALSE
    /\ UNCHANGED <<objectVars, cacheVars, cronVars, job, local, wrote,
                   successes, edits>>

ReconcileStep ==
    \/ StartReconcile
    \/ CreateSnapshotCronJob \/ UpdateSnapshotCronJob \/ KeepSnapshotCronJob
    \/ DeleteSnapshotCronJob
    \/ UpdateSnapshotStatus
    \/ UpdateStatus

-----------------------------------------------------------------------------
(* The user and Kubernetes.                                                *)

EditSnapshot(s) ==
    /\ edits < MaxEdits
    /\ s # spec
    /\ spec' = s
    /\ seenCurrent' = FALSE
    /\ localCurrent' = FALSE
    /\ edits' = edits + 1
    /\ UNCHANGED <<last, seen, cronSeen, jobSeen, cronVars, job, pc, local,
                   wrote, successes, faults>>

SyncCluster ==
    /\ ~seenCurrent
    /\ seen' = [spec |-> spec, last |-> last]
    /\ seenCurrent' = TRUE
    /\ UNCHANGED <<objectVars, cronSeen, jobSeen, cronVars, job, reconcileVars,
                   wrote, successes, budgets>>

SyncCronJob ==
    /\ cronSeen # cron
    /\ cronSeen' = cron
    /\ UNCHANGED <<objectVars, seen, seenCurrent, jobSeen, cronVars, job,
                   reconcileVars, wrote, successes, budgets>>

SyncJobs ==
    /\ jobSeen # job
    /\ jobSeen' = job
    /\ UNCHANGED <<objectVars, seen, seenCurrent, cronSeen, cronVars, job,
                   reconcileVars, wrote, successes, budgets>>

Active(owner) == {j \in Jobs : job[j].owner = owner /\ job[j].state = "active"}

\* How many Jobs completed, in a list of them and so far.
EndedIn(list) == Cardinality({j \in Jobs : list[j].done # 0})

Ended == EndedIn(job)

\* Mutant of StartJob: concurrencyPolicy is Allow, the default of a CronJob.
MutantAllowConcurrent(j) ==
    /\ cron.exists
    /\ job[j] = NoJob
    /\ \A i \in 1 .. j - 1 : job[i] # NoJob
    /\ job' = [job EXCEPT ![j].state = "active", ![j].owner = uid,
                          ![j].deadline = cron.deadline]
    /\ UNCHANGED <<objectVars, cacheVars, cronVars, reconcileVars, wrote,
                   successes, budgets>>

\* Forbid: a tick is skipped while a Job of this CronJob is active.
StartJob(j) ==
    /\ cron.exists
    /\ Active(uid) = {}
    /\ job[j] = NoJob
    /\ \A i \in 1 .. j - 1 : job[i] # NoJob
    /\ job' = [job EXCEPT ![j].state = "active", ![j].owner = uid,
                          ![j].deadline = cron.deadline]
    /\ UNCHANGED <<objectVars, cacheVars, cronVars, reconcileVars, wrote,
                   successes, budgets>>

EndJob(j, state, done) ==
    /\ job[j].state = "active"
    /\ job' = [job EXCEPT ![j].state = state, ![j].done = done]
    /\ UNCHANGED <<objectVars, cacheVars, cronVars, reconcileVars, wrote,
                   successes, budgets>>

CompleteJob(j) == EndJob(j, "complete", Ended + 1)

\* The Job is failed when its active deadline has passed, if it has one.
ExceedDeadline(j) == job[j].deadline /\ EndJob(j, "failed", 0)

IsOrphan(j) == ~cron.exists \/ job[j].owner # uid

\* The CronJob controller removes the Job that started first of too many;
\* the garbage collector removes, in any order, the Jobs of a CronJob that
\* was deleted.
RemoveJob(j) ==
    /\ \/ /\ job[j].state = "complete"
          /\ ~IsOrphan(j)
          /\ LET kept == {i \in Jobs : job[i].state = "complete" /\ ~IsOrphan(i)}
             IN  Cardinality(kept) > HistoryLimit /\ j = Min(kept)
       \/ /\ job[j].state \in {"active", "complete", "failed"}
          /\ IsOrphan(j)
    /\ job' = [job EXCEPT ![j].state = "removed"]
    /\ UNCHANGED <<objectVars, cacheVars, cronVars, reconcileVars, wrote,
                   successes, budgets>>

Environment ==
    \/ \E s \in Specs : EditSnapshot(s)
    \/ SyncCluster \/ SyncCronJob \/ SyncJobs
    \/ \E j \in Jobs : \/ StartJob(j) \/ CompleteJob(j) \/ ExceedDeadline(j)
                       \/ RemoveJob(j)

Next == ReconcileStep \/ Abort \/ Environment

\* The reconcile loop, the caches and the controllers make progress; a Job
\* need not ever complete, its pod may not even be schedulable.
Fairness ==
    /\ WF_vars(ReconcileStep)
    /\ WF_vars(SyncCluster) /\ WF_vars(SyncCronJob) /\ WF_vars(SyncJobs)
    /\ \A j \in Jobs : WF_vars(ExceedDeadline(j)) /\ WF_vars(RemoveJob(j))

Spec == Init /\ [][Next]_vars /\ Fairness

-----------------------------------------------------------------------------
(* Properties.                                                             *)

\* The schedule and the arguments the CronJob runs with are those of the
\* spec once the user leaves it alone, and there is no CronJob if snapshots
\* are disabled, whichever writes failed or were decided on old copies.
CronJobFollowsSpec ==
    <>[](IF spec.enabled
         THEN cron.exists /\ cron.schedule = spec.schedule
                          /\ cron.args = spec.target
         ELSE ~cron.exists)

\* The controller stops writing the CronJob once the user leaves the spec
\* alone: snapshotCronJobNeedsUpdate does not see the defaults that the API
\* server adds as drift.
WritesStop == <>[](wrote = "nothing")

\* No snapshot Job stays active forever and blocks the schedule under
\* Forbid, also when its pod can never run: every template has a deadline.
JobsEnd == \A j \in Jobs : job[j].state = "active" ~> job[j].state # "active"

\* As long as the first CronJob is there, lastSnapshotTime never goes back,
\* although updateSnapshotStatus takes it from an old list of the Jobs that
\* are left, whatever is published already: the history limit takes the Jobs
\* that started first, and Forbid makes those the ones that completed first.
LastSnapshotTimeAdvances == [][uid = 1 /\ cron.exists => last' >= last]_vars

\* And it ends at the newest success of all.
NewestSuccessIsPublished == <>[](uid = 1 /\ cron.exists => last = Ended)

\* A further CronJob is created only after the user has disabled and enabled
\* the snapshots again, however old the copies were that its creation and
\* the deletion of the one before were decided on: the two edits are never
\* applied to the CronJob more often than they were made.
RecreatedOnlyOnDemand == 2 * (uid - 1) <= edits

\* The Jobs of the first CronJob while it is there: the one that is active
\* was started last, and the newest success of all is a Job that is still
\* listed and that no later success follows.
JobsInv ==
    uid = 1 /\ cron.exists =>
        /\ \A j \in Jobs : job[j].state = "active" =>
              \A i \in j + 1 .. MaxJobs : job[i] = NoJob
        /\ Ended = 0 \/ \E j \in Jobs :
              /\ job[j].state = "complete" /\ job[j].done = Ended
              /\ \A i \in j + 1 .. MaxJobs : job[i].done = 0

\* The CronJob is as the spec says in what is compared, or is not there, and
\* neither the caches nor a running reconcile have an older copy.
InSync ==
    /\ seen.spec = spec
    /\ cronSeen = cron
    /\ pc # "idle" => local.spec = spec
    /\ IF spec.enabled
       THEN /\ cron.exists /\ cron.deadline
            /\ cron.schedule = spec.schedule /\ cron.args = spec.target
       ELSE ~cron.exists

\* A CronJob in sync is left alone by every further reconcile, complete or cut
\* off: it is neither written nor recreated, and nothing more is asked of the
\* API server, until the user edits the spec.  This is the safety half of
\* CronJobFollowsSpec and of WritesStop.
InSyncIsStable ==
    [][InSync => \/ edits' # edits
                 \/ InSync' /\ UNCHANGED cronVars /\ wrote' \in {wrote, "nothing"}]_vars

=============================================================================
