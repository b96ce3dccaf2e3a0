# A TLA+ model of the Memgraph operator

The operator keeps Memgraph clusters on Kubernetes: for each `MemgraphCluster`
object it creates a StatefulSet and three services, elects one instance as the
write instance (MAIN), makes the others its replicas, watches replication,
schedules snapshots, and publishes what it did in the object's status. This
directory models that logic, checks it with TLC on small instances and proves
the central safety properties with TLAPS for every size.

## 1. Inventory

| Component | State it keeps | Operations | Module |
|---|---|---|---|
| Reconcile loop (`memgraphcluster_controller.go`) | none between reconciles but the object's status | `Reconcile`, `handleDeletion`, `reconcileResources` and its twelve steps | `Reconciler`, `Election`; steps 8-9 in `Snapshots`, 10 in `Validation`, 11 in `Metrics` |
| Replication configuration (`replication.go`) | roles and registrations inside Memgraph | `ConfigureReplication`, `ensureMainRole`, `ensureReplicaRole`, `cleanupStaleReplicas` | `Reconciler`, `Election` |
| Replication health (`replication.go`) | per-replica timers in the process | `CheckReplicationHealth`, `stateFor`, `pruneStates`, `DeleteClusterState` | `ReplicaHealth` |
| Classifier (`replica_classifier.go`) | two timers of one replica | `classifyReplica` | `ReplicaClassifier` |
| Snapshots (`snapshot.go`) | the CronJob, `status.lastSnapshotTime` | `reconcileSnapshotCronJob`, `deleteSnapshotCronJob`, `updateSnapshotStatus` | `Snapshots` |
| Snapshot Job (`snapshot.go`) | a shared volume, the backup | the containers create-snapshot, copy-snapshots, s3-upload | `SnapshotJob` |
| Memgraph client (`client.go`) | none | queries through `mgconsole` in the pod, parsers of the answers | the queries' effects are in the modules that send them; `summarizeDataInfo` in `ReplicaClassifier` |
| Pod template and services (`statefulset.go`, `service.go`) | none | builders | replica count, init container, readiness and selector in `Reconciler`; what they do to data in `DataPlane` and `SnapshotJob` |
| Memgraph itself (external) | commits, epochs, roles, registrations | writes, streaming | `DataPlane` |
| Validation (`validation.go`) | `status.validation` | connectivity and lag tests, throttle | `Validation` |
| Metrics (`metrics.go`) | Prometheus series | recorders, removal | `Metrics`; values of the replica gauges in `ReplicaClassifier`, the snapshot counter in `Snapshots` |
| Process (`cmd/main.go`, config, logger) | none | start-up | no |

How they interact. The manager runs one reconcile at a time. A reconcile reads
every object from informer caches, the lists of pods and Jobs included, makes
its API writes under optimistic concurrency, and talks to Memgraph by executing
`mgconsole` in pods. The only memory between two reconciles is the status on the API server,
the roles and registrations inside Memgraph and the timers of the health
checks. Everything else moves on its own between any two calls.

What is hard here:

* the sticky election rests on a status, and on a list of pods, that are read
  from caches;
* promotion, demotion, registration, the write service and the status are
  separate writes to separate systems, none of which is undone on failure;
* a pod that was listed may be gone, unready or reborn as a MAIN when it is
  used;
* a recreated pod starts as a MAIN without replicas (`clear-replication-state`);
* snapshot Job pods carry the cluster's labels, and are listed long after they
  ended;
* the health timers span restarts, re-registrations and a changing main;
* drift of the CronJob is decided on a cached copy and on some of its fields;
* a replaced instance keeps its data and loses the proof of its lineage, and a
  crash takes commits the write-ahead log had not flushed;
* validation writes to an instance elected earlier;
* the containers of a snapshot Job look the main up one after the other, and a
  copy that breaks off is only a warning;
* a metric series lives until somebody deletes it, and no part of the code
  knows of all of them.

`PROJECT.json` lists these as hazards, each at its line with the properties that
would catch it.

## 2. Modules

How they are composed. `Election` is the abstract specification of what the
reconcile loop does to roles, registrations, the write service and the
published main. `Reconciler`, the loop call by call, implements it
(`ImplementsElection`, proved). `DataPlane` extends `Election` with the data of
the instances, and `Validation` extends `DataPlane` with the validation a
reconcile runs: both are thus about every behaviour of the loop, without its
inner steps. `SnapshotJob` sees of all that only the selector of the write
service, its endpoints, and the data and files of the instances; it lets all of
them move freely, so that nothing is assumed of the loop. `Metrics` does so
with registrations, pods and the write instance. `ReplicaHealth` extends
`ReplicaClassifier`; `Snapshots` stands alone.

### Reconciler

State: the object (`cr`), the StatefulSet's replica count (`sts`), the services
(`owned`, `svc`); the controller's cached copies (`crSeen`, `crSeenCurrent`,
`stsSeen`, `svcSeen`, `podSeen`); pods, roles and registrations (`pod`, `role`, `regs`); and the
variables of the running reconcile (`pc` and the ones after it, with the names
of the code). A pod is its ordinal.

Each call of a reconcile is an action, in the order of the code:

| Action | Code |
|---|---|
| `HandleNotFound`, `HandleDeletion`, `AddFinalizer`, `InitializeStatus`, `StartReconcile` | the early returns of `Reconcile` and their absence |
| `ReconcileHeadlessService`, `ReconcileStatefulSet`, `GetClusterPods` (with `determineWriteInstance`), `ReconcileWriteService`, `ReconcileReadService` | steps 1-6 of `reconcileResources` |
| `EnsureMainRole`, `EnsureMainRoleFails`, `ShowReplicas`, `EnsureReplicaRole`, `EnsureReplicaRoleFails`, `RegisterReplica`, `CleanupStaleReplicas` | `ConfigureReplication` |
| `CheckReplicationHealth` | the call and the two counts it yields; the verdicts are those of `ReplicaHealth`, here any |
| `UpdateStatus` | `updateStatus`, `updateConditions` |
| `Abort` | an API call that fails or an operator that dies, at any step |

Around it: the user (`Scale`, `Delete`), the caches (`SyncCluster`,
`SyncStatefulSet`, `SyncService`, `SyncPods`), the StatefulSet controller, kubelet and garbage collector
(`CreatePod`, `DeletePod`, `Evict`, `BecomeReady`, `BecomeUnready`,
`GarbageCollect`) and snapshot Jobs (`StartJob`, `EndJob`, `CollectJob`).

Choices that matter:

* a status or spec write gives the object a new resourceVersion, and a write
  from an outdated copy is refused. The object's cache jumps to the latest
  version when it syncs. A status update that changes nothing counts as a write;
* the StatefulSet and the write service are compared on cached copies. A write
  decided on an outdated one is refused; an outdated one that needs no write
  lets the reconcile go on (`ReconcileStatefulSet`, `ReconcileWriteService`).
  The headless and the read service are only ever created, where an outdated
  copy can only lead to a refused write, which is `Abort`;
* the List returns the pods of the informer cache, in any order. The cache jumps
  to the pods as they are (`SyncPods`); what it skips on the way could also have
  been missed by a reconcile that was not running then;
* the pod of a finished Job is not ready and stays listed until its Job is
  collected, some day, or with the cluster (`CollectJob`);
* an instance's role and registrations are those of its last life until the new
  pod is created (`CreatePod`), where `clear-replication-state` runs;
* a query that fails may have taken effect. A pod that is up but not ready may
  answer or not;
* a change of the image is its effect, replaced pods (`Evict`);
* steps 8-11 of `reconcileResources` do not touch this state.

### Election

The variables are the loop's effects (`role`, `regs`, `svc`, `main`), the pods
that look `ready` to the controller, and two that stand for the running reconcile: its `choice`,
and whether it is `suspect`, that is, it knows the published main and saw it as
not ready. `SyncPods` lets the view of the pods change to any other. The promises are the guards: `Publish` replaces a main only from a
suspect reconcile; `Demote`, `Register` and `Unregister` need the choice to be
a MAIN (`MainIsSet`); `Route` never takes the pod name out of an existing
selector. `GiveUp` is a reconcile that fails, ends, or is overtaken by another
write of the status.

The refinement mapping is in `Reconciler` (`Elected`): `ready` is what the pod
cache shows as ready (`SeenReady`); `choice` is the write
instance `wi` of the running reconcile; `suspect` holds past its List, with a
copy of the status that is still current and whose published main was not
listed as ready; the List is `Choose`.

### DataPlane

`data` is the set of commits an instance holds, commits numbered in the order
they are made; `epoch` the content of its `epoch_id`. A client writes to any MAIN:
the read service and the headless service lead to all of them. A main streams its oldest missing commit to a
registered replica that is empty or whose history is a part of its own and
carries the same epoch. Restarts lose the last commits, as many as the
write-ahead log had not flushed (`Recover`); a new pod gets an epoch of its own
(`RestartPod`), a restarted container keeps it (`RestartContainer`). This is Memgraph as the operator's code and `FIXES-REQUIRED.md` describe
it, marked external.

### Validation

Each query is an action: the pings as one (they only yield a verdict), the test
write with its failure (refused, or done and the answer lost), one read per
replica (unreadable, found, not found), the cleanup, which may fail silently,
and the status update that publishes the verdict or is refused. There is one
test node, so its value on an instance is given by the last of the commits
there that set or deleted it. Lag is a choice when the value was not found: the
time since the write, over 10 s or not. The 30 s throttle is a flag that time
clears. `several` is `len(pods) > 1`, which counts pods that are not ready.
That two validations never write the same value is `time.Now().UnixNano()` in
the code, and the number of the commit here.

### SnapshotJob

One Job at a time (Forbid). `create-snapshot` reaches any endpoint of the write
service and leaves a file with that instance's commits; the endpoints follow
the selector some time later (`Proxy`). `copy-snapshots` takes the files of the
pod the service names, or of the first running pod, ready or not. A copy that
fails is only printed: `CopyMisses` is one that leaves files out or takes
another pod's, `CopyIsCutShort` one whose stream breaks off in the middle of a
file, which stays `Truncated`. A lookup that finds no pod at all ends the
container, which runs again. `s3-upload` fails only on an empty directory.
Around it the service moves, data grows and is lost in crashes, Memgraph writes
files of its own and expires any but the newest, the Job's pod is replaced with
or without its volume, and the deadline passes. `routes`, `atStart` and
`disturbed` are history variables for the properties.

### Metrics

A series is a family and an instance label; families are the groups of gauges
that the code sets and deletes together. Actions are the parts of a reconcile
that touch the registry, each with its failure, the not-found branch with and
without a replication manager, deletion and re-creation of the object, and a
restart of the operator, which empties the registry. Counters and histograms
are left out; no code deletes them.

### ReplicaClassifier and ReplicaHealth

`ReplicaClassifier` states `classifyReplica` twice: `ClassifyReplica` by cases,
and `ScanDatabases` as the loop over the databases in a given order, a recursive
function of the number of iterations (`ScanStates`).
It also has `summarizeDataInfo`, the client's own loop over the same data, from
which the snapshot gauges come.
`ReplicaHealth` adds the map of timers and everything that changes it: checks,
pruning, restarts, deletion, registrations and reports that change between
checks, and time. Timers are kept as ages, capped one above the larger
threshold. Two history variables record since when each check has found the
replica registered without `data_info` (`sinceStreaming`), or with lag or an
invalid database (`sinceCaughtUp`); the alarms are judged by them. Replicas
do not influence one another, so one replica is enough for TLC; the proofs are
for any number.

### Snapshots

The CronJob is written by create, update or delete, each decided on a cached
copy and refused if that is outdated. `spec.snapshot` has three parts that the
code treats differently: what is compared field by field (`schedule`), what
reaches the containers' arguments (`target`), and what only reaches their
environment (`credential`). The API server adds defaults to what it stores.
Jobs start under Forbid, the default of `concurrencyPolicy` (the user may choose
another; `LastSnapshotTimeAdvances` is not claimed for that), complete, exceed
their deadline if the template has one, and are removed by the history limit or,
after their CronJob, by the garbage collector in any order. The status is
computed from a cached list of them (`jobSeen`, `SyncJobs`). `successes` is the
Prometheus counter, capped at two, enough to count one Job twice.

## 3. Runs

| Run | Instance | Shows |
|---|---|---|
| `MCReconcilerLoop` | 2 instances, 1 Job pod, preferred main, 1 fault or Job, 1 edit | `TypeOK`, `ReconcileInv`; the loop implements `Election` (`ImplementsElection`); a listed-ready main is not replaced in the status (`KeepsReadyMain`); the published main is demoted only by a reconcile with an old copy; nothing is demoted before the chosen main is MAIN; the instances that are there lose their last MAIN only with a pod (`KeepsALiveMain`); the write service stays with a pod once it names one (`WriteServiceStaysPinned`); a settled cluster is left alone, ended Job pods listed or not (`SettledIsStable`); the cluster converges (`Converges`) and deletion completes (`DeletionCompletes`) |
| `MCReconcilerScale` | 2-3 instances, preferred main, 1 edit | scaling either way ends with exactly the right registrations |
| `MCReplicaHealthTimers` | 1 replica, 2 databases, grace 1, threshold 2, 1 restart | the verdict does not depend on map order; the client's gauges agree with it (`GaugesAgreeWithVerdict`); no channel alarm without a whole period without `data_info`, no lag alarm without one of lag or an invalid database; a lasting condition is reported for good |
| `MCSnapshotsCronJob` | 2 values of the target, 2 Jobs, history limit 1, 2 edits, 1 fault | the CronJob follows the spec, writes stop, a stuck Job ends; a CronJob in sync is left alone (`InSyncIsStable`) and one is recreated only for two more edits (`RecreatedOnlyOnDemand`); the newest success is kept (`JobsInv`); `lastSnapshotTime`, from a cached list, never goes back under the first CronJob (`LastSnapshotTimeAdvances`) and ends up at the newest success (`NewestSuccessIsPublished`) |
| `MCSnapshotJobBackup` | 2 instances, 1 commit | the backup holds what the main had if the service stayed with it, no copy failed and no commit was lost (`BackupHoldsWhatTheMainHad`), through the chain `JobInv` |
| `MCValidationVerdict` | 2 instances, 2 commits, 1 restart | a published pass was written through the published main (`PassedMeansMainAcceptsWrites`) |
| `MCMetricsSeries` | 2 instances | a deleted cluster loses its series of the gauges `DeleteClusterMetrics` names and none comes back (`SweptClusterHasNoSeries`, `SeriesGoWithCluster`); an unregistered replica disappears from the gauges `RecordReplicaSet` sets (`DroppedReplicaDisappears`) |

Bounds. `MaxFaults` counts failing calls, replaced or unready pods, operator
restarts and starts of Jobs; `MaxEdits` edits of the object. One fault reaches
every place a reconcile can be cut off; each cached copy multiplies the states,
and the proofs of the safety properties are for any number. Two instances have
every relation of a main and a replica; three are needed for a registration that
survives a scale-down of another. `MCReconcilerLoop` keeps the replica count,
because from two to one the cluster does not converge (`MCReconcilerScaleToOne`).
The two thresholds of the health run differ, so that a mix-up shows. The code
keeps three Jobs; one, and one Job more than that, takes the same steps. A
changed schedule and a changed target are compared alike, so one of them varies.
The credentials stay the same: the code never applies a change of them, and
`CronJobFollowsSpec` is about the rest. The validation run has no Job pod; the
proofs allow any number.
In the Job one commit tells a file with all of an instance's data from one taken
before it and from another instance's; with two in the validation a client's
write meets the test write, and one restart gives an instance a lineage of its
own. The largest runs have 1.8 million (`MCValidationVerdict`), 0.9 million
(`MCReconcilerLoop`) and 0.8 million (`MCReconcilerScale`) distinct states.
Instances and commits are symmetric in the validation and Job runs, which check
no liveness.

Runs that find a disagreement between a comment or doc and the code
(`PROJECT.json`, "findings", quotes the lines):

* `MCReconcilerStaleCache`: a ready reported main is demoted by a reconcile that
  read an old status. It mends itself in a later reconcile: `Converges` holds;
* `MCReconcilerScaleToOne`: scaled to one, the last instance can stay a REPLICA
  with the cluster Ready. The pod of a finished snapshot Job, while it is
  listed, hides this: `len(pods) > 1` counts it;
* `MCDataPlaneRestart`: a replica that is replaced keeps its data and loses its
  epoch, and is never streamed to again although it has nothing its main lacks
  and the operator has registered it anew. `FIXES-REQUIRED.md`, Issue 5, is the
  same story from production. Histories that branched are not in the premise;
* `MCValidationPassed`: `allReplicasHealthy` is published with the test value
  found on no replica;
* `MCSnapshotJobTruncated`: the only file of a copy that broke off is truncated,
  and the Job completes and counts as the last successful snapshot.

More divergences are visible in the definitions and have no run:

* one List that shows the main unready moves it (`DetermineWriteInstance`),
  although the doc of `highAvailability.enabled` calls automatic promotion not
  implemented;
* a registration is dropped when its pod is merely not ready (`StaleReplicas`
  works on the ready pods), although the comment on `cleanupStaleReplicas` says
  "no longer exist as pods";
* a running snapshot Job's pod is listed with the instances and counted in
  `readyInstances`, and can be elected;
* the last MAIN that is there can be demoted: by a reconcile whose write
  instance went away after `ensureMainRole` (the exception in `KeepsALiveMain`).
  The next one elects again;
* an empty `data_info` counts as healthy during the grace period (`IsHealthy`),
  although the comment on `CheckReplicationHealth` calls it unhealthy; the
  grace period's end is exclusive (`EmptyVerdict`), although the comment on
  `classificationDataChannelDown` says `>=`; and a replica that is behind for
  too long has its data channel reported as up even if another database has a
  status nobody knows (`BehindVerdict`, `ChannelUp`);
* a check that finds a database invalid returns before the lag timer
  (`ClassifyReplica`), so a replica that caught up meanwhile is `BehindTooLong`
  with its first new lag, although the comment on that verdict says `behind > 0`
  for longer than the threshold;
* `lastSnapshotTime` goes back while the Jobs of a deleted CronJob are collected
  newest first (`UpdateSnapshotStatus`); a changed S3 region or secret never
  reaches the CronJob (`SnapshotContainersEqual` ignores the environment); every
  reconcile counts the last snapshot as a success again
  (`RecordSnapshotSuccess`);
* after a failover between the containers of a snapshot Job the backup has the
  files of the new main, with or without the snapshot the Job asked for
  (`CopySnapshots`);
* a validation that finds no ready pod passes (`Ping` with nothing listed);
* storage series are never deleted (`ClusterMetricsDeleted`):
  `DeleteInstanceStorageMetrics` has no caller; nor are the per-cluster series of
  `reconcile_operations_total`, `reconcile_duration_seconds` and
  `snapshot_operations_total`. The data-channel series of a
  replica that becomes the main stays until the cluster is deleted, because
  pruning its state does not delete its series.

Fairness. The reconcile loop is weakly fair: every return of `Reconcile`
requeues, at once, after 10 or 30 seconds, or with the queue's backoff. The
syncs of the informer caches (cluster, StatefulSet, services, pods, CronJob,
Jobs), the StatefulSet controller, the garbage collector, a starting pod's
readiness and the end of a Job's pod are fair, since Kubernetes retries them;
that the pod of a finished Job is collected is so only once the cluster is gone.
In `ReplicaHealth` the check and the clock are fair, in `Metrics` the parts of
a queued reconcile, whose calls all return. `DroppedReplicaDisappears` assumes
in its own statement that health checks go on succeeding. In `Snapshots` a Job's
completion is not: a pod may never be schedulable; its deadline is. Faults
and edits are never fair, and they are bounded: convergence means once they
stop.

Each property has a mutant: a definition named `Mutant...` next to the one it
replaces, a bug the code could have had, under which TLC finds the property
violated.

## 4. Proofs

`ReconcilerProofs` holds for every `MaxReplicas`, `NumJobPods`, fault and edit
bound, every set of replica counts and every preferred main
(`BoundsAssumption`, `SpecAssumption`).

* `TypeCorrectness` and `ReconcileInvariance`, together one induction. Types
  alone are not inductive: that a registration never names the instance itself,
  and that the queries go to an instance, needs what the reconcile knows at each
  step. `ReconcileInv` says that: a copy with the object's resourceVersion has
  its content; past the List the chosen write instance was listed as ready and
  is the reported one if that was; what is left to demote was listed as ready
  and is not the chosen one; past `ensureMainRole` the chosen one is MAIN. The
  last holds although pods restart in between, because a new pod starts as
  MAIN. None of it is about the pods as they are: the List may be old.
* `ReadyMainIsKept`: only `UpdateStatus` changes the published main, it needs a
  current copy, and then the election was sticky.
* `ReportedMainIsDemotedOnlyWhenOutdated` and `DemotionFollowsPromotion`: only
  the loop over the replicas demotes (a recreated pod only ever becomes MAIN),
  and what it demotes is in `todo`.
* `LiveMainIsKept`: between the pods that come and go, only that loop takes the
  MAIN role away, and then the chosen instance has it; it is one that is there
  unless it went away since.
* `WriteServiceIsPinned`: only `ReconcileWriteService` and the garbage collector
  touch the service. The first writes on a current copy only, so a selector
  without a pod name is written only where there was no service; otherwise it
  writes the election's choice, of which `ReconcileInv` knows the rest.
* `SettledStaysSettled`: `Settled` is inductive but for faults and edits. It
  joins `Converged` with what makes it last: every pod asked for is ready, no
  other is there (but for pods of finished Jobs), the caches have the content of
  the objects, and a running
  reconcile has read nothing else (`ReadsUpToDate`). From that, each call is a
  no-op on roles, registrations, service and StatefulSet, and the status update
  publishes what is published. A reconcile that read an older state is excluded,
  as it must be: `MCReconcilerStaleCache` is one. With `Converges` checked by
  TLC, this is the part of it that can be proved: once there, it stays there.

`ReplicaHealthProofs` holds for all replicas, lags and thresholds and any finite
set of databases.

* `ChannelAlarmIsSound` and `LagAlarmIsSound` rest on `TimersInv`: a timer is
  never older than what it measures, which capping at `MaxAge` preserves. What
  the lag timer measures is lag or an invalid database.
* `LoopIsDeterministic`: for every order of the databases the loop computes the
  verdict and the timer that `ClassifyReplica` defines by cases, without an
  order. The loop invariant (`ScanResult`) says what the accumulator is after
  `k` iterations in terms of the set of databases seen so far: whether one was
  behind, whether one had an unknown status, and that it returned early exactly
  when one was behind and the threshold had passed. An order visits every
  database (`OrderVisitsAll`), so after the last iteration that set is all of
  them.
* `GaugesAgree`: the same for the loop of `summarizeDataInfo`, and then the two
  results are compared.

`NumberLemmas` has what these two need instead of the library's induction
theorems, which the provers cannot instantiate: a non-empty set of naturals has
a least element, hence induction over an interval for the members of a set
(`IntervalInduction`), and a loop has a run (`LoopHasRun`), hence a recursive
function over the iterations satisfies its defining equation.

`ElectionProofs`: `LoopImplementsElection`, for all constants of `Reconciler`.
The initial states map to initial states; each action of the loop, and each of
the world around it, maps to one action of `Election` or to a stutter, from the
type invariant and `ReconcileInv` of `ReconcilerProofs`: that past
`ensureMainRole` the chosen instance is MAIN gives `Demote`, `Register` and
`Unregister` their guard, and that a copy with the current version has the
object's content gives `Publish` its own.

`ValidationProofs`, for any instances, Job pods and bounds. The inductive
invariant joins the types and `ResultInv`: past the write, unless it failed, the
test value was committed by the choice; before it nothing is unread or received.
`PassedVerdictWasWritten` then looks at the status update: a pass of several
pods has been through the write, and the update publishes or confirms the
choice. `ValidationIsAnElection` closes the composition: the reconcile loop and
the reconcile with a validation in it both implement `Election`.

`SnapshotJobProofs`, for any instances and commits: `SnapshotInv` joins the
types, `StagesInv` (the copy and the upload run only with S3),
`RoutedInv` (the current selector and the one the endpoints were made of are
among `routes`) and `JobInv`. `BackupHoldsWhatTheMainHad` is the last link of
`JobInv`; the chain is needed because the file, the copy and the upload are three
steps between which everything else moves, and it goes through the newest file
because retention takes the others.

`MetricsProofs`, for any instances: `SweptClusterHasNoSeries` needs
`BusyMeansQueued`, that a running reconcile keeps its key queued, so that what
it still records is swept by the one that follows.

`SnapshotsProofs`, for any non-empty sets of schedules, targets and credentials,
any number of Jobs, edits and faults, and every history limit of at least one
(with none kept there is no newest success to see). The inductive invariant
`IInv` joins six parts.

* `TypeOK` is not inductive: the uid of the CronJob is bounded by the edits, and
  that takes `UidBound`. An edit of `enabled` travels from the object to the
  cache, to the reconcile's copy and to the CronJob. Every CronJob was created,
  and all but the one that is there deleted, by an edit that arrived; every two
  neighbours on the way that differ are an edit that has not arrived yet; and
  the sum of the three is at most `edits + 1`. `RecreationNeedsTwoEdits` follows.
* `JobRecordInv` and `TimesInv`: Jobs start in order and have an owner that was
  created, a Job has a completion time while it is complete, and every time that
  is kept in a status or a copy of it is one the cached list has shown.
* `JobsInv` (`NewestSuccessIsKept`): under Forbid the active Job started last,
  so a Job that completes is the newest success and the last started; the
  history limit removes the one that started first of at least two.
* `PublishInv` (`PublishedTimeAdvances`): what holds of the Jobs when the cache
  syncs holds of the cached list afterwards, so the newest success it has ever
  shown is still in it, and a reconcile that has read it carries a time no older
  than the published one.

`SyncIsKept` needs only the types: `InSync` is kept by every step but an edit.

Only model-checked: the liveness properties, which need fairness. Of `Converges`,
`CronJobFollowsSpec` and `WritesStop` the proofs have the half that is safety.

## 5. Not modelled

* The parsers of mgconsole's tables, and rows in the format of Memgraph before
  2.21, which have a status and no `data_info`: text processing.
* Values of the gauges other than the replicas', role labels, counters but one,
  the histogram.
* The times and the per-instance results of a validation; `lagMs` of an instance
  is never set by the code.
* How Memgraph finds that histories branched; only what the operator sees of it.
* Two managers at once around a change of leader. A cluster that is deleted and
  created again under its name is modelled in `Metrics` only.
* Failure to create the Memgraph client, events, logging, names, ports,
  resources, generated code, manifests, tests.
* `HandleMainFailover` and `TriggerSnapshot`, which nothing calls.

## 6. Plan

Done: the modules above, the refinement of `Election`, and proofs of every
invariant and action property the passing runs check. Left:

1. the safety halves of the remaining liveness properties (`JobsEnd`,
   `SeriesGoWithCluster`, `DroppedReplicaDisappears`, `DeletionCompletes`);
2. `DataPlane` with an instance that is re-seeded, should the operator get the
   remediation `FIXES-REQUIRED.md` plans;
3. the read service gated on replica health, likewise.
