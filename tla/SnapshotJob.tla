---------------------------- MODULE SnapshotJob ----------------------------
(***************************************************************************)
(* The pod of a snapshot Job, container by container.  create-snapshot     *)
(* reaches an instance through the write service; copy-snapshots looks the *)
(* service up and copies the snapshot files of the pod it names; s3-upload *)
(* stores what was copied.  Between two containers anything may happen to  *)
(* the cluster: another main, another selector, an instance that is        *)
(* replaced or crashes, the loss of the Job's own pod.  Of all that the    *)
(* Job sees only the service and the data and files of the instances, so   *)
(* these move freely here.                                                 *)
(*                                                                         *)
(* A snapshot file is the set of commits it was taken of.  The CronJob     *)
(* forbids concurrent Jobs, so there is one at a time.                     *)
(***************************************************************************)
EXTENDS FiniteSets

CONSTANTS
    Instances,      \* pods of the StatefulSet
    NoPod,          \* the write service names none of them, or is not there
    Commits,        \* bound: the commits that may happen
    Truncated       \* a file whose copy broke off

ASSUME RouteAssumption == NoPod \notin Instances

ASSUME FileAssumption == \A snapshot \in SUBSET Commits : snapshot # Truncated

Stages == {"none", "create", "copy", "upload", "complete", "failed"}

VARIABLES
    svc,            \* pod name in the selector of the write service
    proxied,        \* the selector its endpoints were last made of
    data,           \* the commits of each instance
    files,          \* snapshot files on the volume of each instance
    newest,         \* the newest of them, {}: there is none
    stage,          \* the container of the Job's pod that runs
    toS3,           \* spec.snapshot.s3.enabled when the pod was built
    volume,         \* the snapshots directory of the Job's emptyDir
    backup,         \* what the Job stored under its timestamp
    routes,         \* values of svc and proxied while it ran, for the properties
    atStart,        \* what the write service led to when it started, same
    disturbed       \* a copy of it failed or an instance lost commits, same

jobVars == <<stage, toS3, volume, backup, routes, atStart, disturbed>>
vars == <<svc, proxied, data, files, newest, jobVars>>

Running == stage \in {"create", "copy", "upload"}

TypeOK ==
    /\ svc \in Instances \cup {NoPod}
    /\ proxied \in Instances \cup {NoPod}
    /\ data \in [Instances -> SUBSET Commits]
    /\ files \in [Instances -> SUBSET SUBSET Commits]
    /\ newest \in [Instances -> SUBSET SUBSET Commits]
    /\ \A p \in Instances : newest[p] \subseteq files[p]
    /\ stage \in Stages
    /\ toS3 \in BOOLEAN
    /\ volume \ {Truncated} \subseteq SUBSET Commits
    /\ volume # {} => toS3
    /\ backup \ {Truncated} \subseteq SUBSET Commits
    /\ routes \subseteq Instances \cup {NoPod}
    /\ atStart \subseteq Commits
    /\ disturbed \in BOOLEAN

Init ==
    /\ svc = NoPod
    /\ proxied = NoPod
    /\ data = [p \in Instances |-> {}]
    /\ files = [p \in Instances |-> {}]
    /\ newest = [p \in Instances |-> {}]
    /\ stage = "none"
    /\ toS3 = FALSE
    /\ volume = {}
    /\ backup = {}
    /\ routes = {}
    /\ atStart = {}
    /\ disturbed = FALSE

-----------------------------------------------------------------------------
(* The Job.                                                                *)

\* Mutant of StartJob: the volume outlives the pod.
MutantVolumeKept(s3) ==
    /\ ~Running
    /\ stage' = "create"
    /\ toS3' = s3
    /\ backup' = {}
    /\ routes' = {svc, proxied}
    /\ atStart' = IF svc \in Instances THEN data[svc] ELSE {}
    /\ disturbed' = FALSE
    /\ UNCHANGED <<svc, proxied, data, files, newest, volume>>

StartJob(s3) ==
    /\ ~Running
    /\ stage' = "create"
    /\ toS3' = s3
    /\ volume' = {}
    /\ backup' = {}
    /\ routes' = {svc, proxied}
    /\ atStart' = IF svc \in Instances THEN data[svc] ELSE {}
    /\ disturbed' = FALSE
    /\ UNCHANGED <<svc, proxied, data, files, newest>>

\* The pods the write service leads to; without a pod name its selector has
\* only the labels of the cluster.
Endpoints == {p \in Instances : proxied \in {p, NoPod}}

Snapshot(p) ==
    /\ files' = [files EXCEPT ![p] = @ \cup {data[p]}]
    /\ newest' = [newest EXCEPT ![p] = {data[p]}]

\* Mutant of CreateSnapshot: without set -e a failed CREATE SNAPSHOT is
\* reported as success.
MutantFailureIgnored(p) ==
    /\ stage = "create"
    /\ p \in Endpoints
    /\ Snapshot(p) \/ UNCHANGED <<files, newest>>
    /\ stage' = IF toS3 THEN "copy" ELSE "complete"
    /\ UNCHANGED <<svc, proxied, data, toS3, volume, backup, routes, atStart,
                   disturbed>>

\* mgconsole on the host name of the write service.  Without S3 the only
\* container left echoes that the Job completed.  A query that fails ends
\* the container, which is started again.
CreateSnapshot(p) ==
    /\ stage = "create"
    /\ p \in Endpoints
    /\ Snapshot(p)
    /\ stage' = IF toS3 THEN "copy" ELSE "complete"
    /\ UNCHANGED <<svc, proxied, data, toS3, volume, backup, routes, atStart,
                   disturbed>>

\* Mutant of WritePod: the first pod that runs is taken at once.
MutantFirstRunning == Instances

\* The pod the service names; else the first one that runs, any of them, ready
\* or not.  If none runs, the container ends (set -e) and is started again.
WritePod == IF svc \in Instances THEN {svc} ELSE Instances

\* The copy replaces files of the same name, a truncated one too.
CopySnapshots(p) ==
    /\ stage = "copy"
    /\ p \in WritePod
    /\ volume' \in {volume \cup files[p], (volume \ {Truncated}) \cup files[p]}
    /\ stage' = "upload"
    /\ UNCHANGED <<svc, proxied, data, files, newest, toS3, backup, routes,
                   atStart, disturbed>>

\* Only some files of a pod are copied: it cannot be reached, or a file is
\* removed while the others are read.  Or all of them, of another pod: the
\* error of a service that cannot be read is swallowed and the first running
\* pod taken.
CopyMisses(p) ==
    /\ stage = "copy"
    /\ \E some \in SUBSET files[p] : volume' = volume \cup some
    /\ disturbed' = TRUE
    /\ stage' = "upload"
    /\ UNCHANGED <<svc, proxied, data, files, newest, toS3, backup, routes,
                   atStart>>

\* The stream breaks off in the middle of a file: what tar has written of it
\* stays, in place of a whole one that an earlier attempt has copied.  The
\* container prints a warning and succeeds.
CopyIsCutShort(p) ==
    /\ stage = "copy"
    /\ \E some \in SUBSET files[p], cut \in files[p] :
         /\ cut \notin some
         /\ volume' = (volume \ {cut}) \cup some \cup {Truncated}
    /\ disturbed' = TRUE
    /\ stage' = "upload"
    /\ UNCHANGED <<svc, proxied, data, files, newest, toS3, backup, routes,
                   atStart>>

\* ls -A of the directory.
HasFiles == volume # {}

\* Without files the container exits 1 and is started again, for nothing.
UploadSnapshots ==
    /\ stage = "upload"
    /\ HasFiles
    /\ backup' = volume
    /\ stage' = "complete"
    /\ UNCHANGED <<svc, proxied, data, files, newest, toS3, volume, routes,
                   atStart, disturbed>>

\* The Job's pod is replaced, and with it the emptyDir; or its sandbox is,
\* and the init containers run again over what they copied.
RestartJobPod ==
    /\ stage \in {"copy", "upload"}
    /\ stage' = "create"
    /\ volume' \in {{}, volume}
    /\ UNCHANGED <<svc, proxied, data, files, newest, toS3, backup, routes,
                   atStart, disturbed>>

\* activeDeadlineSeconds.
ExceedDeadline ==
    /\ Running
    /\ stage' = "failed"
    /\ UNCHANGED <<svc, proxied, data, files, newest, toS3, volume, backup,
                   routes, atStart, disturbed>>

JobStep ==
    \/ \E s3 \in BOOLEAN : StartJob(s3)
    \/ \E p \in Instances : \/ CreateSnapshot(p) \/ CopySnapshots(p)
                            \/ CopyMisses(p) \/ CopyIsCutShort(p)
    \/ UploadSnapshots \/ RestartJobPod \/ ExceedDeadline

-----------------------------------------------------------------------------
(* The cluster.                                                            *)

\* The operator points the write service at another pod.
Route(s) ==
    /\ svc' = s
    /\ routes' = IF Running THEN routes \cup {s} ELSE routes
    /\ UNCHANGED <<proxied, data, files, newest, stage, toS3, volume, backup,
                   atStart, disturbed>>

\* The endpoints follow the selector.
Proxy ==
    /\ proxied' = svc
    /\ UNCHANGED <<svc, data, files, newest, jobVars>>

\* A write, or a commit streamed from the main.
Grow(p, c) ==
    /\ data' = [data EXCEPT ![p] = @ \cup {c}]
    /\ UNCHANGED <<svc, proxied, files, newest, jobVars>>

\* A crash takes the commits that the write-ahead log had not flushed.
LoseCommits(p, kept) ==
    /\ kept \subseteq data[p] /\ kept # data[p]
    /\ data' = [data EXCEPT ![p] = kept]
    /\ disturbed' = (disturbed \/ Running)
    /\ UNCHANGED <<svc, proxied, files, newest, stage, toS3, volume, backup,
                   routes, atStart>>

\* The preStop hook of a pod that is replaced, and Memgraph on its own.
TakeSnapshot(p) ==
    /\ Snapshot(p)
    /\ UNCHANGED <<svc, proxied, data, jobVars>>

\* --storage-snapshot-retention-count: the newest file is kept.
ExpireSnapshot(p) ==
    /\ \E old \in files[p] \ newest[p] : files' = [files EXCEPT ![p] = @ \ {old}]
    /\ UNCHANGED <<svc, proxied, data, newest, jobVars>>

ClusterStep ==
    \/ \E s \in Instances \cup {NoPod} : Route(s)
    \/ Proxy
    \/ \E p \in Instances : TakeSnapshot(p) \/ ExpireSnapshot(p)
    \/ \E p \in Instances, c \in Commits : Grow(p, c)
    \/ \E p \in Instances, kept \in SUBSET Commits : LoseCommits(p, kept)

Next == JobStep \/ ClusterStep

Spec == Init /\ [][Next]_vars

-----------------------------------------------------------------------------
(* Properties.                                                             *)

\* A snapshot that can be restored, with all the service led to at the start.
HasSnapshot(place) ==
    \E snapshot \in place \ {Truncated} : atStart \subseteq snapshot

\* While the write service selects one and the same instance, no copy fails
\* and no commit is lost in a crash, a completed backup has a snapshot with
\* every commit that instance had when the Job started, however often the
\* Job's pod or the instance was replaced in between and whatever files
\* Memgraph itself wrote or removed.  With a failover between the containers
\* it need not: the files are those of the new main.
BackupHoldsWhatTheMainHad ==
    stage = "complete" /\ toS3 /\ ~disturbed
        => \A p \in Instances : routes = {p} => HasSnapshot(backup)

\* What it rests on: from create-snapshot on, the newest file of the instance,
\* which retention does not take away, has those commits, and from
\* copy-snapshots on the volume has such a file.
JobInv ==
    \A p \in Instances : routes = {p} =>
        /\ Running => svc = p /\ proxied = p
        /\ ~disturbed =>
              /\ Running => atStart \subseteq data[p]
              /\ stage \in {"copy", "upload"} => HasSnapshot(newest[p])
              /\ stage = "upload" => HasSnapshot(volume)
              /\ stage = "complete" /\ toS3 => HasSnapshot(backup)

\* The doc of lastSnapshotTime: a completed Job is a successful snapshot, so
\* with S3 there is one in the backup that can be restored.
CompletedBackupIsUsable ==
    stage = "complete" /\ toS3 => \E snapshot \in backup : snapshot # Truncated
=============================================================================
