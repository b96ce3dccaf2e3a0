------------------------- MODULE SnapshotJobProofs -------------------------
(***************************************************************************)
(* What a completed backup holds, for any number of instances and commits. *)
(*                                                                         *)
(* BackupHoldsWhatTheMainHad is not inductive: it speaks of the end of the *)
(* Job only.  JobInv adds the way there, from the newest file of the       *)
(* instance over the emptyDir of the Job to the backup.                    *)
(***************************************************************************)
EXTENDS SnapshotJob, TLAPS

\* The containers that copy and upload exist only with S3.
StagesInv == stage \in {"copy", "upload"} => toS3

\* The routes of a running Job include the present one, of the selector and
\* of the endpoints.
RoutedInv == Running => svc \in routes /\ proxied \in routes

LEMMA TypeStarts == Init => TypeOK /\ StagesInv /\ RoutedInv
<1> SUFFICES ASSUME Init PROVE TypeOK /\ StagesInv /\ RoutedInv
  OBVIOUS
<1>1. toS3 \in BOOLEAN /\ disturbed \in BOOLEAN
  BY Zenon DEF Init
<1>2. TypeOK
  BY <1>1 DEF Init, TypeOK, Stages
<1> QED
  BY <1>2 DEF Init, StagesInv, RoutedInv, Running

\* A snapshot of p is its newest file.
LEMMA SnapshotTypes ==
    ASSUME TypeOK, NEW p \in Instances, Snapshot(p)
    PROVE  /\ files' \in [Instances -> SUBSET SUBSET Commits]
           /\ newest' \in [Instances -> SUBSET SUBSET Commits]
           /\ \A q \in Instances : newest'[q] \subseteq files'[q]
           /\ newest'[p] = {data[p]}
           /\ \A q \in Instances \ {p} : newest'[q] = newest[q]
BY DEF TypeOK, Snapshot

LEMMA TypeStep ==
    TypeOK /\ StagesInv /\ RoutedInv /\ [Next]_vars
        => TypeOK' /\ StagesInv' /\ RoutedInv'
<1> DEFINE Inv == TypeOK /\ StagesInv /\ RoutedInv
<1> SUFFICES ASSUME TypeOK, StagesInv, RoutedInv, [Next]_vars PROVE Inv'
  OBVIOUS
<1> USE DEF TypeOK, StagesInv, RoutedInv, Running, Stages
<1>1. CASE UNCHANGED vars
  BY <1>1 DEF vars, jobVars
<1>2. ASSUME NEW s3 \in BOOLEAN, StartJob(s3) PROVE Inv'
  BY <1>2 DEF StartJob
<1>3. ASSUME NEW p \in Instances, CreateSnapshot(p) PROVE Inv'
  BY <1>3, SnapshotTypes DEF CreateSnapshot
<1>4. ASSUME NEW p \in Instances, CopySnapshots(p) PROVE Inv'
  BY <1>4 DEF CopySnapshots
<1>5. ASSUME NEW p \in Instances, CopyMisses(p) PROVE Inv'
  <2>1. PICK some \in SUBSET files[p] : volume' = volume \cup some
    BY <1>5 DEF CopyMisses
  <2>2. volume' \ {Truncated} \subseteq SUBSET Commits
    BY <2>1
  <2> QED
    BY <1>5, <2>2 DEF CopyMisses
<1>6. ASSUME NEW p \in Instances, CopyIsCutShort(p) PROVE Inv'
  <2>1. PICK some \in SUBSET files[p], cut \in files[p] :
          volume' = (volume \ {cut}) \cup some \cup {Truncated}
    BY <1>6 DEF CopyIsCutShort
  <2>2. volume' \ {Truncated} \subseteq SUBSET Commits
    BY <2>1
  <2> QED
    BY <1>6, <2>2 DEF CopyIsCutShort
<1>7. CASE UploadSnapshots
  BY <1>7 DEF UploadSnapshots
<1>8. CASE RestartJobPod
  BY <1>8 DEF RestartJobPod
<1>9. CASE ExceedDeadline
  BY <1>9 DEF ExceedDeadline
<1>10. ASSUME NEW s \in Instances \cup {NoPod}, Route(s) PROVE Inv'
  BY <1>10 DEF Route
<1>11. CASE Proxy
  BY <1>11 DEF Proxy, jobVars
<1>12. ASSUME NEW p \in Instances, TakeSnapshot(p) PROVE Inv'
  BY <1>12, SnapshotTypes DEF TakeSnapshot, jobVars
<1>13. ASSUME NEW p \in Instances, ExpireSnapshot(p) PROVE Inv'
  BY <1>13 DEF ExpireSnapshot, jobVars
<1>14. ASSUME NEW p \in Instances, NEW c \in Commits, Grow(p, c) PROVE Inv'
  BY <1>14 DEF Grow, jobVars
<1>15. ASSUME NEW p \in Instances, NEW kept \in SUBSET Commits, LoseCommits(p, kept)
       PROVE Inv'
  <2>1. disturbed' \in BOOLEAN
    BY <1>15, Zenon DEF LoseCommits
  <2> QED
    BY <1>15, <2>1 DEF LoseCommits
<1> QED
  BY <1>1, <1>2, <1>3, <1>4, <1>5, <1>6, <1>7, <1>8, <1>9, <1>10, <1>11, <1>12,
     <1>13, <1>14, <1>15 DEF Next, JobStep, ClusterStep

-----------------------------------------------------------------------------
(* Following the snapshot.                                                 *)

\* JobInv for one instance.
JobInvOf(p) ==
    /\ Running => svc = p /\ proxied = p
    /\ ~disturbed =>
          /\ Running => atStart \subseteq data[p]
          /\ stage \in {"copy", "upload"} => HasSnapshot(newest[p])
          /\ stage = "upload" => HasSnapshot(volume)
          /\ stage = "complete" /\ toS3 => HasSnapshot(backup)

LEMMA JobInvIsJobInvOf ==
    JobInv <=> \A p \in Instances : routes = {p} => JobInvOf(p)
BY DEF JobInv, JobInvOf

\* A new snapshot of the instance has what the instance has.
LEMMA NewestKeeps ==
    ASSUME TypeOK, NEW p \in Instances, NEW q \in Instances, Snapshot(q),
           UNCHANGED atStart, atStart \subseteq data[p],
           q = p \/ HasSnapshot(newest[p])
    PROVE  HasSnapshot(newest[p])'
<1>1. CASE q = p
  <2>1. data[p] # Truncated /\ data[p] \in newest'[p]
    BY <1>1, SnapshotTypes, FileAssumption DEF TypeOK
  <2> QED
    BY <2>1 DEF HasSnapshot
<1>2. CASE q # p
  <2>1. newest'[p] = newest[p]
    BY <1>2, SnapshotTypes
  <2> QED
    BY <1>2, <2>1 DEF HasSnapshot
<1> QED
  BY <1>1, <1>2

LEMMA JobInvStep ==
    ASSUME TypeOK, RoutedInv, JobInv, [Next]_vars, NEW p \in Instances, routes' = {p}
    PROVE  JobInvOf(p)'
<1>0. routes = {p} => JobInvOf(p)
  BY JobInvIsJobInvOf
<1>1. CASE UNCHANGED vars
  BY <1>0, <1>1 DEF vars, jobVars, JobInvOf, Running, HasSnapshot
<1>2. ASSUME NEW s3 \in BOOLEAN, StartJob(s3) PROVE JobInvOf(p)'
  BY <1>2 DEF StartJob, JobInvOf, Running, TypeOK
<1>3. ASSUME NEW q \in Instances, CreateSnapshot(q) PROVE JobInvOf(p)'
  <2>1. /\ svc = p /\ proxied = p /\ (~disturbed => atStart \subseteq data[p])
        /\ UNCHANGED <<svc, proxied, data, atStart, toS3, disturbed>>
    BY <1>0, <1>3 DEF CreateSnapshot, JobInvOf, Running
  <2>2. q = p
    BY <1>3, <2>1, RouteAssumption DEF CreateSnapshot, Endpoints
  <2>3. ~disturbed => HasSnapshot(newest[p])'
    BY <1>3, <2>1, <2>2, NewestKeeps DEF CreateSnapshot
  <2>4. stage' = "copy" \/ (stage' = "complete" /\ ~toS3)
    BY <1>3 DEF CreateSnapshot
  <2> QED
    BY <2>1, <2>3, <2>4 DEF JobInvOf, Running
<1>4. ASSUME NEW q \in Instances, CopySnapshots(q) PROVE JobInvOf(p)'
  <2>1. /\ svc = p /\ proxied = p
        /\ ~disturbed => HasSnapshot(newest[p]) /\ atStart \subseteq data[p]
        /\ UNCHANGED <<svc, proxied, data, newest, atStart, disturbed>>
        /\ stage' = "upload"
        /\ files[q] \subseteq volume'
    BY <1>0, <1>4 DEF CopySnapshots, JobInvOf, Running
  <2>2. q = p
    BY <1>4, <2>1 DEF CopySnapshots, WritePod
  <2>3. newest[p] \subseteq volume'
    BY <2>1, <2>2 DEF TypeOK
  <2>4. ~disturbed => HasSnapshot(newest[p])' /\ HasSnapshot(volume)'
    BY <2>1, <2>3 DEF HasSnapshot
  <2> QED
    BY <2>1, <2>4 DEF JobInvOf, Running
<1>5. ASSUME NEW q \in Instances, CopyMisses(q) PROVE JobInvOf(p)'
  BY <1>0, <1>5 DEF CopyMisses, JobInvOf, Running
<1>6. ASSUME NEW q \in Instances, CopyIsCutShort(q) PROVE JobInvOf(p)'
  BY <1>0, <1>6 DEF CopyIsCutShort, JobInvOf, Running
<1>7. CASE UploadSnapshots
  BY <1>0, <1>7 DEF UploadSnapshots, JobInvOf, Running, HasSnapshot
<1>8. CASE RestartJobPod
  BY <1>0, <1>8 DEF RestartJobPod, JobInvOf, Running, HasSnapshot
<1>9. CASE ExceedDeadline
  BY <1>9 DEF ExceedDeadline, JobInvOf, Running
<1>10. ASSUME NEW s \in Instances \cup {NoPod}, Route(s) PROVE JobInvOf(p)'
  <2>1. CASE Running
    <3>1. s = p /\ routes \subseteq {p} /\ stage' = stage
      BY <1>10, <2>1 DEF Route
    <3>2. routes = {p}
      BY <2>1, <3>1 DEF RoutedInv
    <3> QED
      BY <1>0, <1>10, <3>1, <3>2 DEF Route, JobInvOf, Running, HasSnapshot
  <2>2. CASE ~Running
    BY <1>0, <1>10, <2>2 DEF Route, JobInvOf, Running, HasSnapshot
  <2> QED
    BY <2>1, <2>2
<1>11. CASE Proxy
  BY <1>0, <1>11 DEF Proxy, jobVars, JobInvOf, Running, HasSnapshot
<1>12. ASSUME NEW q \in Instances, TakeSnapshot(q) PROVE JobInvOf(p)'
  <2>1. UNCHANGED <<svc, proxied, data, jobVars>>
    BY <1>12 DEF TakeSnapshot
  <2>2. JobInvOf(p)
    BY <1>0, <2>1 DEF jobVars
  <2>3. stage \in {"copy", "upload"} /\ ~disturbed => HasSnapshot(newest[p])'
    BY <1>12, <2>1, <2>2, NewestKeeps DEF TakeSnapshot, jobVars, JobInvOf, Running
  <2> QED
    BY <2>1, <2>2, <2>3 DEF jobVars, JobInvOf, Running, HasSnapshot
<1>13. ASSUME NEW q \in Instances, ExpireSnapshot(q) PROVE JobInvOf(p)'
  BY <1>0, <1>13 DEF ExpireSnapshot, jobVars, JobInvOf, Running, HasSnapshot
<1>14. ASSUME NEW q \in Instances, NEW c \in Commits, Grow(q, c) PROVE JobInvOf(p)'
  <2>1. data[p] \subseteq data'[p]
    BY <1>14 DEF Grow, TypeOK
  <2> QED
    BY <1>0, <1>14, <2>1 DEF Grow, jobVars, JobInvOf, Running, HasSnapshot
<1>15. ASSUME NEW q \in Instances, NEW kept \in SUBSET Commits, LoseCommits(q, kept)
       PROVE JobInvOf(p)'
  <2>1. CASE Running
    BY <1>0, <1>15, <2>1 DEF LoseCommits, JobInvOf, Running
  <2>2. CASE ~Running
    <3>1. disturbed' = disturbed
      BY <1>15, <2>2 DEF LoseCommits, TypeOK
    <3> QED
      BY <1>0, <1>15, <2>2, <3>1 DEF LoseCommits, JobInvOf, Running, HasSnapshot
  <2> QED
    BY <2>1, <2>2
<1> QED
  BY <1>1, <1>2, <1>3, <1>4, <1>5, <1>6, <1>7, <1>8, <1>9, <1>10, <1>11, <1>12,
     <1>13, <1>14, <1>15 DEF Next, JobStep, ClusterStep

-----------------------------------------------------------------------------
(* Theorems.                                                               *)

SnapshotInv == TypeOK /\ StagesInv /\ RoutedInv /\ JobInv

LEMMA SnapshotInvHolds == Spec => []SnapshotInv
<1>1. Init => SnapshotInv
  <2>1. Init => JobInv
    BY DEF Init, JobInv, Running
  <2> QED
    BY <2>1, TypeStarts DEF SnapshotInv
<1>2. SnapshotInv /\ [Next]_vars => SnapshotInv'
  <2> SUFFICES ASSUME SnapshotInv, [Next]_vars PROVE SnapshotInv'
    OBVIOUS
  <2>1. TypeOK' /\ StagesInv' /\ RoutedInv'
    BY TypeStep DEF SnapshotInv
  <2>2. \A p \in Instances : routes' = {p} => JobInvOf(p)'
    BY JobInvStep DEF SnapshotInv
  <2>3. JobInv'
    BY <2>2 DEF JobInv, JobInvOf
  <2> QED
    BY <2>1, <2>3 DEF SnapshotInv
<1> QED
  BY <1>1, <1>2, PTL DEF Spec

\* The Job's pod keeps its variables in their types; what is on the emptyDir
\* was copied by a Job that uploads.
THEOREM JobTypes == Spec => []TypeOK
<1>1. SnapshotInv => TypeOK
  BY DEF SnapshotInv
<1> QED
  BY <1>1, SnapshotInvHolds, PTL

\* The snapshot is on the instance after create-snapshot, on the emptyDir
\* after copy-snapshots and in the backup after s3-upload.
THEOREM SnapshotIsPassedOn == Spec => []JobInv
<1>1. SnapshotInv => JobInv
  BY DEF SnapshotInv
<1> QED
  BY <1>1, SnapshotInvHolds, PTL

\* Unless the write service moved, a copy failed or a crash took commits, the
\* backup has a snapshot with everything its instance had when the Job started.
THEOREM BackupIsComplete == Spec => []BackupHoldsWhatTheMainHad
<1>1. SnapshotInv => BackupHoldsWhatTheMainHad
  BY DEF SnapshotInv, JobInv, HasSnapshot, BackupHoldsWhatTheMainHad
<1> QED
  BY <1>1, SnapshotInvHolds, PTL
=============================================================================
