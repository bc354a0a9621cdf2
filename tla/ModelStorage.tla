----------------------------- MODULE ModelStorage -----------------------------
(***************************************************************************)
(* The model store of one node (model_storage.py): the jobs that bring a   *)
(* snapshot of an artifact into staging, hash it and commit it, the files  *)
(* of the store, and the registry that makes committed snapshots visible.  *)
(*                                                                         *)
(* A job is a task of the event loop that awaits worker threads.  A cancel *)
(* ends the task at once; the thread it was waiting for goes on.  Handlers *)
(* without an await (delete, verify, clean, change of root) are one action *)
(* each, unless the process dies inside.                                   *)
(***************************************************************************)
EXTENDS Naturals, FiniteSets

CONSTANTS
    Jobs,            \* job ids, each used once
    Artifacts, Snapshots,
    Roots,           \* directories the store may be moved to
    None,            \* no snapshot, no root, no job
    SerialDeletes,   \* TRUE: no artifact is deleted while a job commits to it
    MaxCrashes,      \* how often the process dies (bound)
    MaxDiskFailures  \* how often a registry cannot be written (bound)

ASSUME ConstantsAssumption ==
    /\ Artifacts # {} /\ Snapshots # {} /\ Roots # {}
    /\ None \notin Jobs \cup Snapshots \cup Roots
    /\ SerialDeletes \in BOOLEAN
    /\ MaxCrashes \in Nat /\ MaxDiskFailures \in Nat

VARIABLES
    root,      \* the store's root directory, in node.json
    registry,  \* models.json: the snapshots of each artifact
    files,     \* the snapshot directories below every root
    staging,   \* the staging directory of each job
    job,       \* model_jobs.json
    task,      \* what each job's task awaits
    thread,    \* what the thread behind the task does
    torn,      \* artifacts whose deletion broke off (history)
    crashes, diskFailures

faults == <<crashes, diskFailures>>
vars   == <<root, registry, files, staging, job, task, thread, torn, faults>>

ActiveJobStates == {"queued", "running", "hashing", "verifying"}
EndStates       == {"ready", "failed", "failed_interrupted", "canceled"}

Job   == [state: ActiveJobStates \cup EndStates \cup {"none"},
          art: Artifacts, snap: Snapshots, root: Roots]
NoJob == [state |-> "none", art |-> CHOOSE a \in Artifacts : TRUE,
          snap |-> CHOOSE s \in Snapshots : TRUE, root |-> CHOOSE r \in Roots : TRUE]

(* An artifact: the root of each snapshot, the root of the directory that  *)
(* holds the artifact, the active snapshot, those found damaged.           *)
Artifact   == [at: [Snapshots -> Roots \cup {None}], path: Roots \cup {None},
               active: Snapshots \cup {None}, degraded: SUBSET Snapshots]
NoArtifact == [at |-> [s \in Snapshots |-> None], path |-> None,
               active |-> None, degraded |-> {}]
Registered(a, s)  == registry[a].at[s] # None
SnapshotsOf(a)    == {s \in Snapshots : Registered(a, s)}

(* A snapshot directory: the payload, its manifest, or both, and the job   *)
(* they came from.                                                         *)
Dirs   == Roots \X Artifacts \X Snapshots
Dir    == [has: SUBSET {"payload", "manifest"}, by: Jobs \cup {None}]
NoDir  == [has |-> {}, by |-> None]
Complete == {"payload", "manifest"}
DirOf(a, s) == <<registry[a].at[s], a, s>>

Active(j)   == job[j].state \in ActiveJobStates
Goal(j)     == <<thread[j].root, job[j].art, job[j].snap>>
Idle        == [at |-> "none", root |-> CHOOSE r \in Roots : TRUE]
Committing  == {"check", "replace", "manifest", "done"}

Init ==
    /\ root \in Roots
    /\ registry = [a \in Artifacts |-> NoArtifact]
    /\ files = [d \in Dirs |-> NoDir]
    /\ staging = [j \in Jobs |-> "absent"]
    /\ job = [j \in Jobs |-> NoJob]
    /\ task = [j \in Jobs |-> "none"]
    /\ thread = [j \in Jobs |-> Idle]
    /\ torn = {}
    /\ crashes = 0 /\ diskFailures = 0

-----------------------------------------------------------------------------
(* start_import_job, start_download_job, cancel_job, clean_job_staging     *)

(* _assert_artifact_snapshot_available: other jobs are not looked at.      *)
Available(a, s) == ~Registered(a, s) /\ files[<<root, a, s>>].has = {}

StartJob(j, a, s) ==
    /\ job[j].state = "none"
    /\ Available(a, s)
    /\ job' = [job EXCEPT ![j] = [state |-> "queued", art |-> a, snap |-> s,
                                  root |-> root]]
    /\ task' = [task EXCEPT ![j] = "begin"]
    /\ UNCHANGED <<root, registry, files, staging, thread, torn, faults>>

(* Variant: a task that waits for its commit is not disturbed.             *)
TaskAfterCancelSpared(j) == IF task[j] = "commit" THEN task[j] ELSE "none"

TaskAfterCancel(j) == "none"

(* The event is set, the task ends with CancelledError at its await.       *)
CancelJob(j) ==
    /\ Active(j)
    /\ job' = [job EXCEPT ![j].state = "canceled"]
    /\ task' = [task EXCEPT ![j] = TaskAfterCancel(j)]
    /\ UNCHANGED <<root, registry, files, staging, thread, torn, faults>>

CleanJobStaging(j) ==
    /\ job[j].state \in EndStates
    /\ staging' = [staging EXCEPT ![j] = "absent"]
    /\ UNCHANGED <<root, registry, files, job, task, thread, torn, faults>>

-----------------------------------------------------------------------------
(* _run_import_job, _run_download_job, _hash_and_commit_payload            *)

DiskFails ==
    /\ diskFailures < MaxDiskFailures
    /\ diskFailures' = diskFailures + 1
    /\ UNCHANGED crashes

Patch(j, state) == job' = [job EXCEPT ![j].state = state] /\ UNCHANGED faults

Goto(j, at, threadAt) ==
    /\ task' = [task EXCEPT ![j] = at]
    /\ thread' = [thread EXCEPT ![j] = [Idle EXCEPT !.at = threadAt]]

(* Variant: the exception is not recorded.                                 *)
FailUnrecorded(j) == UNCHANGED <<job, faults>> /\ Goto(j, "none", "none")

(* An exception becomes the state failed; if that cannot be recorded the   *)
(* job stays as it was.                                                    *)
Fail(j) ==
    /\ \/ Patch(j, "failed")
       \/ DiskFails /\ UNCHANGED job
    /\ Goto(j, "none", "none")

JobFails(j) ==
    /\ task[j] \in {"begin", "fetch", "hash"}
    /\ Fail(j)
    /\ staging' \in {staging, [staging EXCEPT ![j] = "partial"]}
    /\ UNCHANGED <<root, registry, files, torn>>

BeginJob(j) ==
    /\ task[j] = "begin"
    /\ Patch(j, "running")
    /\ staging' = [staging EXCEPT ![j] = "partial"]
    /\ Goto(j, "fetch", "fetch")
    /\ UNCHANGED <<root, registry, files, torn>>

(* The payload is in staging and has at least one file; hashing begins.    *)
Fetched(j) ==
    /\ task[j] = "fetch"
    /\ Patch(j, "hashing")
    /\ staging' = [staging EXCEPT ![j] = "full"]
    /\ Goto(j, "hash", "none")
    /\ UNCHANGED <<root, registry, files, torn>>

(* The destination is below the root of this moment.                       *)
Hashed(j) ==
    /\ task[j] = "hash"
    /\ Patch(j, "verifying")
    /\ task' = [task EXCEPT ![j] = "commit"]
    /\ thread' = [thread EXCEPT ![j] = [at |-> "check", root |-> root]]
    /\ UNCHANGED <<root, registry, files, staging, torn>>

(* Variant: the snapshot goes where another may be already.                *)
MayReplaceAny(j) == staging[j] = "full"

(* os.replace of a directory fails where the target is not empty.          *)
MayReplace(j) == staging[j] = "full" /\ files[Goal(j)].has = {}

ThreadGoes(j, at) == thread' = [thread EXCEPT ![j].at = at]

(* _commit_payload, in a thread.  Every step may fail.                     *)
CommitCheck(j) ==
    /\ thread[j].at = "check"
    /\ ThreadGoes(j, IF files[Goal(j)].has # {} THEN "failed" ELSE "replace")
    /\ UNCHANGED <<root, registry, files, staging, job, task, torn, faults>>

CommitReplace(j) ==
    /\ thread[j].at = "replace"
    /\ MayReplace(j)
    /\ files' = [files EXCEPT ![Goal(j)] = [has |-> {"payload"}, by |-> j]]
    /\ staging' = [staging EXCEPT ![j] = "partial"]
    /\ ThreadGoes(j, "manifest")
    /\ UNCHANGED <<root, registry, job, task, torn, faults>>

(* The manifest's directory is made again if it is gone.                   *)
CommitManifest(j) ==
    /\ thread[j].at = "manifest"
    /\ files' = [files EXCEPT ![Goal(j)].has = @ \cup {"manifest"}, ![Goal(j)].by = j]
    /\ ThreadGoes(j, "done")
    /\ UNCHANGED <<root, registry, staging, job, task, torn, faults>>

CommitFails(j) ==
    /\ thread[j].at \in {"check", "replace", "manifest"}
    /\ ThreadGoes(j, "failed")
    /\ UNCHANGED <<root, registry, files, staging, job, task, torn, faults>>

(* The registry with the committed snapshot, which becomes the active one. *)
Registering(j) ==
    LET a == job[j].art  s == job[j].snap  r == thread[j].root IN
    [registry EXCEPT ![a].at[s] = r, ![a].path = r, ![a].active = s,
                     ![a].degraded = @ \ {s}]

(* Variant: the task goes on as soon as the payload is in place.           *)
CommittedEarly(j) == thread[j].at \in {"manifest", "done"}

Committed(j) == thread[j].at = "done"

(* The task goes on behind its commit: staging is removed, the snapshot is *)
(* registered, the job is recorded as ready.                               *)
Commit(j) ==
    /\ task[j] = "commit" /\ Committed(j)
    /\ staging' = [staging EXCEPT ![j] = "absent"]
    /\ Goto(j, "none", "none")
    /\ \/ registry' = Registering(j) /\ Patch(j, "ready")
       \/ /\ DiskFails
          /\ registry' \in {registry, Registering(j)}
          /\ job' = [job EXCEPT ![j].state = "failed"] \/ UNCHANGED job
    /\ UNCHANGED <<root, files, torn>>

CommitFailed(j) ==
    /\ task[j] = "commit" /\ thread[j].at = "failed"
    /\ Fail(j)
    /\ UNCHANGED <<root, registry, files, staging, torn>>

(* What remains of a canceled job: the thread writes once more into its    *)
(* staging directory, which it makes if need be, or ends.                  *)
LateWrite(j) ==
    /\ task[j] = "none" /\ thread[j].at = "fetch"
    /\ staging' = [staging EXCEPT ![j] = "partial"]
    /\ UNCHANGED <<root, registry, files, job, task, thread, torn, faults>>

ThreadEnds(j) ==
    /\ task[j] = "none" /\ thread[j].at \in {"fetch", "check", "done", "failed"}
    /\ thread' = [thread EXCEPT ![j] = Idle]
    /\ UNCHANGED <<root, registry, files, staging, job, task, torn, faults>>

-----------------------------------------------------------------------------
(* delete_artifact, verify_artifact, update_storage_root.  Profiles that   *)
(* refer to the model may refuse a deletion, which is then no step.        *)

HasManifest(a, s) == "manifest" \in files[DirOf(a, s)].has

Undisturbed(a) ==
    SerialDeletes => \A j \in Jobs :
        ~(job[j].art = a /\ thread[j].at \in Committing)

(* Variant: any snapshot may be deleted without a replacement.             *)
AnyReplacement(a, s, new) == new = registry[a].active

(* Deleting the active snapshot of several needs another active one.       *)
Replacement(a, s, new) ==
    IF registry[a].active = s /\ SnapshotsOf(a) # {s}
    THEN new \in SnapshotsOf(a) \ {s} ELSE new = registry[a].active

MayDeleteSnapshot(a, s, new) ==
    /\ Registered(a, s) /\ HasManifest(a, s)
    /\ Replacement(a, s, new)

WithoutSnapshot(a, s, new) ==
    IF SnapshotsOf(a) = {s} THEN NoArtifact
    ELSE [registry[a] EXCEPT !.at[s] = None, !.active = new, !.degraded = @ \ {s}]

DeleteSnapshot(a, s, new) ==
    /\ MayDeleteSnapshot(a, s, new)
    /\ files' = [files EXCEPT ![DirOf(a, s)] = NoDir]
    /\ registry' = [registry EXCEPT ![a] = WithoutSnapshot(a, s, new)]
    /\ UNCHANGED <<root, staging, job, task, thread, torn, faults>>

(* The whole directory goes, with whatever is in it.                       *)
ArtifactDirs(a) == {d \in Dirs : d[1] = registry[a].path /\ d[2] = a}

MayDeleteArtifact(a) ==
    /\ SnapshotsOf(a) # {}
    /\ \A s \in SnapshotsOf(a) : HasManifest(a, s)
    /\ Undisturbed(a)

DeleteArtifact(a) ==
    /\ MayDeleteArtifact(a)
    /\ files' = [d \in Dirs |-> IF d \in ArtifactDirs(a) THEN NoDir ELSE files[d]]
    /\ registry' = [registry EXCEPT ![a] = NoArtifact]
    /\ torn' = torn \ {a}
    /\ UNCHANGED <<root, staging, job, task, thread, faults>>

VerifyArtifact(a, s) ==
    /\ Registered(a, s) /\ HasManifest(a, s)
    /\ registry' = [registry EXCEPT ![a].degraded =
                      IF files[DirOf(a, s)].has = Complete THEN @ \ {s} ELSE @ \cup {s}]
    /\ UNCHANGED <<root, files, staging, job, task, thread, torn, faults>>

(* Variant: only jobs that have a task count as active.                    *)
NoActiveJobsBegun == \A j \in Jobs : job[j].state \notin ActiveJobStates \ {"queued"}

NoActiveJobs == \A j \in Jobs : ~Active(j)

UpdateStorageRoot(r) ==
    /\ NoActiveJobs
    /\ root' = r
    /\ UNCHANGED <<registry, files, staging, job, task, thread, torn, faults>>

-----------------------------------------------------------------------------
(* The process dies; the next start closes the jobs that were active.      *)

(* Variant: a job that has not begun is left for later.                    *)
InterruptedIfBegun(j) ==
    IF Active(j) /\ job[j].state # "queued" THEN "failed_interrupted" ELSE job[j].state

(* Variant: closed with a state nothing knows.                             *)
InterruptedBare(j) == IF Active(j) THEN "interrupted" ELSE job[j].state

Interrupted(j) == IF Active(j) THEN "failed_interrupted" ELSE job[j].state

Restart ==
    /\ crashes < MaxCrashes
    /\ crashes' = crashes + 1
    /\ job' = [j \in Jobs |-> [job[j] EXCEPT !.state = Interrupted(j)]]
    /\ task' = [j \in Jobs |-> "none"]
    /\ thread' = [j \in Jobs |-> Idle]
    /\ UNCHANGED <<root, diskFailures>>

Crash == Restart /\ UNCHANGED <<registry, files, staging, torn>>

(* ... after the registry was saved, before the job is recorded as ready.  *)
CrashInCommit(j) ==
    /\ task[j] = "commit" /\ Committed(j)
    /\ Restart
    /\ staging' = [staging EXCEPT ![j] = "absent"]
    /\ registry' \in {registry, Registering(j)}
    /\ UNCHANGED <<files, torn>>

(* ... while files are being deleted, before the registry is saved; or a   *)
(* removal or that write fails.                                            *)
DeletionBreaks(a, S) ==
    /\ \/ Restart
       \/ DiskFails /\ UNCHANGED <<root, job, task, thread>>
    /\ torn' = torn \cup {a}
    /\ \E left \in SUBSET Complete :
          files' = [d \in Dirs |-> IF d \in S
                                   THEN [files[d] EXCEPT !.has = @ \cap left]
                                   ELSE files[d]]
    /\ UNCHANGED <<registry, staging>>

DeleteSnapshotBreaks(a, s, new) ==
    MayDeleteSnapshot(a, s, new) /\ DeletionBreaks(a, {DirOf(a, s)})

DeleteArtifactBreaks(a) ==
    MayDeleteArtifact(a) /\ DeletionBreaks(a, ArtifactDirs(a))

-----------------------------------------------------------------------------
TaskStep(j) ==
    \/ JobFails(j)
    \/ BeginJob(j)
    \/ Fetched(j)
    \/ Hashed(j)
    \/ CommitCheck(j)
    \/ CommitReplace(j)
    \/ CommitManifest(j)
    \/ CommitFails(j)
    \/ Commit(j)
    \/ CommitFailed(j)

Next ==
    \/ \E j \in Jobs, a \in Artifacts, s \in Snapshots : StartJob(j, a, s)
    \/ \E j \in Jobs : CancelJob(j)
    \/ \E j \in Jobs : CleanJobStaging(j)
    \/ \E j \in Jobs : TaskStep(j)
    \/ \E j \in Jobs : LateWrite(j)
    \/ \E j \in Jobs : ThreadEnds(j)
    \/ \E a \in Artifacts, s \in Snapshots, new \in Snapshots : DeleteSnapshot(a, s, new)
    \/ \E a \in Artifacts : DeleteArtifact(a)
    \/ \E a \in Artifacts, s \in Snapshots : VerifyArtifact(a, s)
    \/ \E r \in Roots : UpdateStorageRoot(r)
    \/ Crash
    \/ \E j \in Jobs : CrashInCommit(j)
    \/ \E a \in Artifacts, s \in Snapshots, new \in Snapshots :
          DeleteSnapshotBreaks(a, s, new)
    \/ \E a \in Artifacts : DeleteArtifactBreaks(a)

Spec == Init /\ [][Next]_vars

(* Downloads have read timeouts and a size limit, copies and hashes are of *)
(* finitely many bytes, and the event loop runs what is ready.             *)
FairSpec == Spec /\ \A j \in Jobs : WF_vars(TaskStep(j))

-----------------------------------------------------------------------------
(* Properties                                                              *)

(* Every registry entry, directory, job, task and thread is one the code   *)
(* can produce.                                                            *)
TypeOK ==
    /\ root \in Roots
    /\ registry \in [Artifacts -> Artifact]
    /\ files \in [Dirs -> Dir]
    /\ staging \in [Jobs -> {"absent", "partial", "full"}]
    /\ job \in [Jobs -> Job]
    /\ task \in [Jobs -> {"none", "begin", "fetch", "hash", "commit"}]
    /\ thread \in [Jobs -> [at: Committing \cup {"none", "fetch", "failed"}, root: Roots]]
    /\ torn \subseteq Artifacts
    /\ crashes \in Nat /\ diskFailures \in Nat

(* A registered snapshot has its payload and its manifest, as "registry    *)
(* entries are written only after ... manifest write complete", unless a   *)
(* deletion broke off between its files and its registry entry             *)
(* (_hash_and_commit_payload, delete_artifact).                            *)
RegisteredIsComplete ==
    \A a \in Artifacts \ torn : \A s \in SnapshotsOf(a) :
        files[DirOf(a, s)].has = Complete

(* What is registered was committed by a job that went through to its end, *)
(* never by one that was canceled or failed, although its thread may still *)
(* have committed (cancel_job against _commit_payload).                    *)
RegisteredByItsJob ==
    diskFailures = 0 =>
        \A a \in Artifacts \ torn : \A s \in SnapshotsOf(a) :
            LET j == files[DirOf(a, s)].by IN
            /\ j # None
            /\ \/ job[j].state = "ready"
               \/ job[j].state = "failed_interrupted" /\ crashes > 0

(* Of jobs with one destination the first commits; no other replaces the   *)
(* files of a registered snapshot (_commit_payload, _assert_artifact_      *)
(* snapshot_available).                                                    *)
NeverOverwritten ==
    [][\A a \in Artifacts \ torn : \A s \in SnapshotsOf(a) :
          Registered(a, s)' => files'[DirOf(a, s)].by = files[DirOf(a, s)].by]_vars

(* The artifact a profile resolves without naming a snapshot has one: the  *)
(* active snapshot is registered as long as any is (delete_artifact).      *)
ActiveIsRegistered ==
    \A a \in Artifacts :
        IF SnapshotsOf(a) = {} THEN registry[a] = NoArtifact
        ELSE registry[a].active \in SnapshotsOf(a)

(* The staging directory of an active job is below the current root, so    *)
(* that its commit is a rename within the store (update_storage_root).     *)
StagedBelowRoot ==
    \A j \in Jobs : Active(j) => job[j].root = root

(* Every job ends, unless a registry could not be written, and the root    *)
(* can be changed again.                                                   *)
JobsEnd ==
    \A j \in Jobs : Active(j) ~> (~Active(j) \/ diskFailures > 0)

(* No job is left active without a task (mark_interrupted_jobs).           *)
NoAbandonedJob ==
    diskFailures = 0 => \A j \in Jobs : Active(j) => task[j] # "none"
=============================================================================
