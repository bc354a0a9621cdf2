------------------------- MODULE InferenceFilesProofs -------------------------
(***************************************************************************)
(* Theorems about what inference is set up from: the stored models, for    *)
(* any number of jobs, artifacts, snapshots, roots, crashes and failing    *)
(* writes (ModelStorage); and the planned profiles, for any profiles,      *)
(* drafts, ports and GPUs and whichever write fails (InferencePlans).      *)
(***************************************************************************)
EXTENDS MCInferenceFiles, FiniteSetTheorems, WellFoundedInduction, TLAPS

-----------------------------------------------------------------------------
(* The model store.                                                        *)

(* The choices in the initial values are of sets that have members.         *)
LEMMA Defaults ==
    /\ NoJob \in Job
    /\ Idle \in [at: {"none"}, root: Roots]
    /\ NoArtifact \in Artifact
    /\ NoDir \in Dir
<1>1. /\ (CHOOSE a \in Artifacts : TRUE) \in Artifacts
      /\ (CHOOSE s \in Snapshots : TRUE) \in Snapshots
      /\ (CHOOSE r \in Roots : TRUE) \in Roots
    BY ConstantsAssumption
<1>2. NoJob \in Job
    BY <1>1 DEF NoJob, Job
<1>3. Idle \in [at: {"none"}, root: Roots]
    BY <1>1 DEF Idle
<1>4. NoArtifact \in Artifact /\ NoDir \in Dir
    BY DEF NoArtifact, Artifact, NoDir, Dir
<1>5. QED
    BY <1>2, <1>3, <1>4

Threads == [at: Committing \cup {"none", "fetch", "failed"}, root: Roots]

(* A recorded state leaves the other jobs, and the rest of the job.         *)
LEMMA PatchTypes ==
    ASSUME TypeOK, NEW j \in Jobs, NEW state \in ActiveJobStates \cup EndStates,
           job' = [job EXCEPT ![j].state = state]
    PROVE  job' \in [Jobs -> Job]
    BY SMTT(60) DEF TypeOK, Job

(* A task and its thread go on together.                                    *)
LEMMA GotoTypes ==
    ASSUME TypeOK, NEW j \in Jobs,
           NEW at \in {"none", "begin", "fetch", "hash", "commit"},
           NEW threadAt \in Committing \cup {"none", "fetch", "failed"},
           Goto(j, at, threadAt)
    PROVE  /\ task' \in [Jobs -> {"none", "begin", "fetch", "hash", "commit"}]
           /\ thread' \in [Jobs -> Threads]
<1>1. [Idle EXCEPT !.at = threadAt] \in Threads
    BY Defaults DEF Threads
<1>2. QED
    BY <1>1 DEF TypeOK, Goto, Threads

(* A thread that goes on keeps the destination it has.                      *)
LEMMA ThreadTypes ==
    ASSUME TypeOK, NEW j \in Jobs,
           NEW at \in Committing \cup {"none", "fetch", "failed"},
           ThreadGoes(j, at)
    PROVE  thread' \in [Jobs -> Threads]
    BY DEF TypeOK, ThreadGoes, Threads

(* A failing write is counted.                                              *)
LEMMA DiskFailsTypes ==
    ASSUME TypeOK, DiskFails PROVE crashes' \in Nat /\ diskFailures' \in Nat
    BY DEF TypeOK, DiskFails

(* A job that fails has the state failed or the one it had.                 *)
LEMMA FailTypes ==
    ASSUME TypeOK, NEW j \in Jobs, Fail(j)
    PROVE  /\ job' \in [Jobs -> Job]
           /\ task' \in [Jobs -> {"none", "begin", "fetch", "hash", "commit"}]
           /\ thread' \in [Jobs -> Threads]
           /\ crashes' \in Nat /\ diskFailures' \in Nat
<1>1. Goto(j, "none", "none")
    BY DEF Fail
<1>2. job' \in [Jobs -> Job]
    BY PatchTypes DEF Fail, Patch, TypeOK, EndStates
<1>3. crashes' \in Nat /\ diskFailures' \in Nat
    BY DiskFailsTypes DEF Fail, Patch, TypeOK, faults
<1>4. QED
    BY <1>1, <1>2, <1>3, GotoTypes

(* The destination of a job is a snapshot directory.                        *)
LEMMA GoalType ==
    ASSUME TypeOK, NEW j \in Jobs PROVE Goal(j) \in Dirs
    BY DEF TypeOK, Goal, Dirs, Job

(* The registry with a committed snapshot is a registry.                    *)
LEMMA RegisteringType ==
    ASSUME TypeOK, NEW j \in Jobs
    PROVE  Registering(j) \in [Artifacts -> Artifact]
<1> DEFINE a == job[j].art  s == job[j].snap  r == thread[j].root
<1>1. a \in Artifacts /\ s \in Snapshots /\ r \in Roots
    BY DEF TypeOK, Job
<1>2. registry[a] \in Artifact
    BY <1>1 DEF TypeOK
<1> DEFINE new == [registry[a] EXCEPT !.at = [registry[a].at EXCEPT ![s] = r],
                      !.path = r, !.active = s, !.degraded = registry[a].degraded \ {s}]
<1>3. new \in Artifact
    BY <1>1, <1>2 DEF Artifact
<1>4. Registering(j) = [registry EXCEPT ![a] = new]
    BY <1>1, <1>2 DEF Registering, TypeOK, Artifact
<1>5. QED
    BY <1>1, <1>3, <1>4 DEF TypeOK

(* A restart closes jobs with a state, and leaves no task and no thread.    *)
LEMMA RestartTypes ==
    ASSUME TypeOK, Restart
    PROVE  /\ root' \in Roots
           /\ job' \in [Jobs -> Job]
           /\ task' \in [Jobs -> {"none", "begin", "fetch", "hash", "commit"}]
           /\ thread' \in [Jobs -> Threads]
           /\ crashes' \in Nat /\ diskFailures' \in Nat
<1>1. ASSUME NEW j \in Jobs
      PROVE  [job[j] EXCEPT !.state = Interrupted(j)] \in Job
  <2>1. Interrupted(j) \in ActiveJobStates \cup EndStates \cup {"none"}
      BY DEF TypeOK, Interrupted, Job, EndStates
  <2>2. QED
      BY <2>1 DEF TypeOK, Job
<1>2. job' \in [Jobs -> Job]
    BY <1>1 DEF Restart
<1>3. thread' \in [Jobs -> Threads]
    BY Defaults DEF Restart, Threads
<1>4. root' \in Roots /\ crashes' \in Nat /\ diskFailures' \in Nat
    BY DEF TypeOK, Restart
<1>5. task' \in [Jobs -> {"none", "begin", "fetch", "hash", "commit"}]
    BY DEF Restart
<1>6. QED
    BY <1>2, <1>3, <1>4, <1>5

(* The store is empty at first.                                             *)
LEMMA TypeInit == Init => TypeOK
    BY Defaults, ConstantsAssumption
       DEF Init, TypeOK, Artifact, Dir, Job, Dirs

(* Every step keeps the types.                                              *)
LEMMA TypeNext == TypeOK /\ [Next]_vars => TypeOK'
<1> SUFFICES ASSUME TypeOK, [Next]_vars PROVE TypeOK'
    OBVIOUS
<1>1. ASSUME NEW j \in Jobs, NEW a \in Artifacts, NEW s \in Snapshots, StartJob(j, a, s)
      PROVE  TypeOK'
  <2>1. [state |-> "queued", art |-> a, snap |-> s, root |-> root] \in Job
      BY DEF TypeOK, Job, ActiveJobStates
  <2>2. job' \in [Jobs -> Job]
      BY <1>1, <2>1 DEF StartJob, TypeOK
  <2>3. task' \in [Jobs -> {"none", "begin", "fetch", "hash", "commit"}]
      BY <1>1 DEF StartJob, TypeOK
  <2>4. QED
      BY <1>1, <2>2, <2>3 DEF StartJob, TypeOK, faults
<1>2. ASSUME NEW j \in Jobs, CancelJob(j) PROVE TypeOK'
  <2>1. job' \in [Jobs -> Job]
      BY <1>2, PatchTypes DEF CancelJob, EndStates
  <2>2. task' \in [Jobs -> {"none", "begin", "fetch", "hash", "commit"}]
      BY <1>2 DEF CancelJob, TaskAfterCancel, TypeOK
  <2>3. QED
      BY <1>2, <2>1, <2>2 DEF CancelJob, TypeOK, faults
<1>3. ASSUME NEW j \in Jobs, CleanJobStaging(j) PROVE TypeOK'
    BY <1>3 DEF CleanJobStaging, TypeOK, faults
<1>4. ASSUME NEW j \in Jobs, JobFails(j) PROVE TypeOK'
  <2>1. staging' \in [Jobs -> {"absent", "partial", "full"}]
      BY <1>4 DEF JobFails, TypeOK
  <2>2. Fail(j)
      BY <1>4 DEF JobFails
  <2>3. QED
      BY <1>4, <2>1, <2>2, FailTypes DEF JobFails, TypeOK, Threads
<1>5. ASSUME NEW j \in Jobs, BeginJob(j) \/ Fetched(j) PROVE TypeOK'
  <2>1. PICK state \in {"running", "hashing"} : Patch(j, state)
      BY <1>5 DEF BeginJob, Fetched
  <2>2. PICK at \in {"fetch", "hash"}, threadAt \in {"fetch", "none"} :
             Goto(j, at, threadAt)
      BY <1>5 DEF BeginJob, Fetched
  <2>3. job' \in [Jobs -> Job] /\ crashes' \in Nat /\ diskFailures' \in Nat
      BY <2>1, PatchTypes DEF Patch, faults, ActiveJobStates, TypeOK
  <2>4. /\ task' \in [Jobs -> {"none", "begin", "fetch", "hash", "commit"}]
        /\ thread' \in [Jobs -> Threads]
      BY <2>2, GotoTypes
  <2>5. staging' \in [Jobs -> {"absent", "partial", "full"}]
      BY <1>5 DEF BeginJob, Fetched, TypeOK
  <2>6. QED
      BY <1>5, <2>3, <2>4, <2>5 DEF BeginJob, Fetched, TypeOK, Threads
<1>6. ASSUME NEW j \in Jobs, Hashed(j) PROVE TypeOK'
  <2>1. job' \in [Jobs -> Job] /\ crashes' \in Nat /\ diskFailures' \in Nat
      BY <1>6, PatchTypes DEF Hashed, Patch, faults, ActiveJobStates, TypeOK
  <2>2. thread' \in [Jobs -> Threads]
      BY <1>6 DEF Hashed, TypeOK, Threads, Committing
  <2>3. task' \in [Jobs -> {"none", "begin", "fetch", "hash", "commit"}]
      BY <1>6 DEF Hashed, TypeOK
  <2>4. QED
      BY <1>6, <2>1, <2>2, <2>3 DEF Hashed, TypeOK, Threads
<1>7. ASSUME NEW j \in Jobs, CommitCheck(j) \/ CommitFails(j) PROVE TypeOK'
  <2>1. PICK at \in {"failed", "replace"} : ThreadGoes(j, at)
      BY <1>7 DEF CommitCheck, CommitFails
  <2>2. thread' \in [Jobs -> Threads]
      BY <2>1, ThreadTypes DEF Committing
  <2>3. QED
      BY <1>7, <2>2 DEF CommitCheck, CommitFails, TypeOK, Threads, faults
<1>8. ASSUME NEW j \in Jobs, CommitReplace(j) PROVE TypeOK'
  <2>1. thread' \in [Jobs -> Threads]
      BY <1>8, ThreadTypes DEF CommitReplace, Committing
  <2>2. [has |-> {"payload"}, by |-> j] \in Dir
      BY DEF Dir
  <2>3. files' \in [Dirs -> Dir]
      BY <1>8, <2>2 DEF CommitReplace, TypeOK
  <2>4. QED
      BY <1>8, <2>1, <2>3 DEF CommitReplace, TypeOK, Threads, faults
<1>9. ASSUME NEW j \in Jobs, CommitManifest(j) PROVE TypeOK'
  <2>1. thread' \in [Jobs -> Threads]
      BY <1>9, ThreadTypes DEF CommitManifest, Committing
  <2>2. files' \in [Dirs -> Dir]
      BY <1>9, GoalType DEF CommitManifest, TypeOK, Dir
  <2>3. QED
      BY <1>9, <2>1, <2>2 DEF CommitManifest, TypeOK, Threads, faults
<1>10. ASSUME NEW j \in Jobs, Commit(j) PROVE TypeOK'
  <2>1. registry' \in [Artifacts -> Artifact]
      BY <1>10, RegisteringType DEF Commit, TypeOK
  <2>2. job' \in [Jobs -> Job]
      BY <1>10, PatchTypes DEF Commit, Patch, EndStates, TypeOK
  <2>3. crashes' \in Nat /\ diskFailures' \in Nat
      BY <1>10, DiskFailsTypes DEF Commit, Patch, faults, TypeOK
  <2>4. /\ task' \in [Jobs -> {"none", "begin", "fetch", "hash", "commit"}]
        /\ thread' \in [Jobs -> Threads]
      BY <1>10, GotoTypes DEF Commit
  <2>5. QED
      BY <1>10, <2>1, <2>2, <2>3, <2>4 DEF Commit, TypeOK, Threads
<1>11. ASSUME NEW j \in Jobs, CommitFailed(j) PROVE TypeOK'
    BY <1>11, FailTypes DEF CommitFailed, TypeOK, Threads
<1>12. ASSUME NEW j \in Jobs, LateWrite(j) PROVE TypeOK'
    BY <1>12 DEF LateWrite, TypeOK, faults
<1>13. ASSUME NEW j \in Jobs, ThreadEnds(j) PROVE TypeOK'
    BY <1>13, Defaults DEF ThreadEnds, TypeOK, faults
<1>14. ASSUME NEW a \in Artifacts, NEW s \in Snapshots, NEW new \in Snapshots,
              DeleteSnapshot(a, s, new)
       PROVE  TypeOK'
  <2>1. WithoutSnapshot(a, s, new) \in Artifact
      BY Defaults, ZenonT(60) DEF WithoutSnapshot, TypeOK, Artifact
  <2>2. registry' \in [Artifacts -> Artifact]
      BY <1>14, <2>1 DEF DeleteSnapshot, TypeOK
  <2>3. files' \in [Dirs -> Dir]
      BY <1>14, Defaults DEF DeleteSnapshot, TypeOK
  <2>4. QED
      BY <1>14, <2>2, <2>3 DEF DeleteSnapshot, TypeOK, faults
<1>15. ASSUME NEW a \in Artifacts, DeleteArtifact(a) PROVE TypeOK'
  <2>1. registry' \in [Artifacts -> Artifact]
      BY <1>15, Defaults DEF DeleteArtifact, TypeOK
  <2>2. files' \in [Dirs -> Dir]
      BY <1>15, Defaults DEF DeleteArtifact, TypeOK
  <2>3. QED
      BY <1>15, <2>1, <2>2 DEF DeleteArtifact, TypeOK, faults
<1>16. ASSUME NEW a \in Artifacts, NEW s \in Snapshots, VerifyArtifact(a, s)
       PROVE  TypeOK'
  <2>1. registry' \in [Artifacts -> Artifact]
      BY <1>16, SMTT(60) DEF VerifyArtifact, TypeOK, Artifact
  <2>2. QED
      BY <1>16, <2>1 DEF VerifyArtifact, TypeOK, faults
<1>17. ASSUME NEW r \in Roots, UpdateStorageRoot(r) PROVE TypeOK'
    BY <1>17 DEF UpdateStorageRoot, TypeOK, faults
<1>18. CASE Crash
    BY <1>18, RestartTypes DEF Crash, TypeOK, Threads
<1>19. ASSUME NEW j \in Jobs, CrashInCommit(j) PROVE TypeOK'
  <2>1. registry' \in [Artifacts -> Artifact]
      BY <1>19, RegisteringType DEF CrashInCommit, TypeOK
  <2>2. QED
      BY <1>19, <2>1, RestartTypes DEF CrashInCommit, TypeOK, Threads
<1>20. ASSUME NEW a \in Artifacts, NEW S \in SUBSET Dirs, DeletionBreaks(a, S)
       PROVE  TypeOK'
  <2>1. files' \in [Dirs -> Dir]
      BY <1>20 DEF DeletionBreaks, TypeOK, Dir
  <2>2. /\ root' \in Roots /\ job' \in [Jobs -> Job]
        /\ task' \in [Jobs -> {"none", "begin", "fetch", "hash", "commit"}]
        /\ thread' \in [Jobs -> Threads]
        /\ crashes' \in Nat /\ diskFailures' \in Nat
      BY <1>20, RestartTypes, DiskFailsTypes DEF DeletionBreaks, TypeOK, Threads
  <2>3. QED
      BY <1>20, <2>1, <2>2 DEF DeletionBreaks, TypeOK, Threads
<1>21. ASSUME NEW a \in Artifacts, NEW s \in Snapshots, NEW new \in Snapshots,
              DeleteSnapshotBreaks(a, s, new)
       PROVE  TypeOK'
  <2>1. {DirOf(a, s)} \in SUBSET Dirs
      BY <1>21, ConstantsAssumption
         DEF DeleteSnapshotBreaks, MayDeleteSnapshot, Registered, DirOf, Dirs,
             TypeOK, Artifact
  <2>2. QED
      BY <1>20, <1>21, <2>1 DEF DeleteSnapshotBreaks
<1>22. ASSUME NEW a \in Artifacts, DeleteArtifactBreaks(a) PROVE TypeOK'
    BY <1>20, <1>22 DEF DeleteArtifactBreaks, ArtifactDirs
<1>23. CASE UNCHANGED vars
    BY <1>23 DEF vars, TypeOK, faults
<1>24. QED
    BY <1>1, <1>2, <1>3, <1>4, <1>5, <1>6, <1>7, <1>8, <1>9, <1>10, <1>11,
       <1>12, <1>13, <1>14, <1>15, <1>16, <1>17, <1>18, <1>19, <1>21, <1>22,
       <1>23
       DEF Next, TaskStep

(* TypeOK: jobs, tasks, threads, files and registry are always of their     *)
(* types.                                                                   *)
THEOREM TypeCorrect == Spec => []TypeOK
<1>1. QED
    BY TypeInit, TypeNext, PTL DEF Spec

-----------------------------------------------------------------------------
(* Jobs and their tasks.  A task belongs to an active job; the other        *)
(* direction, NoAbandonedJob, needs that every state can be recorded.       *)
TaskActive == \A j \in Jobs : task[j] # "none" => Active(j)

JobsInv == TaskActive /\ StagedBelowRoot /\ NoAbandonedJob

(* No step of a job but its first touches another job, or its destination.  *)
JobStep(j) ==
    /\ UNCHANGED root
    /\ \E state \in ActiveJobStates \cup EndStates, at \in {"none", "fetch", "hash", "commit"} :
          /\ Active(j) /\ (at # "none" <=> state \in ActiveJobStates)
          /\ job' = [job EXCEPT ![j].state = state]
          /\ task' = [task EXCEPT ![j] = at]

(* A job whose last state could not be recorded keeps the one it had.       *)
UnrecordedStep(j) ==
    /\ UNCHANGED <<root, job>>
    /\ task' = [task EXCEPT ![j] = "none"]
    /\ diskFailures' > 0

(* Without a job there is no task.                                          *)
LEMMA JobsInit == Init => JobsInv
    BY DEF Init, JobsInv, TaskActive, StagedBelowRoot, NoAbandonedJob, Active,
           NoJob, ActiveJobStates

(* What a step can do to jobs, tasks and the root.                          *)
JobsChange ==
    \/ UNCHANGED <<root, job, task>>
    \/ \E j \in Jobs : JobStep(j)
    \/ \E j \in Jobs : UnrecordedStep(j)
    \/ \E j \in Jobs, a \in Artifacts, s \in Snapshots : StartJob(j, a, s)
    \/ \E r \in Roots : UpdateStorageRoot(r)
    \/ Restart

(* An exception ends the task, with or without a record.                    *)
LEMMA FailIsJobStep ==
    ASSUME TypeOK, JobsInv, NEW j \in Jobs, task[j] # "none", Fail(j), UNCHANGED root
    PROVE  JobStep(j) \/ UnrecordedStep(j)
<1>1. task' = [task EXCEPT ![j] = "none"]
    BY DEF Fail, Goto
<1>2. Active(j)
    BY DEF JobsInv, TaskActive
<1>3. CASE Patch(j, "failed")
    BY <1>1, <1>2, <1>3 DEF JobStep, Patch, EndStates, ActiveJobStates
<1>4. CASE DiskFails /\ UNCHANGED job
    BY <1>1, <1>4 DEF UnrecordedStep, DiskFails, TypeOK
<1>5. QED
    BY <1>3, <1>4 DEF Fail

(* Every step is one of those.                                              *)
LEMMA JobsStep ==
    TypeOK /\ JobsInv /\ [Next]_vars => JobsChange /\ diskFailures' >= diskFailures
<1> SUFFICES ASSUME TypeOK, JobsInv, [Next]_vars
             PROVE  JobsChange /\ diskFailures' >= diskFailures
    OBVIOUS
<1>1. diskFailures' >= diskFailures
  <2>1. DiskFails => diskFailures' >= diskFailures
      BY DEF DiskFails, TypeOK
  <2>2. Restart => diskFailures' >= diskFailures
      BY DEF Restart, TypeOK
  <2>3. ASSUME NEW j \in Jobs, TaskStep(j) PROVE diskFailures' >= diskFailures
    <3>1. UNCHANGED diskFailures \/ DiskFails
        BY <2>3
           DEF TaskStep, JobFails, Fail, Patch, BeginJob, Fetched, Hashed,
               CommitCheck, CommitReplace, CommitManifest, CommitFails, Commit,
               CommitFailed, faults
    <3>2. QED
        BY <2>1, <3>1 DEF TypeOK
  <2>4. QED
      BY <2>1, <2>2, <2>3
         DEF Next, StartJob, CancelJob, CleanJobStaging, LateWrite, ThreadEnds,
             DeleteSnapshot, DeleteArtifact, VerifyArtifact, UpdateStorageRoot,
             Crash, CrashInCommit, DeleteSnapshotBreaks, DeleteArtifactBreaks,
             DeletionBreaks, vars, faults, TypeOK
<1>2. ASSUME NEW j \in Jobs, CancelJob(j) PROVE JobStep(j)
    BY <1>2 DEF CancelJob, JobStep, TaskAfterCancel, EndStates, ActiveJobStates
<1>3. ASSUME NEW j \in Jobs, JobFails(j) PROVE JobStep(j) \/ UnrecordedStep(j)
    BY <1>3, FailIsJobStep DEF JobFails
<1>4. ASSUME NEW j \in Jobs, CommitFailed(j) PROVE JobStep(j) \/ UnrecordedStep(j)
    BY <1>4, FailIsJobStep DEF CommitFailed
<1>5. ASSUME NEW j \in Jobs, BeginJob(j) PROVE JobStep(j)
    BY <1>5 DEF BeginJob, Patch, Goto, JobStep, JobsInv, TaskActive, ActiveJobStates
<1>6. ASSUME NEW j \in Jobs, Fetched(j) PROVE JobStep(j)
    BY <1>6 DEF Fetched, Patch, Goto, JobStep, JobsInv, TaskActive, ActiveJobStates
<1>7. ASSUME NEW j \in Jobs, Hashed(j) PROVE JobStep(j)
    BY <1>7 DEF Hashed, Patch, JobStep, JobsInv, TaskActive, ActiveJobStates
<1>8. ASSUME NEW j \in Jobs, Commit(j) PROVE JobStep(j) \/ UnrecordedStep(j)
  <2>1. task' = [task EXCEPT ![j] = "none"] /\ Active(j) /\ UNCHANGED root
      BY <1>8 DEF Commit, Goto, JobsInv, TaskActive
  <2>2. CASE \E state \in {"ready", "failed"} : job' = [job EXCEPT ![j].state = state]
      BY <2>1, <2>2 DEF JobStep, EndStates, ActiveJobStates
  <2>3. CASE DiskFails /\ UNCHANGED job
      BY <2>1, <2>3 DEF UnrecordedStep, DiskFails, TypeOK
  <2>4. QED
      BY <1>8, <2>2, <2>3 DEF Commit, Patch
<1>9. ASSUME NEW j \in Jobs,
             CommitCheck(j) \/ CommitReplace(j) \/ CommitManifest(j) \/ CommitFails(j)
      PROVE  UNCHANGED <<root, job, task>>
    BY <1>9 DEF CommitCheck, CommitReplace, CommitManifest, CommitFails
<1>10. ASSUME NEW j \in Jobs, TaskStep(j) PROVE JobsChange
    BY <1>3, <1>4, <1>5, <1>6, <1>7, <1>8, <1>9, <1>10 DEF TaskStep, JobsChange
<1>11. ASSUME NEW j \in Jobs, CleanJobStaging(j) \/ LateWrite(j) \/ ThreadEnds(j)
       PROVE  UNCHANGED <<root, job, task>>
    BY <1>11 DEF CleanJobStaging, LateWrite, ThreadEnds
<1>12. ASSUME NEW a \in Artifacts, NEW s \in Snapshots, NEW new \in Snapshots,
              DeleteSnapshot(a, s, new)
       PROVE  UNCHANGED <<root, job, task>>
    BY <1>12 DEF DeleteSnapshot
<1>13. ASSUME NEW a \in Artifacts, NEW S, DeletionBreaks(a, S)
       PROVE  Restart \/ UNCHANGED <<root, job, task>>
    BY <1>13 DEF DeletionBreaks
<1>14. ASSUME NEW a \in Artifacts, DeleteArtifact(a)
       PROVE  UNCHANGED <<root, job, task>>
    BY <1>14 DEF DeleteArtifact
<1>15. ASSUME NEW a \in Artifacts, NEW s \in Snapshots, VerifyArtifact(a, s)
       PROVE  UNCHANGED <<root, job, task>>
    BY <1>15 DEF VerifyArtifact
<1>16. JobsChange
    BY <1>2, <1>10, <1>11, <1>12, <1>13, <1>14, <1>15
       DEF Next, JobsChange, Crash, CrashInCommit, DeleteSnapshotBreaks,
           DeleteArtifactBreaks, vars
<1>17. QED
    BY <1>1, <1>16

(* A change of that kind keeps jobs, tasks and the root together.           *)
LEMMA JobsNext == TypeOK /\ JobsInv /\ [Next]_vars => JobsInv'
<1> SUFFICES ASSUME TypeOK, JobsInv, JobsChange, diskFailures' >= diskFailures
             PROVE  JobsInv'
    BY JobsStep
<1> USE DEF JobsInv, TaskActive, StagedBelowRoot, NoAbandonedJob, Active
<1>1. CASE UNCHANGED <<root, job, task>>
    BY <1>1 DEF TypeOK
<1>2. ASSUME NEW j \in Jobs, JobStep(j) PROVE JobsInv'
    BY <1>2 DEF JobStep, TypeOK, Job, EndStates, ActiveJobStates
<1>3. ASSUME NEW j \in Jobs, UnrecordedStep(j) PROVE JobsInv'
    BY <1>3 DEF UnrecordedStep, TypeOK
<1>4. ASSUME NEW j \in Jobs, NEW a \in Artifacts, NEW s \in Snapshots, StartJob(j, a, s)
      PROVE  JobsInv'
    BY <1>4 DEF StartJob, TypeOK, ActiveJobStates, faults
<1>5. ASSUME NEW r \in Roots, UpdateStorageRoot(r) PROVE JobsInv'
    BY <1>5 DEF UpdateStorageRoot, NoActiveJobs
<1>6. CASE Restart
    BY <1>6 DEF Restart, Interrupted, TypeOK, Job, ActiveJobStates
<1>7. QED
    BY <1>1, <1>2, <1>3, <1>4, <1>5, <1>6 DEF JobsChange

(* StagedBelowRoot: the staging directory of an active job is below the     *)
(* current root, however often the store is moved.                          *)
THEOREM StagedBelowRootHolds == Spec => []StagedBelowRoot
<1>1. JobsInv => StagedBelowRoot
    BY DEF JobsInv
<1>2. QED
    BY <1>1, TypeInit, TypeNext, JobsInit, JobsNext, PTL DEF Spec

(* NoAbandonedJob: an active job has a task, across cancellations, failures *)
(* and restarts, as long as the registry can be written.                    *)
THEOREM NoAbandonedJobHolds == Spec => []NoAbandonedJob
<1>1. JobsInv => NoAbandonedJob
    BY DEF JobsInv
<1>2. QED
    BY <1>1, TypeInit, TypeNext, JobsInit, JobsNext, PTL DEF Spec

-----------------------------------------------------------------------------
(* The store.  A job is settled when neither its task nor its thread will   *)
(* do anything any more, and finished when it ended as it should, or the    *)
(* process died behind its last write to the registry.                      *)
Settled(k) ==
    task[k] = "none" /\ thread[k].at = "none" /\ job[k].state # "none"

Finished(k) ==
    \/ job[k].state = "ready"
    \/ job[k].state = "failed_interrupted" /\ crashes > 0

Sound(a, s) ==
    LET d == files[DirOf(a, s)] IN
    /\ d.has = Complete
    /\ d.by \in Jobs
    /\ Settled(d.by)
    /\ diskFailures = 0 => Finished(d.by)

(* What a thread has moved to its destination is still there.               *)
InPlace(j) ==
    /\ thread[j].at \in {"manifest", "done"} =>
          files[Goal(j)].by = j /\ "payload" \in files[Goal(j)].has
    /\ thread[j].at = "done" => "manifest" \in files[Goal(j)].has

StoreInv ==
    /\ \A a \in Artifacts \ torn : \A s \in SnapshotsOf(a) : Sound(a, s)
    /\ \A j \in Jobs : job[j].art \notin torn => InPlace(j)
    /\ \A j \in Jobs : job[j].state = "none" => thread[j].at = "none"

Inv == TypeOK /\ JobsInv /\ StoreInv

(* An empty store has nothing to be unsound.                                *)
LEMMA StoreInit == Init => StoreInv
    BY Defaults
       DEF Init, StoreInv, SnapshotsOf, Registered, NoArtifact, InPlace, Idle

(* A settled job stays settled, and a finished one finished.                *)
LEMMA SettledStays ==
    ASSUME TypeOK, JobsInv, NEW k \in Jobs, Settled(k), [Next]_vars
    PROVE  Settled(k)' /\ (Finished(k) => Finished(k)')
<1> USE DEF Settled, Finished
<1>1. ASSUME NEW j \in Jobs, NEW a \in Artifacts, NEW s \in Snapshots, StartJob(j, a, s)
      PROVE  Settled(k)' /\ (Finished(k) => Finished(k)')
    BY <1>1 DEF StartJob, TypeOK, faults
<1>2. ASSUME NEW j \in Jobs, CancelJob(j)
      PROVE  Settled(k)' /\ (Finished(k) => Finished(k)')
    BY <1>2 DEF CancelJob, TaskAfterCancel, Active, ActiveJobStates, TypeOK, faults, Job
<1>3. ASSUME NEW j \in Jobs, TaskStep(j)
      PROVE  Settled(k)' /\ (Finished(k) => Finished(k)')
  <2>1. j # k
      BY <1>3
         DEF TaskStep, JobFails, BeginJob, Fetched, Hashed, CommitCheck,
             CommitReplace, CommitManifest, CommitFails, Commit, CommitFailed
  <2>2. /\ task'[k] = task[k] /\ thread'[k] = thread[k] /\ job'[k] = job[k]
        /\ UNCHANGED crashes
      BY <1>3, <2>1
         DEF TaskStep, JobFails, Fail, Patch, Goto, ThreadGoes, DiskFails,
             BeginJob, Fetched, Hashed, CommitCheck, CommitReplace,
             CommitManifest, CommitFails, Commit, CommitFailed, TypeOK, faults
  <2>3. QED
      BY <2>2
<1>4. ASSUME NEW j \in Jobs, CleanJobStaging(j) \/ LateWrite(j) \/ ThreadEnds(j)
      PROVE  Settled(k)' /\ (Finished(k) => Finished(k)')
    BY <1>4, Defaults DEF CleanJobStaging, LateWrite, ThreadEnds, TypeOK, faults
<1>5. ASSUME UNCHANGED <<job, task, thread, crashes>>
      PROVE  Settled(k)' /\ (Finished(k) => Finished(k)')
    BY <1>5
<1>6. CASE Restart
    BY <1>6, Defaults
       DEF Restart, Interrupted, Active, ActiveJobStates, TypeOK, Job
<1>7. ASSUME NEW a \in Artifacts, NEW S, DeletionBreaks(a, S)
      PROVE  Settled(k)' /\ (Finished(k) => Finished(k)')
    BY <1>5, <1>6, <1>7 DEF DeletionBreaks, DiskFails
<1>8. QED
    BY <1>1, <1>2, <1>3, <1>4, <1>5, <1>6, <1>7
       DEF Next, DeleteSnapshot, DeleteArtifact, VerifyArtifact,
           UpdateStorageRoot, Crash, CrashInCommit, DeleteSnapshotBreaks,
           DeleteArtifactBreaks, vars, faults

(* The files of a registered snapshot stay as they are, unless it is        *)
(* deleted or its deletion breaks off.                                      *)
LEMMA RegisteredFilesStay ==
    ASSUME Inv, NEW a \in Artifacts \ torn, NEW s \in SnapshotsOf(a), [Next]_vars
    PROVE  LET d == DirOf(a, s) IN
           \/ files'[d] = files[d]
           \/ ~Registered(a, s)'
           \/ a \in torn' /\ files'[d].by = files[d].by
<1> DEFINE d == DirOf(a, s)
<1>1. /\ d \in Dirs /\ d[2] = a /\ d[3] = s /\ s \in Snapshots
      /\ files[d].has = Complete /\ files[d].by \in Jobs /\ Settled(files[d].by)
    BY ConstantsAssumption
       DEF Inv, StoreInv, Sound, SnapshotsOf, Registered, DirOf, Dirs, TypeOK, Artifact
<1>2. ASSUME NEW j \in Jobs, CommitReplace(j) PROVE files'[d] = files[d]
  <2>1. Goal(j) # d
      BY <1>1, <1>2 DEF CommitReplace, MayReplace, Complete
  <2>2. QED
      BY <1>1, <1>2, <2>1 DEF CommitReplace, Inv, TypeOK
<1>3. ASSUME NEW j \in Jobs, CommitManifest(j) PROVE files'[d] = files[d]
  <2>1. thread[j].at = "manifest"
      BY <1>3 DEF CommitManifest
  <2>2. ASSUME Goal(j) = d PROVE FALSE
    <3>1. job[j].art = a
        BY <1>1, <2>2 DEF Goal
    <3>2. files[d].by = j
        BY <2>1, <2>2, <3>1 DEF Inv, StoreInv, InPlace
    <3>3. QED
        BY <1>1, <2>1, <3>2 DEF Settled
  <2>3. QED
      BY <1>1, <1>3, <2>2 DEF CommitManifest, Inv, TypeOK
<1>4. ASSUME NEW b \in Artifacts, NEW t \in Snapshots, NEW new \in Snapshots,
             DeleteSnapshot(b, t, new)
      PROVE  files'[d] = files[d] \/ ~Registered(a, s)'
  <2>1. CASE b = a /\ t = s
    <3>1. registry[a] \in Artifact
        BY DEF Inv, TypeOK
    <3>2. WithoutSnapshot(a, s, new).at[s] = None
        BY <1>1, <3>1 DEF WithoutSnapshot, NoArtifact, Artifact
    <3>3. registry'[a] = WithoutSnapshot(a, s, new)
        BY <1>4, <2>1 DEF DeleteSnapshot, Inv, TypeOK
    <3>4. QED
        BY <3>2, <3>3 DEF Registered
  <2>2. CASE ~(b = a /\ t = s)
    <3>1. DirOf(b, t) # d
        BY <2>2 DEF DirOf
    <3>2. QED
        BY <1>1, <1>4, <3>1 DEF DeleteSnapshot, Inv, TypeOK
  <2>3. QED
      BY <2>1, <2>2
<1>5. ASSUME NEW b \in Artifacts, DeleteArtifact(b)
      PROVE  files'[d] = files[d] \/ ~Registered(a, s)'
    BY <1>1, <1>5
       DEF DeleteArtifact, ArtifactDirs, Registered, NoArtifact, Inv, TypeOK
<1>6. ASSUME NEW b \in Artifacts, NEW S, DeletionBreaks(b, S),
             \A e \in S : e[2] = b
      PROVE  \/ files'[d] = files[d]
             \/ a \in torn' /\ files'[d].by = files[d].by
  <2>1. torn' = torn \cup {b}
      BY <1>6 DEF DeletionBreaks
  <2>2. CASE d \in S
      BY <1>1, <1>6, <2>1, <2>2 DEF DeletionBreaks, Inv, TypeOK, Dir
  <2>3. CASE d \notin S
      BY <1>1, <1>6, <2>3 DEF DeletionBreaks
  <2>4. QED
      BY <2>2, <2>3
<1>7. ASSUME NEW b \in Artifacts, NEW t \in Snapshots, NEW new \in Snapshots,
             DeleteSnapshotBreaks(b, t, new)
      PROVE  files'[d] = files[d] \/ (a \in torn' /\ files'[d].by = files[d].by)
    BY <1>6, <1>7 DEF DeleteSnapshotBreaks, DirOf
<1>8. ASSUME NEW b \in Artifacts, DeleteArtifactBreaks(b)
      PROVE  files'[d] = files[d] \/ (a \in torn' /\ files'[d].by = files[d].by)
    BY <1>6, <1>8 DEF DeleteArtifactBreaks, ArtifactDirs
<1>9. ASSUME NEW j \in Jobs,
             \/ JobFails(j) \/ BeginJob(j) \/ Fetched(j) \/ Hashed(j)
             \/ CommitCheck(j) \/ CommitFails(j) \/ Commit(j) \/ CommitFailed(j)
             \/ CancelJob(j) \/ CleanJobStaging(j) \/ LateWrite(j)
             \/ ThreadEnds(j) \/ CrashInCommit(j)
      PROVE  UNCHANGED files
    BY <1>9
       DEF JobFails, BeginJob, Fetched, Hashed, CommitCheck, CommitFails,
           Commit, CommitFailed, CancelJob, CleanJobStaging, LateWrite,
           ThreadEnds, CrashInCommit
<1>10. ASSUME NEW j \in Jobs, TaskStep(j) PROVE files'[d] = files[d]
    BY <1>2, <1>3, <1>9, <1>10 DEF TaskStep
<1>11. QED
    BY <1>4, <1>5, <1>7, <1>8, <1>9, <1>10
       DEF Next, StartJob, VerifyArtifact, UpdateStorageRoot, Crash, vars

(* Only a job that is through registers a snapshot: the one it is for.      *)
Registers(j, a, s) ==
    /\ Commit(j) \/ CrashInCommit(j)
    /\ job[j].art = a /\ job[j].snap = s
    /\ registry'[a].at[s] = thread[j].root

(* It was registered before, in the same place.                             *)
RegisteredBefore(a, s) ==
    /\ registry'[a].at[s] = registry[a].at[s]
    /\ a \in torn => a \in torn'

(* A snapshot that is registered after a step was so before, or has just    *)
(* been committed.                                                          *)
LEMMA RegistryChange ==
    ASSUME TypeOK, NEW a \in Artifacts, NEW s \in SnapshotsOf(a)', [Next]_vars
    PROVE  RegisteredBefore(a, s) \/ \E j \in Jobs : Registers(j, a, s)
<1>1. s \in Snapshots /\ Registered(a, s)' /\ registry[a] \in Artifact
    BY DEF SnapshotsOf, TypeOK
<1>2. ASSUME NEW j \in Jobs, Commit(j) \/ CrashInCommit(j)
      PROVE  \/ /\ registry'[a].at[s] = registry[a].at[s]
                /\ UNCHANGED torn
             \/ Registers(j, a, s)
  <2>1. UNCHANGED torn
      BY <1>2 DEF Commit, CrashInCommit
  <2>2. CASE UNCHANGED registry
      BY <2>1, <2>2
  <2>3. CASE registry' = Registering(j) /\ job[j].art = a /\ job[j].snap = s
    <3>1. registry'[a].at[s] = thread[j].root
        BY <1>1, <2>3 DEF Registering, TypeOK, Artifact
    <3>2. QED
        BY <1>2, <2>3, <3>1 DEF Registers
  <2>4. CASE registry' = Registering(j) /\ ~(job[j].art = a /\ job[j].snap = s)
    <3>1. registry'[a].at[s] = registry[a].at[s]
        BY <1>1, <2>4 DEF Registering, TypeOK, Artifact
    <3>2. QED
        BY <2>1, <3>1, SMTT(60)
  <2>5. QED
      BY <1>2, <2>2, <2>3, <2>4 DEF Commit, CrashInCommit
<1>3. ASSUME NEW b \in Artifacts, NEW t \in Snapshots, NEW new \in Snapshots,
             DeleteSnapshot(b, t, new)
      PROVE  registry'[a].at[s] = registry[a].at[s] /\ UNCHANGED torn
  <2>1. UNCHANGED torn /\ registry' = [registry EXCEPT ![b] = WithoutSnapshot(b, t, new)]
      BY <1>3 DEF DeleteSnapshot
  <2>2. CASE b # a
      BY <2>1, <2>2 DEF TypeOK
  <2>3. CASE b = a
    <3>1. registry'[a] = WithoutSnapshot(a, t, new)
        BY <2>1, <2>3 DEF TypeOK
    <3>2. QED
        BY <1>1, <2>1, <3>1
           DEF WithoutSnapshot, NoArtifact, Registered, Artifact
  <2>4. QED
      BY <2>2, <2>3
<1>4. ASSUME NEW b \in Artifacts, DeleteArtifact(b)
      PROVE  registry'[a].at[s] = registry[a].at[s] /\ (a \in torn => a \in torn')
  <2>1. a # b
      BY <1>1, <1>4 DEF DeleteArtifact, Registered, NoArtifact, TypeOK
  <2>2. QED
      BY <1>4, <2>1 DEF DeleteArtifact, TypeOK
<1>5. ASSUME NEW b \in Artifacts, NEW t \in Snapshots, VerifyArtifact(b, t)
      PROVE  registry'[a].at[s] = registry[a].at[s] /\ UNCHANGED torn
    BY <1>1, <1>5 DEF VerifyArtifact, TypeOK, Artifact
<1>6. ASSUME NEW b \in Artifacts, NEW S, DeletionBreaks(b, S)
      PROVE  registry'[a].at[s] = registry[a].at[s] /\ (a \in torn => a \in torn')
    BY <1>6 DEF DeletionBreaks
<1>7. ASSUME NEW j \in Jobs, TaskStep(j), ~Commit(j)
      PROVE  UNCHANGED <<registry, torn>>
    BY <1>7
       DEF TaskStep, JobFails, BeginJob, Fetched, Hashed, CommitCheck,
           CommitReplace, CommitManifest, CommitFails, CommitFailed
<1>8. ASSUME NEW j \in Jobs,
             \/ TaskStep(j) \/ CrashInCommit(j) \/ CancelJob(j)
             \/ CleanJobStaging(j) \/ LateWrite(j) \/ ThreadEnds(j)
      PROVE  RegisteredBefore(a, s) \/ Registers(j, a, s)
    BY <1>2, <1>7, <1>8 DEF CancelJob, CleanJobStaging, LateWrite, ThreadEnds, RegisteredBefore
<1>9. ASSUME NEW j \in Jobs, NEW b \in Artifacts, NEW t \in Snapshots, StartJob(j, b, t)
      PROVE  RegisteredBefore(a, s)
    BY <1>9 DEF StartJob, RegisteredBefore
<1>10. ASSUME NEW b \in Artifacts, NEW t \in Snapshots, NEW new \in Snapshots,
              DeleteSnapshot(b, t, new) \/ DeleteSnapshotBreaks(b, t, new)
       PROVE  RegisteredBefore(a, s)
    BY <1>3, <1>6, <1>10 DEF DeleteSnapshotBreaks, RegisteredBefore
<1>11. ASSUME NEW b \in Artifacts, DeleteArtifact(b) \/ DeleteArtifactBreaks(b)
       PROVE  RegisteredBefore(a, s)
    BY <1>4, <1>6, <1>11 DEF DeleteArtifactBreaks, RegisteredBefore
<1>12. ASSUME NEW b \in Artifacts, NEW t \in Snapshots, VerifyArtifact(b, t)
       PROVE  RegisteredBefore(a, s)
    BY <1>5, <1>12 DEF RegisteredBefore
<1>13. ASSUME NEW r \in Roots, UpdateStorageRoot(r) PROVE RegisteredBefore(a, s)
    BY <1>13 DEF UpdateStorageRoot, RegisteredBefore
<1>14. ASSUME Crash \/ UNCHANGED vars PROVE RegisteredBefore(a, s)
    BY <1>14 DEF Crash, vars, RegisteredBefore
<1>15. QED
    BY <1>8, <1>9, <1>10, <1>11, <1>12, <1>13, <1>14 DEF Next

(* What a job registers is sound: its files are in place and its thread has *)
(* nothing left to do.                                                      *)
LEMMA RegisteredIsSound ==
    ASSUME Inv, NEW j \in Jobs, NEW a \in Artifacts, NEW s \in Snapshots,
           Registers(j, a, s), a \notin torn'
    PROVE  Sound(a, s)'
<1>1. /\ thread[j].at = "done" /\ task[j] = "commit"
      /\ UNCHANGED <<files, torn>>
    BY DEF Registers, Commit, CrashInCommit, Committed
<1>2. DirOf(a, s)' = Goal(j)
    BY DEF Registers, DirOf, Goal
<1>3. InPlace(j)
    BY <1>1 DEF Inv, StoreInv, Registers
<1>4. files[Goal(j)] \in Dir
    BY GoalType DEF Inv, TypeOK
<1>5. files'[DirOf(a, s)'].has = Complete /\ files'[DirOf(a, s)'].by = j
  <2>1. files[Goal(j)].by = j /\ files[Goal(j)].has \in SUBSET Complete
      BY <1>1, <1>3, <1>4 DEF InPlace, Complete, Dir
  <2>2. files[Goal(j)].has = Complete
      BY <1>1, <1>3, <2>1 DEF InPlace, Complete
  <2>3. QED
      BY <1>1, <1>2, <2>1, <2>2
<1>6. Active(j) /\ job[j].state \in ActiveJobStates
    BY <1>1 DEF Inv, JobsInv, TaskActive, Active
<1>7. CASE Commit(j)
  <2>1. task'[j] = "none" /\ thread'[j].at = "none"
      BY <1>7 DEF Commit, Goto, Inv, TypeOK, Idle
  <2>2. /\ job'[j].state # "none"
        /\ diskFailures' = 0 => job'[j].state = "ready"
    <3>1. CASE Patch(j, "ready")
        BY <3>1 DEF Patch, Inv, TypeOK, Job
    <3>2. CASE DiskFails
        BY <1>6, <1>7, <3>2 DEF Commit, DiskFails, Patch, Inv, TypeOK, Job, ActiveJobStates
    <3>3. QED
        BY <1>7, <3>1, <3>2 DEF Commit
  <2>3. QED
      BY <1>5, <2>1, <2>2 DEF Sound, Settled, Finished
<1>8. CASE CrashInCommit(j)
  <2>1. task'[j] = "none" /\ thread'[j].at = "none" /\ crashes' > 0
      BY <1>8 DEF CrashInCommit, Restart, Idle, Inv, TypeOK
  <2>2. job'[j].state = "failed_interrupted"
      BY <1>6, <1>8 DEF CrashInCommit, Restart, Interrupted, Inv, TypeOK, Job
  <2>3. QED
      BY <1>5, <2>1, <2>2 DEF Sound, Settled, Finished
<1>9. QED
    BY <1>7, <1>8 DEF Registers

(* Registered snapshots stay sound, and new ones are.                       *)
LEMMA SoundNext ==
    ASSUME Inv, [Next]_vars, NEW a \in Artifacts \ torn', NEW s \in SnapshotsOf(a)'
    PROVE  Sound(a, s)'
<1>1. CASE \E j \in Jobs : Registers(j, a, s)
    BY <1>1, RegisteredIsSound DEF SnapshotsOf
<1>2. CASE RegisteredBefore(a, s)
  <2>1. a \in Artifacts \ torn /\ s \in SnapshotsOf(a) /\ DirOf(a, s)' = DirOf(a, s)
      BY <1>2 DEF RegisteredBefore, SnapshotsOf, Registered, DirOf
  <2>2. files'[DirOf(a, s)] = files[DirOf(a, s)]
      BY <2>1, RegisteredFilesStay DEF SnapshotsOf
  <2>3. Sound(a, s)
      BY <2>1 DEF Inv, StoreInv
  <2>4. diskFailures' >= diskFailures
      BY JobsStep DEF Inv
  <2>5. diskFailures' = 0 => diskFailures = 0
      BY <2>4 DEF Inv, TypeOK
  <2>6. /\ Settled(files[DirOf(a, s)].by)'
        /\ Finished(files[DirOf(a, s)].by) => Finished(files[DirOf(a, s)].by)'
    <3>1. PICK k \in Jobs : k = files[DirOf(a, s)].by
        BY <2>3 DEF Sound
    <3>2. Settled(k)
        BY <2>3, <3>1 DEF Sound
    <3>3. Settled(k)' /\ (Finished(k) => Finished(k)')
        BY <3>2, SettledStays DEF Inv
    <3>4. QED
        BY <2>1, <2>2, <3>1, <3>3 DEF Settled, Finished
  <2>7. QED
      BY <2>1, <2>2, <2>3, <2>5, <2>6 DEF Sound, Settled, Finished
<1>3. QED
    BY <1>1, <1>2, RegistryChange DEF Inv

(* A thread and the destination of its job are left alone.                  *)
ThreadStays(j) ==
    /\ thread'[j] = thread[j]
    /\ job'[j].art = job[j].art /\ job'[j].snap = job[j].snap

(* A thread comes to the places behind the rename by its own steps only.    *)
LEMMA ThreadChange ==
    ASSUME Inv, [Next]_vars, NEW j \in Jobs, thread'[j].at \in {"manifest", "done"}
    PROVE  CommitReplace(j) \/ CommitManifest(j) \/ ThreadStays(j)
<1> USE DEF ThreadStays
<1>1. ASSUME NEW k \in Jobs, NEW a \in Artifacts, NEW s \in Snapshots, StartJob(k, a, s)
      PROVE  ThreadStays(j)
  <2>1. k # j
      BY <1>1 DEF StartJob, Inv, StoreInv
  <2>2. QED
      BY <1>1, <2>1 DEF StartJob, Inv, TypeOK
<1>2. ASSUME NEW k \in Jobs, TaskStep(k), k # j
      PROVE  ThreadStays(j)
    BY <1>2
       DEF TaskStep, JobFails, Fail, Patch, Goto, ThreadGoes, DiskFails,
           BeginJob, Fetched, Hashed, CommitCheck, CommitReplace,
           CommitManifest, CommitFails, Commit, CommitFailed, Inv, TypeOK
<1>3. ASSUME TaskStep(j) PROVE CommitReplace(j) \/ CommitManifest(j)
    BY <1>3
       DEF TaskStep, JobFails, Fail, Patch, Goto, ThreadGoes, BeginJob,
           Fetched, Hashed, CommitCheck, CommitFails, Commit, CommitFailed,
           Inv, TypeOK, Idle
<1>4. ASSUME NEW k \in Jobs,
             \/ CancelJob(k) \/ CleanJobStaging(k) \/ LateWrite(k)
             \/ ThreadEnds(k)
      PROVE  ThreadStays(j)
    BY <1>4
       DEF CancelJob, CleanJobStaging, LateWrite, ThreadEnds, Idle, Inv, TypeOK, Job
<1>5. ~Restart
    BY DEF Restart, Idle
<1>6. ASSUME NEW a \in Artifacts, NEW S, DeletionBreaks(a, S)
      PROVE  ThreadStays(j)
    BY <1>5, <1>6 DEF DeletionBreaks
<1>7. ASSUME NEW a \in Artifacts, NEW s \in Snapshots, NEW new \in Snapshots,
             DeleteSnapshot(a, s, new) \/ DeleteSnapshotBreaks(a, s, new)
      PROVE  ThreadStays(j)
    BY <1>6, <1>7 DEF DeleteSnapshot, DeleteSnapshotBreaks
<1>8. ASSUME NEW a \in Artifacts, DeleteArtifact(a) \/ DeleteArtifactBreaks(a)
      PROVE  ThreadStays(j)
    BY <1>6, <1>8 DEF DeleteArtifact, DeleteArtifactBreaks
<1>9. ASSUME NEW a \in Artifacts, NEW s \in Snapshots, VerifyArtifact(a, s)
      PROVE  ThreadStays(j)
    BY <1>9 DEF VerifyArtifact
<1>10. ASSUME NEW r \in Roots, UpdateStorageRoot(r) PROVE ThreadStays(j)
    BY <1>10 DEF UpdateStorageRoot
<1>11. ASSUME NEW k \in Jobs, CrashInCommit(k) PROVE FALSE
    BY <1>5, <1>11 DEF CrashInCommit
<1>12. ASSUME UNCHANGED vars PROVE ThreadStays(j)
    BY <1>12 DEF vars
<1> DEFINE Goal0 == CommitReplace(j) \/ CommitManifest(j) \/ ThreadStays(j)
<1>13. ASSUME NEW k \in Jobs, TaskStep(k) PROVE Goal0
    BY <1>2, <1>3, <1>13
<1>14. QED
    BY <1>1, <1>4, <1>5, <1>7, <1>8, <1>9, <1>10, <1>11, <1>12, <1>13
       DEF Next, Crash

(* What a thread has put in its place, nothing but a deletion that breaks   *)
(* off takes away, if no artifact is deleted under a commit.                *)
LEMMA InPlaceStays ==
    ASSUME SerialDeletes, Inv, [Next]_vars, NEW j \in Jobs,
           thread[j].at \in {"manifest", "done"}, ThreadStays(j),
           ~CommitManifest(j), job[j].art \notin torn'
    PROVE  job[j].art \notin torn /\ files'[Goal(j)] = files[Goal(j)]
<1> DEFINE a == job[j].art  d == Goal(j)
<1>1. a \in Artifacts /\ d \in Dirs /\ d[2] = a
    BY GoalType DEF Inv, TypeOK, Job, Goal
<1>2. ASSUME NEW b \in Artifacts, DeleteArtifact(b)
      PROVE  a \notin torn /\ files'[d] = files[d]
  <2>1. b # a
      BY <1>2 DEF DeleteArtifact, MayDeleteArtifact, Undisturbed, Committing
  <2>2. QED
      BY <1>1, <1>2, <2>1 DEF DeleteArtifact, ArtifactDirs
<1>3. SUFFICES ASSUME a \notin torn, \A b \in Artifacts : ~DeleteArtifact(b)
               PROVE  files'[d] = files[d]
  <2>1. CASE \E b \in Artifacts : DeleteArtifact(b)
      BY <1>2, <2>1
  <2>2. CASE \A b \in Artifacts : ~DeleteArtifact(b)
    <3>1. torn \subseteq torn'
        BY <2>2
           DEF Next, StartJob, CancelJob, CleanJobStaging, TaskStep, JobFails,
               BeginJob, Fetched, Hashed, CommitCheck, CommitReplace,
               CommitManifest, CommitFails, Commit, CommitFailed, LateWrite,
               ThreadEnds, DeleteSnapshot, VerifyArtifact, UpdateStorageRoot,
               Crash, CrashInCommit, DeleteSnapshotBreaks,
               DeleteArtifactBreaks, DeletionBreaks, vars
    <3>2. QED
        BY <1>3, <2>2, <3>1
  <2>3. QED
      BY <2>1, <2>2
<1>4. InPlace(j) /\ files[d].by = j /\ files[d].has # {}
    BY <1>3 DEF Inv, StoreInv, InPlace
<1>5. ASSUME NEW k \in Jobs, CommitReplace(k) PROVE files'[d] = files[d]
  <2>1. Goal(k) # d
      BY <1>4, <1>5 DEF CommitReplace, MayReplace
  <2>2. QED
      BY <1>1, <1>5, <2>1 DEF CommitReplace, Inv, TypeOK
<1>6. ASSUME NEW k \in Jobs, CommitManifest(k) PROVE files'[d] = files[d]
  <2>1. ASSUME Goal(k) = d PROVE FALSE
    <3>1. k # j /\ thread[k].at = "manifest"
        BY <1>6 DEF CommitManifest
    <3>2. job[k].art = a
        BY <1>1, <2>1 DEF Goal
    <3>3. files[d].by = k
        BY <1>3, <2>1, <3>1, <3>2 DEF Inv, StoreInv, InPlace
    <3>4. QED
        BY <1>4, <3>1, <3>3
  <2>2. QED
      BY <1>1, <1>6, <2>1 DEF CommitManifest, Inv, TypeOK
<1>7. ASSUME NEW b \in Artifacts, NEW s \in Snapshots, NEW new \in Snapshots,
             DeleteSnapshot(b, s, new)
      PROVE  files'[d] = files[d]
  <2>1. ASSUME DirOf(b, s) = d PROVE FALSE
    <3>1. b = a /\ s \in SnapshotsOf(b)
        BY <1>1, <1>7, <2>1
           DEF DirOf, DeleteSnapshot, MayDeleteSnapshot, SnapshotsOf
    <3>2. Settled(files[d].by)
        BY <1>3, <2>1, <3>1 DEF Inv, StoreInv, Sound
    <3>3. QED
        BY <1>4, <3>2 DEF Settled
  <2>2. QED
      BY <1>1, <1>7, <2>1 DEF DeleteSnapshot, Inv, TypeOK
<1>8. ASSUME NEW b \in Artifacts, NEW S, DeletionBreaks(b, S), \A e \in S : e[2] = b
      PROVE  files'[d] = files[d]
    BY <1>1, <1>8 DEF DeletionBreaks
<1>9. ASSUME NEW b \in Artifacts, NEW s \in Snapshots, NEW new \in Snapshots,
             DeleteSnapshotBreaks(b, s, new)
      PROVE  files'[d] = files[d]
    BY <1>8, <1>9 DEF DeleteSnapshotBreaks, DirOf
<1>10. ASSUME NEW b \in Artifacts, DeleteArtifactBreaks(b)
      PROVE  files'[d] = files[d]
    BY <1>8, <1>10 DEF DeleteArtifactBreaks, ArtifactDirs
<1>11. ASSUME NEW k \in Jobs, TaskStep(k) PROVE files'[d] = files[d]
    BY <1>5, <1>6, <1>11
       DEF TaskStep, JobFails, BeginJob, Fetched, Hashed, CommitCheck,
           CommitFails, Commit, CommitFailed
<1>12. QED
    BY <1>3, <1>7, <1>9, <1>10, <1>11
       DEF Next, StartJob, CancelJob, CleanJobStaging, LateWrite, ThreadEnds,
           VerifyArtifact, UpdateStorageRoot, Crash, CrashInCommit, vars

(* A thread has its payload in place from the rename on, and its manifest   *)
(* from the write of it on.                                                 *)
LEMMA InPlaceNext ==
    ASSUME SerialDeletes, Inv, [Next]_vars, NEW j \in Jobs, job'[j].art \notin torn'
    PROVE  InPlace(j)'
<1>1. CASE thread'[j].at \notin {"manifest", "done"}
    BY <1>1 DEF InPlace
<1>2. CASE CommitReplace(j)
  <2>1. Goal(j)' = Goal(j) /\ thread'[j].at = "manifest"
      BY <1>2 DEF CommitReplace, ThreadGoes, Goal, Inv, TypeOK
  <2>2. files'[Goal(j)] = [has |-> {"payload"}, by |-> j]
      BY <1>2, GoalType DEF CommitReplace, Inv, TypeOK
  <2>3. QED
      BY <2>1, <2>2 DEF InPlace
<1>3. CASE CommitManifest(j)
  <2>1. Goal(j)' = Goal(j) /\ thread'[j].at = "done"
      BY <1>3 DEF CommitManifest, ThreadGoes, Goal, Inv, TypeOK
  <2>2. InPlace(j) /\ thread[j].at = "manifest"
      BY <1>3 DEF CommitManifest, Inv, StoreInv
  <2>3. /\ files'[Goal(j)].by = j
        /\ files'[Goal(j)].has = files[Goal(j)].has \cup {"manifest"}
      BY <1>3, GoalType DEF CommitManifest, Inv, TypeOK, Dir
  <2>4. QED
      BY <2>1, <2>2, <2>3 DEF InPlace
<1>4. CASE /\ thread'[j].at \in {"manifest", "done"}
           /\ ThreadStays(j) /\ ~CommitManifest(j)
  <2>1. /\ thread[j].at \in {"manifest", "done"} /\ job[j].art \notin torn'
        /\ Goal(j)' = Goal(j)
      BY <1>4 DEF ThreadStays, Goal
  <2>2. job[j].art \notin torn /\ files'[Goal(j)] = files[Goal(j)]
      BY <1>4, <2>1, InPlaceStays
  <2>3. InPlace(j)
      BY <2>2 DEF Inv, StoreInv
  <2>4. QED
      BY <1>4, <2>1, <2>2, <2>3 DEF InPlace, ThreadStays
<1>5. QED
    BY <1>1, <1>2, <1>3, <1>4, ThreadChange

(* A job that was never started has no thread.                              *)
LEMMA UnstartedNext ==
    ASSUME Inv, [Next]_vars, NEW j \in Jobs, job'[j].state = "none"
    PROVE  thread'[j].at = "none"
<1>1. ASSUME thread[j].at = "none", task[j] = "none", [Next]_vars
      PROVE  job[j].state # "none" \/ thread'[j].at = "none"
  <2>1. ASSUME job[j].state = "none" PROVE thread'[j].at = "none"
    <3>1. ASSUME NEW k \in Jobs, TaskStep(k) PROVE thread'[j] = thread[j]
        BY <1>1, <3>1
           DEF TaskStep, JobFails, Fail, Goto, ThreadGoes, BeginJob, Fetched,
               Hashed, CommitCheck, CommitReplace, CommitManifest,
               CommitFails, Commit, CommitFailed, Inv, TypeOK
    <3>2. Restart => thread'[j].at = "none"
        BY DEF Restart, Idle
    <3>3. ASSUME NEW k \in Jobs, ThreadEnds(k) PROVE thread'[j].at = "none"
        BY <1>1, <3>3 DEF ThreadEnds, Inv, TypeOK, Idle
    <3>4. QED
        BY <1>1, <3>1, <3>2, <3>3
           DEF Next, StartJob, CancelJob, CleanJobStaging, LateWrite,
               DeleteSnapshot, DeleteArtifact, VerifyArtifact,
               UpdateStorageRoot, Crash, CrashInCommit, DeleteSnapshotBreaks,
               DeleteArtifactBreaks, DeletionBreaks, vars
  <2>2. QED
      BY <2>1
<1>2. job[j].state = "none"
  <2>1. JobsChange
      BY JobsStep DEF Inv
  <2>2. ASSUME NEW k \in Jobs, JobStep(k) PROVE job[j].state = "none"
      BY <2>2 DEF JobStep, Inv, TypeOK, Job, EndStates, ActiveJobStates
  <2>3. ASSUME NEW k \in Jobs, NEW a \in Artifacts, NEW s \in Snapshots,
               StartJob(k, a, s)
        PROVE  job[j].state = "none"
      BY <2>3 DEF StartJob, Inv, TypeOK
  <2>4. CASE Restart
      BY <2>4 DEF Restart, Interrupted, Inv, TypeOK, Job
  <2>5. QED
      BY <2>1, <2>2, <2>3, <2>4 DEF JobsChange, UnrecordedStep, UpdateStorageRoot
<1>3. task[j] = "none" /\ thread[j].at = "none"
    BY <1>2 DEF Inv, JobsInv, StoreInv, TaskActive, Active, ActiveJobStates, TypeOK
<1>4. QED
    BY <1>1, <1>2, <1>3

(* The strengthened invariant of the store is kept.                         *)
LEMMA InvNext == SerialDeletes /\ Inv /\ [Next]_vars => Inv'
<1> SUFFICES ASSUME SerialDeletes, Inv, [Next]_vars PROVE Inv'
    OBVIOUS
<1>1. TypeOK' /\ JobsInv'
    BY TypeNext, JobsNext DEF Inv
<1>2. StoreInv'
    BY SoundNext, InPlaceNext, UnstartedNext DEF StoreInv
<1>3. QED
    BY <1>1, <1>2 DEF Inv

(* The strengthened invariant holds in every behaviour.                     *)
LEMMA InvHolds ==
    ASSUME SerialDeletes PROVE Spec => []Inv
<1>1. Init => Inv
    BY TypeInit, JobsInit, StoreInit DEF Inv
<1>2. Inv /\ [Next]_vars => Inv'
    BY InvNext
<1>3. QED
    BY <1>1, <1>2, PTL DEF Spec

(* RegisteredIsComplete: where no artifact is deleted under a commit, a     *)
(* registered snapshot has its payload and its manifest.                    *)
THEOREM RegisteredIsCompleteHolds ==
    ASSUME SerialDeletes PROVE Spec => []RegisteredIsComplete
<1>1. Inv => RegisteredIsComplete
    BY DEF Inv, StoreInv, Sound, RegisteredIsComplete
<1>2. QED
    BY <1>1, InvHolds, PTL

(* RegisteredByItsJob: what is registered came from a job that went through *)
(* to its end, never from a canceled or failed one.                         *)
THEOREM RegisteredByItsJobHolds ==
    ASSUME SerialDeletes PROVE Spec => []RegisteredByItsJob
<1>1. ASSUME Inv PROVE RegisteredByItsJob
    BY <1>1, ConstantsAssumption
       DEF Inv, StoreInv, Sound, Finished, RegisteredByItsJob
<1>2. QED
    BY <1>1, InvHolds, PTL

(* NeverOverwritten: no job replaces the files of a registered snapshot.    *)
THEOREM NeverOverwrittenHolds ==
    ASSUME SerialDeletes PROVE Spec => NeverOverwritten
<1> DEFINE Kept ==
        \A a \in Artifacts \ torn : \A s \in SnapshotsOf(a) :
            Registered(a, s)' => files'[DirOf(a, s)].by = files[DirOf(a, s)].by
<1>1. Inv /\ [Next]_vars => [Kept]_vars
  <2>1. ASSUME Inv, [Next]_vars, NEW a \in Artifacts \ torn, NEW s \in SnapshotsOf(a),
               Registered(a, s)'
        PROVE  files'[DirOf(a, s)].by = files[DirOf(a, s)].by
      BY <2>1, RegisteredFilesStay
  <2>2. QED
      BY <2>1
<1>2. QED
    BY <1>1, InvHolds, PTL DEF Spec, NeverOverwritten

-----------------------------------------------------------------------------
(* The active snapshot.                                                     *)
ActiveOf(a) ==
    IF SnapshotsOf(a) = {} THEN registry[a] = NoArtifact
    ELSE registry[a].active \in SnapshotsOf(a)

(* Whatever a step makes of an artifact has an active snapshot, or none.    *)
LEMMA ActiveNext ==
    ASSUME TypeOK, ActiveIsRegistered, [Next]_vars, NEW a \in Artifacts
    PROVE  ActiveOf(a)'
<1> USE DEF ActiveOf
<1>1. registry[a] \in Artifact /\ ActiveOf(a)
    BY DEF TypeOK, ActiveIsRegistered
<1>2. ASSUME registry'[a] = registry[a] PROVE ActiveOf(a)'
    BY <1>1, <1>2 DEF SnapshotsOf, Registered
<1>3. ASSUME registry'[a] = NoArtifact PROVE ActiveOf(a)'
    BY <1>3 DEF SnapshotsOf, Registered, NoArtifact
<1>4. ASSUME NEW j \in Jobs, registry' = Registering(j) PROVE ActiveOf(a)'
  <2>1. CASE a # job[j].art
      BY <1>2, <1>4, <2>1 DEF Registering, TypeOK
  <2>2. CASE a = job[j].art
    <3>1. job[j].snap \in Snapshots /\ thread[j].root \in Roots
        BY SMTT(60) DEF TypeOK, Job
    <3>2. /\ registry'[a].active = job[j].snap
          /\ registry'[a].at[job[j].snap] = thread[j].root
        BY <1>1, <1>4, <2>2, <3>1 DEF Registering, TypeOK, Artifact
    <3>3. thread[j].root # None
        BY <3>1, ConstantsAssumption
    <3>4. job[j].snap \in SnapshotsOf(a)'
        BY <3>1, <3>2, <3>3 DEF SnapshotsOf, Registered
    <3>5. QED
        BY <3>2, <3>4
  <2>3. QED
      BY <2>1, <2>2, SMTT(60)
<1>5. ASSUME NEW b \in Artifacts, NEW s \in Snapshots, NEW new \in Snapshots,
             DeleteSnapshot(b, s, new)
      PROVE  ActiveOf(a)'
  <2>1. CASE a # b
      BY <1>2, <1>5, <2>1 DEF DeleteSnapshot, TypeOK
  <2>2. CASE a = b /\ SnapshotsOf(a) = {s}
      BY <1>3, <1>5, <2>2 DEF DeleteSnapshot, WithoutSnapshot, TypeOK
  <2>3. CASE a = b /\ SnapshotsOf(a) # {s}
    <3>1. /\ registry'[a] = [registry[a] EXCEPT !.at[s] = None, !.active = new,
                                                !.degraded = @ \ {s}]
          /\ Replacement(a, s, new) /\ s \in SnapshotsOf(a)
        BY <1>5, <2>3
           DEF DeleteSnapshot, MayDeleteSnapshot, WithoutSnapshot, SnapshotsOf, TypeOK
    <3>2. new \in SnapshotsOf(a) \ {s}
        BY <1>1, <2>3, <3>1 DEF Replacement
    <3>3. registry'[a].active = new /\ registry'[a].at[new] = registry[a].at[new]
        BY <1>1, <3>1, <3>2 DEF Artifact
    <3>4. new \in SnapshotsOf(a)'
        BY <3>2, <3>3 DEF SnapshotsOf, Registered
    <3>5. QED
        BY <3>3, <3>4
  <2>4. QED
      BY <2>1, <2>2, <2>3
<1>6. ASSUME NEW b \in Artifacts, DeleteArtifact(b) PROVE ActiveOf(a)'
    BY <1>2, <1>3, <1>6 DEF DeleteArtifact, TypeOK
<1>7. ASSUME NEW b \in Artifacts, NEW s \in Snapshots, VerifyArtifact(b, s)
      PROVE  ActiveOf(a)'
  <2>1. CASE a # b
      BY <1>2, <1>7, <2>1 DEF VerifyArtifact, TypeOK
  <2>2. CASE a = b
    <3>1. registry'[a].at = registry[a].at /\ registry'[a].active = registry[a].active
        BY <1>1, <1>7, <2>2 DEF VerifyArtifact, TypeOK, Artifact
    <3>2. SnapshotsOf(a)' = SnapshotsOf(a) /\ s \in SnapshotsOf(a)
        BY <1>7, <2>2, <3>1 DEF SnapshotsOf, Registered, VerifyArtifact
    <3>3. QED
        BY <1>1, <3>1, <3>2
  <2>3. QED
      BY <2>1, <2>2
<1>8. ASSUME NEW j \in Jobs,
             \/ TaskStep(j) \/ CancelJob(j) \/ CleanJobStaging(j)
             \/ LateWrite(j) \/ ThreadEnds(j) \/ CrashInCommit(j)
      PROVE  UNCHANGED registry \/ registry' = Registering(j)
    BY <1>8
       DEF TaskStep, JobFails, BeginJob, Fetched, Hashed, CommitCheck,
           CommitReplace, CommitManifest, CommitFails, Commit, CommitFailed,
           CancelJob, CleanJobStaging, LateWrite, ThreadEnds, CrashInCommit
<1>9. ASSUME NEW j \in Jobs,
             \/ TaskStep(j) \/ CancelJob(j) \/ CleanJobStaging(j)
             \/ LateWrite(j) \/ ThreadEnds(j) \/ CrashInCommit(j)
      PROVE  ActiveOf(a)'
    BY <1>2, <1>4, <1>8, <1>9
<1>10. ASSUME NEW b \in Artifacts, NEW s \in Snapshots, NEW new \in Snapshots,
              DeleteSnapshotBreaks(b, s, new)
       PROVE  UNCHANGED registry
    BY <1>10 DEF DeleteSnapshotBreaks, DeletionBreaks
<1>11. ASSUME NEW b \in Artifacts, DeleteArtifactBreaks(b) PROVE UNCHANGED registry
    BY <1>11 DEF DeleteArtifactBreaks, DeletionBreaks
<1>12. QED
    BY <1>2, <1>5, <1>6, <1>7, <1>9, <1>10, <1>11
       DEF Next, StartJob, UpdateStorageRoot, Crash, vars

(* ActiveIsRegistered: the active snapshot of an artifact is one of its     *)
(* snapshots as long as it has any, whichever of them are deleted.          *)
THEOREM ActiveIsRegisteredHolds == Spec => []ActiveIsRegistered
<1>1. Init => ActiveIsRegistered
    BY DEF Init, ActiveIsRegistered, SnapshotsOf, Registered, NoArtifact
<1>2. TypeOK /\ ActiveIsRegistered /\ [Next]_vars => ActiveIsRegistered'
    BY ActiveNext DEF ActiveIsRegistered, ActiveOf
<1>3. QED
    BY <1>1, <1>2, TypeInit, TypeNext, PTL DEF Spec

-----------------------------------------------------------------------------
(* Plans: numbers in ascending order.                                      *)

LessThan == {pair \in Nat \X Nat : pair[1] < pair[2]}

\* The order of the numbers is well-founded.
LEMMA LessThanWellFounded == IsWellFoundedOn(LessThan, Nat)
  BY NatLessThanWellFounded DEF OpToRel, LessThan

\* A set of numbers that has a number has a least one.
LEMMA LeastNumber ==
    ASSUME NEW T, T \subseteq Nat, T # {}
    PROVE  \E x \in T : \A y \in T : x <= y
<1>1. PICK x \in T : \A y \in T : ~(<<y, x>> \in LessThan)
  BY LessThanWellFounded, WFMin
<1>2. ASSUME NEW y \in T PROVE x <= y
  <2>1. x \in Nat /\ y \in Nat
    OBVIOUS
  <2>2. ~(y < x)
    BY <1>1, <2>1 DEF LessThan
  <2>3. QED
    BY <2>1, <2>2
<1>3. QED
  BY <1>2

\* A set of numbers with a bound has a greatest one.
LEMMA GreatestNumber ==
    ASSUME NEW n \in Nat, NEW T, T \subseteq 0..n, T # {}
    PROVE  \E x \in T : \A y \in T : y <= x
<1> DEFINE U == {m \in Nat : n - m \in T}
<1>1. PICK z \in U : \A y \in U : z <= y
  <2>1. U # {}
    <3>1. PICK x \in T : TRUE
      OBVIOUS
    <3>2. n - x \in Nat /\ n - (n - x) = x
      OBVIOUS
    <3>3. QED
      BY <3>1, <3>2
  <2>2. U \subseteq Nat
    OBVIOUS
  <2> HIDE DEF U
  <2>3. QED
    BY <2>1, <2>2, LeastNumber
<1>2. ASSUME NEW y \in T PROVE y <= n - z
  <2>1. n - y \in Nat /\ n - (n - y) = y
    OBVIOUS
  <2>2. z <= n - y
    BY <1>1, <2>1
  <2>3. QED
    BY <2>1, <2>2
<1>3. QED
  BY <1>2

\* A set that has zero, and with a number the next, has every number.
LEMMA NumberInduction ==
    ASSUME NEW S, 0 \in S, \A n \in Nat : n \in S => n + 1 \in S
    PROVE  Nat \subseteq S
<1> DEFINE T == Nat \ S
<1>1. SUFFICES ASSUME T # {} PROVE FALSE
  OBVIOUS
<1>2. PICK x \in T : \A y \in T : x <= y
  BY <1>1, LeastNumber
<1>3. x # 0 /\ x - 1 \in Nat
  OBVIOUS
<1>4. QED
  BY <1>2, <1>3

\* The numbers of S below x, and how many they are.
Below(S, x) == {y \in S : y < x}

\* A finite set has as many numbers below one of its own as below the one before, and one.
LEMMA BelowNext ==
    ASSUME NEW S \in SUBSET Nat, IsFiniteSet(S), NEW x \in S, NEW y \in S, x < y,
           \A z \in S : x < z => y <= z
    PROVE  Cardinality(Below(S, y)) = Cardinality(Below(S, x)) + 1
<1>1. ASSUME NEW z \in S PROVE z < y <=> (z < x \/ z = x)
  <2>1. z \in Nat /\ x \in Nat /\ y \in Nat
    OBVIOUS
  <2>2. x < z => y <= z
    OBVIOUS
  <2>3. QED
    BY <2>1, <2>2
<1>4. Below(S, y) = Below(S, x) \cup {x} /\ x \notin Below(S, x)
  <2>1. ~(x < x)
    OBVIOUS
  <2>2. QED
    BY <1>1, <2>1, Zenon DEF Below
<1>2. IsFiniteSet(Below(S, x))
  BY FS_Subset DEF Below
<1>3. QED
  BY <1>2, <1>4, FS_AddElement

\* In a finite set there is a number with any number of others below it.
LEMMA RankExists ==
    ASSUME NEW S \in SUBSET Nat, IsFiniteSet(S)
    PROVE  \A i \in Nat : i < Cardinality(S) => \E x \in S : Cardinality(Below(S, x)) = i
<1> DEFINE N == {i \in Nat : i < Cardinality(S) => \E x \in S : Cardinality(Below(S, x)) = i}
<1>0. Cardinality(S) \in Nat
  BY FS_CardinalityType
<1>1. 0 \in N
  <2>1. SUFFICES ASSUME 0 < Cardinality(S)
                 PROVE  \E x \in S : Cardinality(Below(S, x)) = 0
    OBVIOUS
  <2>2. S # {}
    BY <2>1, FS_EmptySet
  <2>3. PICK x \in S : \A y \in S : x <= y
    BY <2>2, LeastNumber
  <2>4. Below(S, x) = {}
    <3>1. \A y \in S : ~(y < x)
      BY <2>3
    <3>2. QED
      BY <3>1, Zenon DEF Below
  <2>5. QED
    BY <2>4, FS_EmptySet
<1>2. ASSUME NEW i \in Nat, i \in N PROVE i + 1 \in N
  <2>1. SUFFICES ASSUME i + 1 < Cardinality(S)
                 PROVE  \E y \in S : Cardinality(Below(S, y)) = i + 1
    OBVIOUS
  <2>2. PICK x \in S : Cardinality(Below(S, x)) = i
    BY <1>0, <1>2, <2>1
  <2> DEFINE U == {y \in S : x < y}
  <2>3. U # {}
    <3>1. SUFFICES ASSUME U = {} PROVE FALSE
      OBVIOUS
    <3>2. S = Below(S, x) \cup {x} /\ x \notin Below(S, x)
      <4>1. ~(x < x) /\ \A y \in S : y < x \/ y = x
        BY <3>1
      <4>2. QED
        BY <4>1, Zenon DEF Below
    <3>3. IsFiniteSet(Below(S, x))
      BY FS_Subset DEF Below
    <3>4. Cardinality(S) = i + 1
      BY <2>2, <3>2, <3>3, FS_AddElement
    <3>5. QED
      BY <2>1, <3>4
  <2>4. PICK y \in U : \A z \in U : y <= z
    <3>1. U \subseteq Nat
      OBVIOUS
    <3> HIDE DEF U
    <3>2. QED
      BY <2>3, <3>1, LeastNumber
  <2>5. Cardinality(Below(S, y)) = i + 1
    BY <2>2, <2>4, BelowNext
  <2>6. QED
    BY <2>5
<1> HIDE DEF N
<1>3. Nat \subseteq N
  BY <1>1, <1>2, NumberInduction
<1>4. QED
  BY <1>3 DEF N

\* The numbers of a finite set in order are those of the set, each once.
LEMMA AscendingFacts ==
    ASSUME NEW S \in SUBSET Nat, IsFiniteSet(S)
    PROVE  /\ Cardinality(S) \in Nat
           /\ Ascending(S) \in Seq(S)
           /\ Len(Ascending(S)) = Cardinality(S)
           /\ \A i, j \in 1..Cardinality(S) : Ascending(S)[i] = Ascending(S)[j] => i = j
           /\ \A x \in S : \E i \in 1..Cardinality(S) : Ascending(S)[i] = x
<1> DEFINE n == Cardinality(S)
           At(i) == CHOOSE x \in S : Cardinality({y \in S : y < x}) = i - 1
<1>1. n \in Nat
  BY FS_CardinalityType
<1>2. ASSUME NEW i \in 1..n PROVE At(i) \in S /\ Cardinality(Below(S, At(i))) = i - 1
  <2>1. i - 1 \in Nat /\ i - 1 < n
    BY <1>1
  <2>2. \E x \in S : Cardinality(Below(S, x)) = i - 1
    BY <2>1, RankExists
  <2>3. QED
    BY <2>2 DEF Below
<1>3. Ascending(S) = [i \in 1..n |-> At(i)]
  BY DEF Ascending
<1> HIDE DEF At
<1>4. Ascending(S) \in Seq(S) /\ Len(Ascending(S)) = n
  BY <1>1, <1>2, <1>3
<1>5. ASSUME NEW i \in 1..n, NEW j \in 1..n, Ascending(S)[i] = Ascending(S)[j]
      PROVE  i = j
  <2>1. At(i) = At(j)
    BY <1>3, <1>5
  <2>2. i - 1 = j - 1
    BY <1>2, <2>1
  <2>3. QED
    BY <1>1, <2>2
<1>6. ASSUME NEW x \in S PROVE \E i \in 1..n : Ascending(S)[i] = x
  <2> DEFINE f == Ascending(S)
  <2>1. f \in Injection(1..n, S)
    BY <1>3, <1>2, <1>5 DEF Injection, IsInjective
  <2>2. IsFiniteSet(1..n) /\ Cardinality(1..n) = n
    BY <1>1, FS_Interval
  <2>3. f \in Surjection(1..n, S)
    BY <2>1, <2>2, FS_Injection
  <2>4. QED
    BY <2>3 DEF Surjection
<1>7. QED
  BY <1>1, <1>4, <1>5, <1>6

\* At most n elements of a sequence, in their order.
LEMMA SliceFacts ==
    ASSUME NEW X, NEW s \in Seq(X), NEW from \in Nat \ {0}, NEW n \in Nat
    PROVE  /\ Slice(s, from, n) \in Seq(X)
           /\ Len(Slice(s, from, n)) =
                IF from + n - 1 <= Len(s) THEN n ELSE IF from <= Len(s) THEN Len(s) - from + 1 ELSE 0
           /\ Len(Slice(s, from, n)) <= n
           /\ \A i \in 1..Len(Slice(s, from, n)) :
                /\ from + i - 1 \in 1..Len(s)
                /\ Slice(s, from, n)[i] = s[from + i - 1]
  BY DEF Slice

-----------------------------------------------------------------------------
(* Writes.                                                                 *)

\* The writes of a registry in A, of secrets in B, or of a unit u in C[u].
Writes(A, B, C) ==
    [to : {"plans"}, is : A] \cup [to : {"secrets"}, is : B]
      \cup UNION {[to : {"units"}, name : {u}, is : C[u]] : u \in UnitNames}

Touches(w, kind) == \E i \in DOMAIN w : w[i].to = kind
TouchesUnit(w, u) == \E i \in DOMAIN w : w[i].to = "units" /\ w[i].name = u

\* A write is of its kind.
LEMMA WriteKinds ==
    ASSUME NEW A, NEW B, NEW C, NEW x \in Writes(A, B, C)
    PROVE  /\ x.to \in {"plans", "secrets", "units"}
           /\ x.to = "plans" => x.is \in A
           /\ x.to = "secrets" => x.is \in B
           /\ x.to = "units" => x.name \in UnitNames /\ x.is \in C[x.name]
  BY DEF Writes

\* The last of some writes is one of them.
LEMMA LatestIsOne ==
    ASSUME NEW X, NEW w \in Seq(X), NEW S, S \subseteq DOMAIN w, NEW old
    PROVE  /\ S = {} => Latest(w, S, old) = old
           /\ S # {} => \E i \in S : Latest(w, S, old) = w[i].is
<1>1. CASE S = {}
  BY <1>1 DEF Latest
<1>2. CASE S # {}
  <2>1. S \subseteq 0..Len(w) /\ Len(w) \in Nat /\ S \subseteq Nat
    OBVIOUS
  <2>2. \E x \in S : \A y \in S : y <= x
    BY <1>2, <2>1, GreatestNumber
  <2>3. \E x \in S : \A y \in S : x >= y
    BY <2>1, <2>2
  <2>4. Max(S) \in S
    BY <2>3, Zenon DEF Max
  <2>5. QED
    BY <1>2, <2>4, Zenon DEF Latest
<1>3. QED
  BY <1>1, <1>2

\* After some writes a file is what one of them made it, or as it was.
LEMMA WrittenAllFacts ==
    ASSUME NEW A, NEW B, NEW C, NEW w \in Seq(Writes(A, B, C)), NEW held
    PROVE  LET after == WrittenAll(held, w) IN
           /\ after.plans \in IF Touches(w, "plans") THEN A ELSE {held.plans}
           /\ after.secrets \in IF Touches(w, "secrets") THEN B ELSE {held.secrets}
           /\ after.units = [u \in UnitNames |-> after.units[u]]
           /\ \A u \in UnitNames :
                after.units[u] \in IF TouchesUnit(w, u) THEN C[u] ELSE {held.units[u]}
<1> DEFINE to(kind) == {i \in DOMAIN w : w[i].to = kind}
           of(u) == {i \in to("units") : w[i].name = u}
           after == WrittenAll(held, w)
<1>1. /\ after.plans = Latest(w, to("plans"), held.plans)
      /\ after.secrets = Latest(w, to("secrets"), held.secrets)
      /\ after.units = [u \in UnitNames |-> Latest(w, of(u), held.units[u])]
  BY DEF WrittenAll
<1>2. \A i \in DOMAIN w : w[i] \in Writes(A, B, C)
  OBVIOUS
<1>3. after.plans \in IF Touches(w, "plans") THEN A ELSE {held.plans}
  <2>1. to("plans") \subseteq DOMAIN w /\ (Touches(w, "plans") <=> to("plans") # {})
    BY DEF Touches
  <2>2. \A i \in to("plans") : w[i].is \in A
    BY <1>2, WriteKinds
  <2> HIDE DEF to, after
  <2>3. QED
    BY <1>1, <2>1, <2>2, LatestIsOne
<1>4. after.secrets \in IF Touches(w, "secrets") THEN B ELSE {held.secrets}
  <2>1. to("secrets") \subseteq DOMAIN w /\ (Touches(w, "secrets") <=> to("secrets") # {})
    BY DEF Touches
  <2>2. \A i \in to("secrets") : w[i].is \in B
    BY <1>2, WriteKinds
  <2> HIDE DEF to, after
  <2>3. QED
    BY <1>1, <2>1, <2>2, LatestIsOne
<1>5. ASSUME NEW u \in UnitNames
      PROVE  after.units[u] \in IF TouchesUnit(w, u) THEN C[u] ELSE {held.units[u]}
  <2>1. of(u) \subseteq DOMAIN w /\ (TouchesUnit(w, u) <=> of(u) # {})
    BY DEF TouchesUnit
  <2>2. \A i \in of(u) : w[i].is \in C[u]
    BY <1>2, WriteKinds
  <2>3. after.units[u] = Latest(w, of(u), held.units[u])
    BY <1>1
  <2> HIDE DEF to, of, after
  <2>4. QED
    BY <2>1, <2>2, <2>3, LatestIsOne
<1>6. QED
  <2> HIDE DEF to, of
  <2>1. after.units = [u \in UnitNames |-> after.units[u]]
    BY <1>1
  <2>2. QED
    BY <1>3, <1>4, <1>5, <2>1

\* Writes after writes touch what either does.
LEMMA ConcatTouches ==
    ASSUME NEW X, NEW v \in Seq(X), NEW w \in Seq(X)
    PROVE  /\ v \o w \in Seq(X)
           /\ \A kind : Touches(v \o w, kind) <=> Touches(v, kind) \/ Touches(w, kind)
           /\ \A u : TouchesUnit(v \o w, u) <=> TouchesUnit(v, u) \/ TouchesUnit(w, u)
<1> DEFINE r == v \o w
<1>1. r \in Seq(X) /\ DOMAIN v = 1..Len(v) /\ DOMAIN w = 1..Len(w)
      /\ DOMAIN r = 1..(Len(v) + Len(w))
  OBVIOUS
<1>2. \A i \in 1..Len(v) : i \in DOMAIN r /\ r[i] = v[i]
  OBVIOUS
<1>3. \A i \in 1..Len(w) : Len(v) + i \in DOMAIN r /\ r[Len(v) + i] = w[i]
  OBVIOUS
<1>4. \A i \in DOMAIN r : i \in 1..Len(v) \/ (i - Len(v) \in 1..Len(w) /\ r[i] = w[i - Len(v)])
  OBVIOUS
<1> HIDE DEF r
<1>5. ASSUME NEW kind
      PROVE  Touches(r, kind) <=> Touches(v, kind) \/ Touches(w, kind)
  <2>1. Touches(v, kind) => Touches(r, kind)
    BY <1>1, <1>2 DEF Touches
  <2>2. Touches(w, kind) => Touches(r, kind)
    BY <1>1, <1>3 DEF Touches
  <2>3. Touches(r, kind) => Touches(v, kind) \/ Touches(w, kind)
    BY <1>1, <1>2, <1>4 DEF Touches
  <2>4. QED
    BY <2>1, <2>2, <2>3
<1>6. ASSUME NEW u
      PROVE  TouchesUnit(r, u) <=> TouchesUnit(v, u) \/ TouchesUnit(w, u)
  <2>1. TouchesUnit(v, u) => TouchesUnit(r, u)
    BY <1>1, <1>2 DEF TouchesUnit
  <2>2. TouchesUnit(w, u) => TouchesUnit(r, u)
    BY <1>1, <1>3 DEF TouchesUnit
  <2>3. TouchesUnit(r, u) => TouchesUnit(v, u) \/ TouchesUnit(w, u)
    BY <1>1, <1>2, <1>4 DEF TouchesUnit
  <2>4. QED
    BY <2>1, <2>2, <2>3
<1>7. QED
  BY <1>1, <1>5, <1>6 DEF r

\* The first n writes touch nothing that all do not.
LEMMA PrefixTouches ==
    ASSUME NEW X, NEW w \in Seq(X), NEW n \in 0..Len(w)
    PROVE  /\ SubSeq(w, 1, n) \in Seq(X)
           /\ \A kind : Touches(SubSeq(w, 1, n), kind) => Touches(w, kind)
           /\ \A u : TouchesUnit(SubSeq(w, 1, n), u) => TouchesUnit(w, u)
<1> DEFINE r == SubSeq(w, 1, n)
<1>1. r \in Seq(X) /\ DOMAIN r = 1..n /\ DOMAIN w = 1..Len(w)
      /\ \A i \in 1..n : i \in DOMAIN w /\ r[i] = w[i]
  OBVIOUS
<1> HIDE DEF r
<1>2. QED
  BY <1>1 DEF Touches, TouchesUnit, r

\* All writes are the first so many.
LEMMA PrefixWhole ==
    ASSUME NEW X, NEW w \in Seq(X)
    PROVE  SubSeq(w, 1, Len(w)) = w
  OBVIOUS

\* The first writes of two parts are of the first part.
LEMMA PrefixFirst ==
    ASSUME NEW X, NEW v \in Seq(X), NEW w \in Seq(X), NEW n \in 0..Len(v)
    PROVE  SubSeq(v \o w, 1, n) = SubSeq(v, 1, n)
  OBVIOUS

\* Single writes.
LEMMA RegistryWrites ==
    ASSUME NEW A, NEW B, NEW C, NEW r \in A
    PROVE  /\ ToRegistry(r) \in Seq(Writes(A, B, C))
           /\ Touches(ToRegistry(r), "plans") /\ ~Touches(ToRegistry(r), "secrets")
           /\ \A u : ~TouchesUnit(ToRegistry(r), u)
<1> DEFINE x == [to |-> "plans", is |-> r]
<1>1. x \in Writes(A, B, C) /\ x.to = "plans"
  BY DEF Writes
<1>2. ToRegistry(r) = <<x>>
  BY DEF ToRegistry
<1> HIDE DEF x
<1>3. QED
  BY <1>1, <1>2 DEF Touches, TouchesUnit

\* Writing the secrets writes nothing else.
LEMMA SecretsWrites ==
    ASSUME NEW A, NEW B, NEW C, NEW s \in B
    PROVE  /\ ToSecrets(s) \in Seq(Writes(A, B, C))
           /\ Touches(ToSecrets(s), "secrets") /\ ~Touches(ToSecrets(s), "plans")
           /\ \A u : ~TouchesUnit(ToSecrets(s), u)
<1> DEFINE x == [to |-> "secrets", is |-> s]
<1>1. x \in Writes(A, B, C) /\ x.to = "secrets"
  BY DEF Writes
<1>2. ToSecrets(s) = <<x>>
  BY DEF ToSecrets
<1> HIDE DEF x
<1>3. QED
  BY <1>1, <1>2 DEF Touches, TouchesUnit

\* The writes of the units of a profile are of these units, each with its content.
LEMMA UnitWrites ==
    ASSUME NEW A, NEW B, NEW C, NEW p \in PlannedProfiles,
           NEW names, names \subseteq {p} \X (0..MaxReplicas),
           NEW content, \A u \in names : content[u] \in C[u]
    PROVE  /\ ToUnits(p, names, content) \in Seq(Writes(A, B, C))
           /\ \A kind \in {"plans", "secrets"} : ~Touches(ToUnits(p, names, content), kind)
           /\ \A u : TouchesUnit(ToUnits(p, names, content), u) <=> u \in names
<1> DEFINE S == {n \in 0..MaxReplicas : <<p, n>> \in names}
           order == Ascending(S)
           w == ToUnits(p, names, content)
           W(i) == [to |-> "units", name |-> <<p, order[i]>>, is |-> content[<<p, order[i]>>]]
<1>1. S \in SUBSET Nat /\ IsFiniteSet(S)
  <2>1. MaxReplicas \in Nat
    BY PlansAssumption
  <2>2. IsFiniteSet(0..MaxReplicas)
    BY <2>1, FS_Interval
  <2>3. S \in SUBSET (0..MaxReplicas)
    OBVIOUS
  <2>4. S \in SUBSET Nat
    BY <2>1
  <2> HIDE DEF S
  <2>5. QED
    BY <2>2, <2>3, <2>4, FS_Subset
<1>2. /\ order \in Seq(S)
      /\ \A n \in S : \E i \in DOMAIN order : order[i] = n
  <2> HIDE DEF S
  <2>1. QED
    BY <1>1, AscendingFacts
<1>3. w = [i \in DOMAIN order |-> W(i)]
  BY DEF ToUnits
<1> HIDE DEF order
<1>4. ASSUME NEW i \in DOMAIN order PROVE W(i) \in Writes(A, B, C) /\ <<p, order[i]>> \in names
  <2>1. order[i] \in S
    BY <1>2
  <2>2. <<p, order[i]>> \in names /\ <<p, order[i]>> \in UnitNames
    BY <2>1 DEF UnitNames
  <2>3. content[<<p, order[i]>>] \in C[<<p, order[i]>>]
    BY <2>2
  <2>4. QED
    BY <2>2, <2>3 DEF Writes
<1>5. \A i \in DOMAIN order : W(i).to = "units" /\ W(i).name = <<p, order[i]>>
  OBVIOUS
<1>6. DOMAIN order = 1..Len(order) /\ Len(order) \in Nat
  BY <1>2
<1> HIDE DEF W, w
<1>7. w \in Seq(Writes(A, B, C)) /\ DOMAIN w = DOMAIN order /\ \A i \in DOMAIN w : w[i] = W(i)
  <2> DEFINE n == Len(order)
             Y == Writes(A, B, C)
  <2>1. w = [i \in 1..n |-> W(i)] /\ n \in Nat
    BY <1>3, <1>6
  <2>2. \A i \in 1..n : W(i) \in Y
    BY <1>4, <1>6
  <2> HIDE DEF n, Y
  <2>3. w \in Seq(Y) /\ DOMAIN w = 1..n /\ \A i \in 1..n : w[i] = W(i)
    BY <2>1, <2>2
  <2>4. QED
    BY <1>6, <2>3 DEF n, Y
<1>8. \A kind \in {"plans", "secrets"} : ~Touches(w, kind)
  <2>1. \A i \in DOMAIN w : w[i].to = "units"
    BY <1>5, <1>7
  <2>2. QED
    BY <2>1 DEF Touches
<1>9. ASSUME NEW u PROVE TouchesUnit(w, u) <=> u \in names
  <2>1. TouchesUnit(w, u) => u \in names
    BY <1>4, <1>5, <1>7 DEF TouchesUnit
  <2>2. ASSUME u \in names PROVE TouchesUnit(w, u)
    <3>1. PICK n \in 0..MaxReplicas : u = <<p, n>>
      BY <2>2
    <3>2. n \in S
      BY <2>2, <3>1
    <3>3. PICK i \in DOMAIN order : order[i] = n
      BY <1>2, <3>2
    <3>4. QED
      BY <1>5, <1>7, <3>1, <3>3 DEF TouchesUnit
  <2>3. QED
    BY <2>1, <2>2
<1>10. QED
  BY <1>7, <1>8, <1>9 DEF w

\* The writes of the units of a profile do not touch its registry and its keys.
LEMMA UnitWritesApart ==
    ASSUME NEW p, NEW names, NEW content
    PROVE  /\ ~Touches(ToUnits(p, names, content), "plans")
           /\ ~Touches(ToUnits(p, names, content), "secrets")
<1> DEFINE w == ToUnits(p, names, content)
<1>1. \A i \in DOMAIN w : w[i].to = "units"
  BY DEF ToUnits
<1> HIDE DEF w
<1>2. ~Touches(w, "plans") /\ ~Touches(w, "secrets")
  BY <1>1 DEF Touches
<1>3. QED
  BY <1>2 DEF w

\* Files whose contents are of some sets stay so under writes of these sets.
LEMMA WrittenAllStays ==
    ASSUME NEW A, NEW B, NEW C, NEW w \in Seq(Writes(A, B, C)), NEW held,
           held.plans \in A, held.secrets \in B, \A u \in UnitNames : held.units[u] \in C[u]
    PROVE  LET after == WrittenAll(held, w) IN
           /\ after.plans \in A /\ after.secrets \in B
           /\ after.units = [u \in UnitNames |-> after.units[u]]
           /\ \A u \in UnitNames : after.units[u] \in C[u]
<1> DEFINE after == WrittenAll(held, w)
<1>1. /\ after.plans \in IF Touches(w, "plans") THEN A ELSE {held.plans}
      /\ after.secrets \in IF Touches(w, "secrets") THEN B ELSE {held.secrets}
      /\ after.units = [u \in UnitNames |-> after.units[u]]
      /\ \A u \in UnitNames :
           after.units[u] \in IF TouchesUnit(w, u) THEN C[u] ELSE {held.units[u]}
  BY WrittenAllFacts
<1> HIDE DEF after
<1>2. QED
  BY <1>1 DEF after

\* A change leaves the files as they are, or with what it writes or writes back.
LEMMA ChangeStays ==
    ASSUME NEW A, NEW B, NEW C, plans \in A, secrets \in B,
           \A u \in UnitNames : unitFiles[u] \in C[u],
           NEW p \in PlannedProfiles, NEW names, names \subseteq {p} \X (0..MaxReplicas),
           NEW saves \in Seq(Writes(A, B, C)), NEW sync \in Seq(Writes(A, B, C)),
           NEW undo \in Seq(Writes(A, B, C)), NEW mayFail \in BOOLEAN,
           Change(p, saves, sync, names, undo, mayFail)
    PROVE  /\ plans' \in A /\ secrets' \in B
           /\ unitFiles' = [u \in UnitNames |-> unitFiles'[u]]
           /\ \A u \in UnitNames : unitFiles'[u] \in C[u]
<1> DEFINE writes == saves \o sync
           X == Writes(A, B, C)
           In(held) == /\ held.plans \in A /\ held.secrets \in B
                       /\ held.units = [u \in UnitNames |-> held.units[u]]
                       /\ \A u \in UnitNames : held.units[u] \in C[u]
           Done(n) == WrittenAll(Files, SubSeq(writes, 1, n))
           Back(n) == IF n < Len(saves) THEN undo ELSE RestoreUnits(p, names) \o undo
           Result(n) == IF n = Len(writes) THEN Done(n) ELSE WrittenAll(Done(n), Back(n))
<1>1. writes \in Seq(X)
  BY ConcatTouches
<1>2. PICK n \in 0..Len(writes) :
          plans' = Result(n).plans /\ secrets' = Result(n).secrets /\ unitFiles' = Result(n).units
  <2>1. Len(writes) \in 0..Len(writes)
    BY <1>1
  <2>2. QED
    BY <2>1, Zenon DEF Change, Outcomes
<1>3. In(Done(n))
  <2>1. SubSeq(writes, 1, n) \in Seq(X)
    BY <1>1, PrefixTouches
  <2>2. Files.plans \in A /\ Files.secrets \in B /\ \A u \in UnitNames : Files.units[u] \in C[u]
    BY DEF Files
  <2> DEFINE w == SubSeq(writes, 1, n)
             f == Files
  <2>3. Done(n) = WrittenAll(f, w) /\ w \in Seq(Writes(A, B, C))
    BY <2>1
  <2>4. f.plans \in A /\ f.secrets \in B /\ \A u \in UnitNames : f.units[u] \in C[u]
    BY <2>2
  <2> HIDE DEF w, f
  <2>5. In(WrittenAll(f, w))
    <3> HIDE DEF writes, Done
    <3>1. QED
      BY <2>3, <2>4, WrittenAllStays
  <2>6. QED
    BY <2>3, <2>5
<1>4. Back(n) \in Seq(X)
  <2>1. RestoreUnits(p, names) \in Seq(X)
    <3>1. \A u \in names : unitFiles[u] \in C[u]
      BY DEF UnitNames
    <3>2. QED
      BY <3>1, UnitWrites DEF RestoreUnits
  <2>2. RestoreUnits(p, names) \o undo \in Seq(X)
    BY <2>1, ConcatTouches
  <2>3. QED
    BY <2>2
<1>5. In(WrittenAll(Done(n), Back(n)))
  <2> DEFINE f == Done(n)
             w == Back(n)
  <2>1. /\ w \in Seq(Writes(A, B, C))
        /\ f.plans \in A /\ f.secrets \in B /\ \A u \in UnitNames : f.units[u] \in C[u]
    BY <1>3, <1>4
  <2> HIDE DEF f, w
  <2>2. In(WrittenAll(f, w))
    BY <2>1, WrittenAllStays
  <2>3. QED
    BY <2>2 DEF f, w
<1>6. In(Result(n))
  BY <1>3, <1>5
<1> HIDE DEF Result
<1>7. QED
  BY <1>2, <1>6

\* The writes of these very contents.
Exact(r, s, c) == Writes({r}, {s}, [u \in UnitNames |-> {c[u]}])

\* After writes of these very contents a file has its content or is as it was.
LEMMA WrittenAllExactly ==
    ASSUME NEW r, NEW s, NEW c, NEW w \in Seq(Exact(r, s, c)), NEW held
    PROVE  LET after == WrittenAll(held, w) IN
           /\ after.plans = IF Touches(w, "plans") THEN r ELSE held.plans
           /\ after.secrets = IF Touches(w, "secrets") THEN s ELSE held.secrets
           /\ after.units = [u \in UnitNames |-> IF TouchesUnit(w, u) THEN c[u] ELSE held.units[u]]
<1> DEFINE A == {r}
           B == {s}
           C == [u \in UnitNames |-> {c[u]}]
           after == WrittenAll(held, w)
<1>1. w \in Seq(Writes(A, B, C))
  BY DEF Exact
<1>2. \A u \in UnitNames : C[u] = {c[u]}
  OBVIOUS
<1>3. /\ after.plans \in IF Touches(w, "plans") THEN A ELSE {held.plans}
      /\ after.secrets \in IF Touches(w, "secrets") THEN B ELSE {held.secrets}
      /\ after.units = [u \in UnitNames |-> after.units[u]]
      /\ \A u \in UnitNames :
           after.units[u] \in IF TouchesUnit(w, u) THEN C[u] ELSE {held.units[u]}
  <2> HIDE DEF A, B, C
  <2>1. QED
    BY <1>1, WrittenAllFacts
<1> HIDE DEF after, C
<1>4. \A u \in UnitNames : after.units[u] = IF TouchesUnit(w, u) THEN c[u] ELSE held.units[u]
  BY <1>2, <1>3
<1>5. after.units = [u \in UnitNames |-> IF TouchesUnit(w, u) THEN c[u] ELSE held.units[u]]
  BY <1>3, <1>4
<1>6. QED
  BY <1>3, <1>5 DEF after

\* Restoring units writes each of them as it was.
LEMMA RestoreWrites ==
    ASSUME NEW p \in PlannedProfiles, NEW names, names \subseteq {p} \X (0..MaxReplicas)
    PROVE  /\ RestoreUnits(p, names) \in Seq(Exact(plans, secrets, unitFiles))
           /\ \A kind \in {"plans", "secrets"} : ~Touches(RestoreUnits(p, names), kind)
           /\ \A u : TouchesUnit(RestoreUnits(p, names), u) <=> u \in names
<1> DEFINE A == {plans}
           B == {secrets}
           C == [u \in UnitNames |-> {unitFiles[u]}]
<1>1. \A u \in names : unitFiles[u] \in C[u]
  BY DEF UnitNames
<1>2. /\ RestoreUnits(p, names) \in Seq(Writes(A, B, C))
      /\ \A kind \in {"plans", "secrets"} : ~Touches(RestoreUnits(p, names), kind)
      /\ \A u : TouchesUnit(RestoreUnits(p, names), u) <=> u \in names
  <2> HIDE DEF A, B, C
  <2>1. QED
    BY <1>1, UnitWrites, SMTT(60) DEF RestoreUnits
<1>3. QED
  BY <1>2 DEF Exact

\* The unit files after the writes w of these contents.
UnitsAfter(w, c) == [u \in UnitNames |-> IF TouchesUnit(w, u) THEN c[u] ELSE unitFiles[u]]

\* A change that is undone by writing back what was there is made as a whole or not at all.
LEMMA ChangeAllOrNothing ==
    ASSUME NEW r, NEW s, NEW c, PlansTypeOK,
           NEW p \in PlannedProfiles, NEW names, names \subseteq {p} \X (0..MaxReplicas),
           NEW saves \in Seq(Exact(r, s, c)),
           \A u : ~TouchesUnit(saves, u),
           NEW sync \in Seq(Exact(r, s, c)),
           \A kind \in {"plans", "secrets"} : ~Touches(sync, kind),
           \A u : TouchesUnit(sync, u) => u \in names,
           NEW undo, NEW mayFail \in BOOLEAN,
           mayFail => /\ undo \in Seq(Exact(plans, secrets, unitFiles))
                      /\ Touches(saves, "plans") => Touches(undo, "plans")
                      /\ Touches(saves, "secrets") => Touches(undo, "secrets"),
           Change(p, saves, sync, names, undo, mayFail)
    PROVE  \/ /\ plans' = IF Touches(saves, "plans") THEN r ELSE plans
              /\ secrets' = IF Touches(saves, "secrets") THEN s ELSE secrets
              /\ unitFiles' = UnitsAfter(sync, c)
           \/ mayFail /\ plans' = plans /\ secrets' = secrets /\ unitFiles' = unitFiles
<1> DEFINE writes == saves \o sync
           X == Exact(r, s, c)
           Y == Exact(plans, secrets, unitFiles)
           Done(n) == WrittenAll(Files, SubSeq(writes, 1, n))
           Back(n) == IF n < Len(saves) THEN undo ELSE RestoreUnits(p, names) \o undo
           Result(n) == IF n = Len(writes) THEN Done(n) ELSE WrittenAll(Done(n), Back(n))
<1>0. unitFiles = [u \in UnitNames |-> unitFiles[u]]
  BY DEF PlansTypeOK
<1>1. /\ writes \in Seq(X)
      /\ \A kind : Touches(writes, kind) <=> Touches(saves, kind) \/ Touches(sync, kind)
      /\ \A u : TouchesUnit(writes, u) <=> TouchesUnit(saves, u) \/ TouchesUnit(sync, u)
  BY ConcatTouches
<1>2. PICK n \in 0..Len(writes) :
          /\ ~mayFail => n = Len(writes)
          /\ plans' = Result(n).plans /\ secrets' = Result(n).secrets /\ unitFiles' = Result(n).units
  <2>1. Len(writes) \in 0..Len(writes)
    BY <1>1
  <2>2. QED
    BY <2>1, Zenon DEF Change, Outcomes
<1>3. Files.plans = plans /\ Files.secrets = secrets /\ Files.units = unitFiles
  BY DEF Files
<1> DEFINE w == SubSeq(writes, 1, n)
           after == Done(n)
<1>4. /\ w \in Seq(X)
      /\ \A kind : Touches(w, kind) => Touches(writes, kind)
      /\ \A u : TouchesUnit(w, u) => TouchesUnit(writes, u)
  <2> HIDE DEF writes
  <2>1. QED
    BY <1>1, PrefixTouches
<1>5. /\ after.plans = IF Touches(w, "plans") THEN r ELSE plans
      /\ after.secrets = IF Touches(w, "secrets") THEN s ELSE secrets
      /\ after.units = [u \in UnitNames |-> IF TouchesUnit(w, u) THEN c[u] ELSE unitFiles[u]]
  <2> DEFINE f == Files
  <2>1. after = WrittenAll(f, w)
    OBVIOUS
  <2> HIDE DEF after, w, X, f
  <2>2. /\ after.plans = IF Touches(w, "plans") THEN r ELSE f.plans
        /\ after.secrets = IF Touches(w, "secrets") THEN s ELSE f.secrets
        /\ after.units = [u \in UnitNames |-> IF TouchesUnit(w, u) THEN c[u] ELSE f.units[u]]
    BY <1>4, <2>1, WrittenAllExactly DEF X
  <2>3. QED
    BY <1>3, <2>2 DEF f
<1>6. CASE n = Len(writes)
  <2>1. w = writes
    <3> HIDE DEF writes
    <3>1. QED
      BY <1>1, <1>6, PrefixWhole
  <2>2. /\ Touches(w, "plans") <=> Touches(saves, "plans")
        /\ Touches(w, "secrets") <=> Touches(saves, "secrets")
        /\ \A u : TouchesUnit(w, u) <=> TouchesUnit(sync, u)
    <3> HIDE DEF w, writes
    <3>1. QED
      BY <1>1, <2>1
  <2>3. plans' = after.plans /\ secrets' = after.secrets /\ unitFiles' = after.units
    BY <1>2, <1>6
  <2> HIDE DEF after, w, writes
  <2>4. /\ plans' = IF Touches(saves, "plans") THEN r ELSE plans
        /\ secrets' = IF Touches(saves, "secrets") THEN s ELSE secrets
    BY <1>5, <2>2, <2>3
  <2>5. unitFiles' = [u \in UnitNames |-> IF TouchesUnit(sync, u) THEN c[u] ELSE unitFiles[u]]
    BY <1>5, <2>2, <2>3
  <2>6. QED
    BY <2>4, <2>5 DEF UnitsAfter
<1>7. CASE n # Len(writes)
  <2> DEFINE b == Back(n)
             restored == WrittenAll(after, b)
  <2>1. mayFail
    BY <1>2, <1>7
  <2>2. /\ RestoreUnits(p, names) \in Seq(Y)
        /\ \A kind \in {"plans", "secrets"} : ~Touches(RestoreUnits(p, names), kind)
        /\ \A u : TouchesUnit(RestoreUnits(p, names), u) <=> u \in names
    BY RestoreWrites
  <2>3. /\ undo \in Seq(Y)
        /\ Touches(saves, "plans") => Touches(undo, "plans")
        /\ Touches(saves, "secrets") => Touches(undo, "secrets")
    BY <2>1
  <2>4. /\ b \in Seq(Y)
        /\ Touches(saves, "plans") => Touches(b, "plans")
        /\ Touches(saves, "secrets") => Touches(b, "secrets")
        /\ n >= Len(saves) => \A u \in names : TouchesUnit(b, u)
    <3> DEFINE rs == RestoreUnits(p, names)
    <3>1. /\ rs \o undo \in Seq(Y)
          /\ \A kind : Touches(rs \o undo, kind) <=> Touches(rs, kind) \/ Touches(undo, kind)
          /\ \A u : TouchesUnit(rs \o undo, u) <=> TouchesUnit(rs, u) \/ TouchesUnit(undo, u)
      <4> HIDE DEF rs, Y
      <4>1. QED
        BY <2>2, <2>3, ConcatTouches DEF rs
    <3>2. CASE n < Len(saves)
      BY <2>3, <3>2
    <3>3. CASE n >= Len(saves)
      <4>1. b = rs \o undo
        BY <3>3
      <4> HIDE DEF b, rs, Y
      <4>2. QED
        BY <2>2, <2>3, <3>1, <4>1, <3>3 DEF rs
    <3>4. QED
      <4>1. n \in Nat /\ Len(saves) \in Nat
        OBVIOUS
      <4>2. n < Len(saves) \/ n >= Len(saves)
        BY <4>1
      <4>3. QED
        BY <3>2, <3>3, <4>2
  <2>5. \A u : TouchesUnit(w, u) => u \in names /\ n >= Len(saves)
    <3>1. ASSUME n < Len(saves), NEW u PROVE ~TouchesUnit(w, u)
      <4>1. w = SubSeq(saves, 1, n) /\ n \in 0..Len(saves)
        BY <3>1, PrefixFirst
      <4> HIDE DEF w
      <4>2. QED
        BY <4>1, PrefixTouches
    <3>2. \A u : TouchesUnit(w, u) => u \in names
      <4> HIDE DEF w, writes
      <4>1. QED
        BY <1>1, <1>4
    <3>3. n < Len(saves) \/ n >= Len(saves)
      OBVIOUS
    <3> HIDE DEF w
    <3>4. QED
      BY <3>1, <3>2, <3>3
  <2>6. /\ restored.plans = IF Touches(b, "plans") THEN plans ELSE after.plans
        /\ restored.secrets = IF Touches(b, "secrets") THEN secrets ELSE after.secrets
        /\ restored.units =
             [u \in UnitNames |-> IF TouchesUnit(b, u) THEN unitFiles[u] ELSE after.units[u]]
    <3> HIDE DEF b, after, Y
    <3>1. QED
      BY <2>4, WrittenAllExactly DEF Y
  <2>7. plans' = restored.plans /\ secrets' = restored.secrets /\ unitFiles' = restored.units
    BY <1>2, <1>7
  <2>8. (Touches(w, "plans") => Touches(saves, "plans"))
        /\ (Touches(w, "secrets") => Touches(saves, "secrets"))
    <3> HIDE DEF w, writes
    <3>1. QED
      BY <1>1, <1>4
  <2> HIDE DEF restored, after, b, w, writes
  <2>9. plans' = plans /\ secrets' = secrets
    BY <1>5, <2>4, <2>6, <2>7, <2>8
  <2>10. \A u \in UnitNames : restored.units[u] = unitFiles[u]
    BY <1>5, <2>4, <2>5, <2>6
  <2>11. unitFiles' = unitFiles
    <3>1. restored.units = [u \in UnitNames |-> restored.units[u]]
      BY <2>6
    <3>2. QED
      BY <1>0, <2>7, <2>10, <3>1
  <2>12. QED
    BY <2>1, <2>9, <2>11
<1>8. QED
  BY <1>6, <1>7

-----------------------------------------------------------------------------
(* Plans.                                                                  *)

\* The GPUs are as the draft d asks, whatever else there is.
GpusAsDrafted(d, gpus) ==
    /\ d.gpuMode = "profile" => \A i \in DOMAIN gpus : gpus[i] = OrElse(d.gpus, gpus[1])
    /\ d.gpuMode = "one_per_instance" =>
         \A i \in DOMAIN gpus : /\ Len(gpus[i]) = 1
                                /\ d.gpus # <<>> => gpus[i] = Slice(d.gpus, i, 1)
    /\ d.gpuMode = "explicit" => \A i \in DOMAIN gpus : gpus[i] = d.lists[i]

\* The GPUs of each instance.
PlacedOn(instances) == [i \in DOMAIN instances |-> instances[i].gpus]

\* The instances are as the draft d asks: planned again they would be the same.
AsDrafted(d, instances) ==
    /\ Len(instances) = d.replicas
    /\ d.portMode = "explicit" => \A i \in DOMAIN instances : instances[i].port = d.ports[i]
    /\ GpusAsDrafted(d, PlacedOn(instances))

Drafted == \A p \in PlannedProfiles : Saved(p) => AsDrafted(plans[p].draft, plans[p].instances)

\* A draft has fields of their kinds.
LEMMA DraftType ==
    ASSUME NEW d \in Drafts
    PROVE  /\ d \in DraftRecords
           /\ d.replicas \in 1..MaxReplicas /\ d.replicas \in Nat \ {0}
           /\ d.ports \in Seq(Nat) /\ d.gpus \in Seq(Nat) /\ d.lists \in Seq(Seq(Nat))
           /\ d.group \in Nat \ {0}
           /\ d.portMode \in {"auto", "contiguous", "explicit"}
           /\ d.gpuMode \in {"profile", "one_per_instance", "contiguous_groups", "explicit"}
<1>1. d \in DraftRecords
  BY PlansAssumption
<1>2. QED
  BY <1>1, PlansAssumption DEF DraftRecords

\* A saved profile is a record of its kind.
LEMMA SavedType ==
    ASSUME PlansTypeOK, NEW p \in PlannedProfiles, Saved(p)
    PROVE  /\ plans[p] \in ProfileRecords
           /\ plans[p].draft \in Drafts
           /\ plans[p].instances \in Seq(InstanceRecords)
           /\ plans[p].state \in {"running", "stopped"}
           /\ plans[p].key \in BOOLEAN
<1>1. plans[p] \in ProfileRecords
  BY DEF PlansTypeOK, Saved
<1>2. QED
  BY <1>1 DEF ProfileRecords

\* What goes on of a profile are its first instances.
LEMMA PreservedFacts ==
    ASSUME PlansTypeOK, NEW p \in PlannedProfiles, NEW n \in Nat
    PROVE  /\ InstancesOf(p) \in Seq(InstanceRecords)
           /\ Preserved(p, n) \in Seq(InstanceRecords)
           /\ Len(Preserved(p, n)) <= n /\ Len(Preserved(p, n)) <= Len(InstancesOf(p))
           /\ \A i \in 1..Len(Preserved(p, n)) : Preserved(p, n)[i] = InstancesOf(p)[i]
           /\ n = Len(InstancesOf(p)) => Preserved(p, n) = InstancesOf(p)
<1> DEFINE s == InstancesOf(p)
           X == InstanceRecords
<1>1. s \in Seq(X)
  BY SavedType DEF InstancesOf
<1> HIDE DEF s, X
<1>2. QED
  BY <1>1 DEF Preserved, Slice, s, X

\* A sequence over a set is one over a larger set.
LEMMA WiderSequences ==
    ASSUME NEW X, NEW Y, X \subseteq Y, NEW s \in Seq(X)
    PROVE  s \in Seq(Y) /\ \A i \in 1..Len(s) : s[i] \in X
<1>1. s \in [1..Len(s) -> X] /\ Len(s) \in Nat
  OBVIOUS
<1>2. s \in [1..Len(s) -> Y]
  BY <1>1
<1>3. QED
  BY <1>1, <1>2

\* A plan of GPUs is that of its mode.
LEMMA PlanOfMode ==
    ASSUME NEW p, NEW d
    PROVE  /\ d.gpuMode = "profile" => PlannedGpus(p, d) = SameForAll(p, d)
           /\ d.gpuMode = "one_per_instance" => PlannedGpus(p, d) = OnePerInstance(p, d)
           /\ d.gpuMode = "contiguous_groups" => PlannedGpus(p, d) = ContiguousGroups(p, d)
           /\ d.gpuMode = "explicit" => PlannedGpus(p, d) = ListedGpus(d)
  BY DEF PlannedGpus

\* The first n numbers in order are the numbers themselves.
LEMMA AscendingInterval ==
    ASSUME NEW n \in Nat
    PROVE  Ascending(1..n) = [i \in 1..n |-> i]
<1> DEFINE S == 1..n
           At(i) == CHOOSE x \in S : Cardinality({y \in S : y < x}) = i - 1
<1>1. Cardinality(S) = n
  BY FS_Interval
<1>2. ASSUME NEW x \in S PROVE Cardinality({y \in S : y < x}) = x - 1
  <2>1. {y \in S : y < x} = 1..(x - 1)
    OBVIOUS
  <2>2. Cardinality(1..(x - 1)) = x - 1
    BY FS_Interval
  <2>3. QED
    BY <2>1, <2>2
<1>3. ASSUME NEW i \in 1..n PROVE At(i) = i
  <2>1. i \in S /\ Cardinality({y \in S : y < i}) = i - 1
    BY <1>2
  <2>2. At(i) \in S /\ Cardinality({y \in S : y < At(i)}) = i - 1
    BY <2>1
  <2>3. Cardinality({y \in S : y < At(i)}) = At(i) - 1
    BY <1>2, <2>2
  <2> HIDE DEF At
  <2>4. QED
    BY <2>2, <2>3
<1>4. Ascending(S) = [i \in 1..n |-> At(i)]
  BY <1>1 DEF Ascending
<1> HIDE DEF At
<1>5. QED
  BY <1>3, <1>4

\* The GPUs that are not taken, each once.
LEMMA RemainingFacts ==
    ASSUME NEW taken
    PROVE  /\ Remaining(taken) \in Seq(Nat)
           /\ \A i \in 1..Len(Remaining(taken)) :
                Remaining(taken)[i] \in Gpus /\ Remaining(taken)[i] \notin taken
           /\ \A i, j \in 1..Len(Remaining(taken)) :
                Remaining(taken)[i] = Remaining(taken)[j] => i = j
<1> DEFINE S == Gpus \ taken
           r == Ascending(S)
<1>1. S \in SUBSET Nat /\ IsFiniteSet(S)
  <2>1. GpuCount \in Nat
    BY PlansAssumption
  <2>2. IsFiniteSet(Gpus) /\ Gpus \subseteq Nat
    BY <2>1, FS_Interval DEF Gpus
  <2>3. QED
    BY <2>2, FS_Subset
<1> HIDE DEF S
<1>2. /\ r \in Seq(S)
      /\ \A i, j \in 1..Len(r) : r[i] = r[j] => i = j
  BY <1>1, AscendingFacts
<1> HIDE DEF r
<1>3. r \in Seq(Nat) /\ \A i \in 1..Len(r) : r[i] \in S
  BY <1>1, <1>2, WiderSequences
<1>4. r = Remaining(taken)
  BY DEF r, S, Remaining
<1>5. QED
  BY <1>2, <1>3, <1>4 DEF S

\* The GPUs of instances that go on.
LEMMA PreservedGpus ==
    ASSUME PlansTypeOK, NEW p \in PlannedProfiles, NEW n \in Nat, NEW i \in 1..Len(Preserved(p, n))
    PROVE  /\ Preserved(p, n)[i].gpus \in Seq(Nat)
           /\ Preserved(p, n)[i].gpus \in Seq(Gpus)
           /\ i \in DOMAIN InstancesOf(p)
           /\ Preserved(p, n)[i] = InstancesOf(p)[i]
<1>1. /\ Preserved(p, n) \in Seq(InstanceRecords) /\ InstancesOf(p) \in Seq(InstanceRecords)
      /\ Len(Preserved(p, n)) <= Len(InstancesOf(p))
      /\ Preserved(p, n)[i] = InstancesOf(p)[i]
  BY PreservedFacts
<1>2. Preserved(p, n)[i] \in InstanceRecords
  BY <1>1
<1>3. Preserved(p, n)[i].gpus \in Seq(Gpus)
  BY <1>2 DEF InstanceRecords
<1>4. Gpus \subseteq Nat
  BY PlansAssumption DEF Gpus
<1> DEFINE g == Preserved(p, n)[i].gpus
<1>5. g \in Seq(Nat)
  <2> HIDE DEF g
  <2>1. g \in Seq(Gpus)
    BY <1>3 DEF g
  <2>2. QED
    BY <1>4, <2>1, WiderSequences
<1>6. QED
  BY <1>1, <1>3, <1>5

\* The GPUs that are kept are GPUs of instances, of one instance at most each.
LEMMA KeptSinglesFacts ==
    ASSUME PlansTypeOK, NEW p \in PlannedProfiles, NEW n \in Nat
    PROVE  /\ KeptSingles(p, n) \in Seq(Nat)
           /\ Len(KeptSingles(p, n)) \in Nat
           /\ \E at \in [1..Len(KeptSingles(p, n)) -> 1..Len(Preserved(p, n))] :
                /\ \A k, l \in DOMAIN at : at[k] = at[l] => k = l
                /\ \A k \in DOMAIN at :
                     /\ Len(Preserved(p, n)[at[k]].gpus) = 1
                     /\ KeptSingles(p, n)[k] = Preserved(p, n)[at[k]].gpus[1]
<1> DEFINE preserved == Preserved(p, n)
           S == {i \in DOMAIN preserved : Len(preserved[i].gpus) = 1}
           single == Ascending(S)
           m == Len(single)
           kept == KeptSingles(p, n)
<1>1. preserved \in Seq(InstanceRecords) /\ DOMAIN preserved = 1..Len(preserved)
      /\ Len(preserved) \in Nat
  <2>1. preserved \in Seq(InstanceRecords)
    BY PreservedFacts
  <2> HIDE DEF preserved
  <2>2. QED
    BY <2>1
<1>2. S \in SUBSET Nat /\ IsFiniteSet(S) /\ S \subseteq 1..Len(preserved)
  <2>1. IsFiniteSet(1..Len(preserved))
    BY <1>1, FS_Interval
  <2>2. S \subseteq 1..Len(preserved)
    BY <1>1
  <2>3. QED
    BY <1>1, <2>1, <2>2, FS_Subset
<1>3. \A i \in S : Len(preserved[i].gpus) = 1
  OBVIOUS
<1>4. kept = [k \in DOMAIN single |-> preserved[single[k]].gpus[1]]
  BY DEF KeptSingles
<1>5. \A i \in 1..Len(preserved) : preserved[i].gpus \in Seq(Nat)
  BY PreservedGpus
<1> HIDE DEF S, preserved, kept
<1>6. /\ single \in Seq(S) /\ m \in Nat /\ DOMAIN single = 1..m
      /\ \A i, j \in 1..m : single[i] = single[j] => i = j
  BY <1>2, AscendingFacts
<1> HIDE DEF single
<1>7. ASSUME NEW k \in 1..m
      PROVE  single[k] \in 1..Len(preserved) /\ Len(preserved[single[k]].gpus) = 1
             /\ preserved[single[k]].gpus[1] \in Nat
  <2>1. single[k] \in S
    BY <1>6
  <2>2. single[k] \in 1..Len(preserved) /\ Len(preserved[single[k]].gpus) = 1
    BY <1>2, <1>3, <2>1
  <2> DEFINE g == preserved[single[k]].gpus
  <2>3. g \in Seq(Nat) /\ Len(g) = 1
    BY <1>5, <2>2
  <2> HIDE DEF g
  <2>4. g[1] \in Nat
    BY <2>3
  <2>5. QED
    BY <2>2, <2>4 DEF g
<1>8. kept \in Seq(Nat) /\ Len(kept) = m /\ \A k \in 1..m : kept[k] = preserved[single[k]].gpus[1]
  <2> DEFINE G(k) == preserved[single[k]].gpus[1]
  <2>1. kept = [k \in 1..m |-> G(k)] /\ \A k \in 1..m : G(k) \in Nat
    BY <1>4, <1>6, <1>7
  <2> HIDE DEF G, m
  <2>2. kept \in Seq(Nat) /\ Len(kept) = m /\ \A k \in 1..m : kept[k] = G(k)
    BY <2>1, <1>6
  <2>3. QED
    BY <2>2 DEF G
<1> DEFINE at == [k \in 1..m |-> single[k]]
<1>9. at \in [1..m -> 1..Len(preserved)]
  BY <1>7
<1>10. \A k, l \in DOMAIN at : at[k] = at[l] => k = l
  BY <1>6
<1>11. \A k \in DOMAIN at : Len(preserved[at[k]].gpus) = 1 /\ kept[k] = preserved[at[k]].gpus[1]
  BY <1>7, <1>8
<1> HIDE DEF at, m
<1>12. /\ kept \in Seq(Nat) /\ Len(kept) \in Nat
       /\ at \in [1..Len(kept) -> 1..Len(preserved)]
  BY <1>6, <1>8, <1>9
<1>13. QED
  BY <1>10, <1>11, <1>12 DEF kept, preserved

\* A slice of one element, and of any number.
LEMMA SliceOne ==
    ASSUME NEW X, NEW s \in Seq(X), NEW i \in 1..Len(s)
    PROVE  /\ Slice(s, i, 1) \in Seq(X)
           /\ Len(Slice(s, i, 1)) = 1
           /\ Slice(s, i, 1)[1] = s[i]
  BY DEF Slice

\* A part of a sequence has elements of the same set.
LEMMA SliceType ==
    ASSUME NEW X, NEW s \in Seq(X), NEW from \in Nat \ {0}, NEW n \in Nat
    PROVE  Slice(s, from, n) \in Seq(X)
  BY SliceFacts

\* The candidates for GPUs of their own are GPUs.
LEMMA CandidatesType ==
    ASSUME PlansTypeOK, NEW p \in PlannedProfiles, NEW d \in Drafts
    PROVE  /\ Candidates(p, d) \in Seq(Nat)
           /\ d.gpus # <<>> => Candidates(p, d) = d.gpus
           /\ d.gpus = <<>> => Candidates(p, d) =
                KeptSingles(p, d.replicas) \o Remaining(ToSet(KeptSingles(p, d.replicas)))
<1>1. d.gpus \in Seq(Nat) /\ d.replicas \in Nat
  BY DraftType
<1>2. KeptSingles(p, d.replicas) \in Seq(Nat)
  BY <1>1, KeptSinglesFacts
<1>3. Remaining(ToSet(KeptSingles(p, d.replicas))) \in Seq(Nat)
  BY RemainingFacts
<1>4. QED
  BY <1>1, <1>2, <1>3 DEF Candidates, OrElse

\* The candidates for groups of GPUs are GPUs.
LEMMA GroupCandidatesType ==
    ASSUME NEW p \in PlannedProfiles, NEW d \in Drafts
    PROVE  GroupCandidates(p, d) \in Seq(Nat)
<1>1. d.gpus \in Seq(Nat)
  BY DraftType
<1> DEFINE kept == Preserved(p, d.replicas)
           taken == UNION {ToSet(kept[i].gpus) : i \in DOMAIN kept}
<1>2. GroupCandidates(p, d) = OrElse(d.gpus, Remaining(taken))
  BY DEF GroupCandidates
<1> HIDE DEF taken
<1>3. Remaining(taken) \in Seq(Nat)
  BY RemainingFacts
<1>4. QED
  BY <1>1, <1>2, <1>3 DEF OrElse

\* The GPUs of the i-th instance in each mode.
LEMMA InModeProfile ==
    ASSUME NEW p, NEW d, d.gpuMode = "profile"
    PROVE  PlannedGpus(p, d).gpus = [i \in 1..d.replicas |->
             OrElse(d.gpus, IF Preserved(p, d.replicas) = <<>> THEN <<>>
                            ELSE Preserved(p, d.replicas)[1].gpus)]
<1> DEFINE same == OrElse(d.gpus, IF Preserved(p, d.replicas) = <<>> THEN <<>>
                                  ELSE Preserved(p, d.replicas)[1].gpus)
           f == [i \in 1..d.replicas |-> same]
<1>1. PlannedGpus(p, d) = SameForAll(p, d)
  BY PlanOfMode
<1>2. SameForAll(p, d) = [enough |-> TRUE, gpus |-> f]
  BY Zenon DEF SameForAll
<1> HIDE DEF f
<1>3. PlannedGpus(p, d).gpus = f
  BY <1>1, <1>2
<1>4. QED
  BY <1>3 DEF f

\* One GPU for each instance, of the candidates in their order.
LEMMA InModeOnePerInstance ==
    ASSUME NEW p, NEW d, d.gpuMode = "one_per_instance"
    PROVE  /\ PlannedGpus(p, d).gpus = [i \in 1..d.replicas |-> Slice(Candidates(p, d), i, 1)]
           /\ PlannedGpus(p, d).enough <=> Len(Candidates(p, d)) >= d.replicas
<1>1. PlannedGpus(p, d) = OnePerInstance(p, d)
  BY PlanOfMode
<1> DEFINE e == Len(Candidates(p, d)) >= d.replicas
           f == [i \in 1..d.replicas |-> Slice(Candidates(p, d), i, 1)]
<1>2. OnePerInstance(p, d) = [enough |-> e, gpus |-> f]
  BY Zenon DEF OnePerInstance
<1> HIDE DEF e, f
<1>3. PlannedGpus(p, d).gpus = f /\ (PlannedGpus(p, d).enough = e)
  BY <1>1, <1>2
<1>4. QED
  BY <1>3 DEF e, f

\* A group of GPUs for each instance that is new, of the candidates in their order.
LEMMA InModeGroups ==
    ASSUME NEW p, NEW d, d.gpuMode = "contiguous_groups"
    PROVE  /\ PlannedGpus(p, d).gpus =
             [i \in 1..d.replicas |->
                IF i <= Len(Preserved(p, d.replicas)) THEN Preserved(p, d.replicas)[i].gpus
                ELSE Slice(GroupCandidates(p, d),
                           (i - Len(Preserved(p, d.replicas)) - 1) * d.group + 1, d.group)]
           /\ PlannedGpus(p, d).enough <=>
                Len(Preserved(p, d.replicas)) * d.group + Len(GroupCandidates(p, d))
                  >= d.replicas * d.group
<1>1. PlannedGpus(p, d) = ContiguousGroups(p, d)
  BY PlanOfMode
<1> DEFINE e == Len(Preserved(p, d.replicas)) * d.group + Len(GroupCandidates(p, d))
                  >= d.replicas * d.group
           f == [i \in 1..d.replicas |->
                   IF i <= Len(Preserved(p, d.replicas)) THEN Preserved(p, d.replicas)[i].gpus
                   ELSE Slice(GroupCandidates(p, d),
                              (i - Len(Preserved(p, d.replicas)) - 1) * d.group + 1, d.group)]
<1>2. ContiguousGroups(p, d) = [enough |-> e, gpus |-> f]
  BY Zenon DEF ContiguousGroups
<1> HIDE DEF e, f
<1>3. PlannedGpus(p, d).gpus = f /\ (PlannedGpus(p, d).enough = e)
  BY <1>1, <1>2
<1>4. QED
  BY <1>3 DEF e, f

\* The GPUs that are listed.
LEMMA InModeExplicit ==
    ASSUME NEW p, NEW d, d.gpuMode = "explicit"
    PROVE  /\ PlannedGpus(p, d).gpus = d.lists
           /\ PlannedGpus(p, d).enough <=> Len(d.lists) = d.replicas
<1>1. PlannedGpus(p, d) = ListedGpus(d)
  BY PlanOfMode
<1> DEFINE e == Len(d.lists) = d.replicas
           f == d.lists
<1>2. ListedGpus(d) = [enough |-> e, gpus |-> f]
  BY Zenon DEF ListedGpus
<1> HIDE DEF e, f
<1>3. PlannedGpus(p, d).gpus = f /\ (PlannedGpus(p, d).enough = e)
  BY <1>1, <1>2
<1>4. QED
  BY <1>3 DEF e, f

\* A group starts after those before it.
LEMMA GroupStart ==
    ASSUME NEW k \in Nat, NEW g \in Nat \ {0}, NEW i \in Nat, k < i
    PROVE  (i - k - 1) * g + 1 \in Nat \ {0}
<1>1. i - k - 1 \in Nat
  OBVIOUS
<1>2. \A m \in Nat : m * g + 1 \in Nat \ {0}
  OBVIOUS
<1>3. QED
  BY <1>1, <1>2

\* There is a sequence of GPUs for each instance, and it is as the draft asks.
LEMMA GpusPlanned ==
    ASSUME PlansTypeOK, NEW p \in PlannedProfiles, NEW d \in Drafts, PlannedGpus(p, d).enough
    PROVE  /\ PlannedGpus(p, d).gpus \in Seq(Seq(Nat))
           /\ Len(PlannedGpus(p, d).gpus) = d.replicas
           /\ GpusAsDrafted(d, PlannedGpus(p, d).gpus)
<1> DEFINE g == PlannedGpus(p, d).gpus
           n == d.replicas
           kept == Preserved(p, n)
           X == Seq(Nat)
<1>0. /\ n \in Nat \ {0} /\ d.gpus \in X /\ d.lists \in Seq(X) /\ d.group \in Nat \ {0}
      /\ d.gpuMode \in {"profile", "one_per_instance", "contiguous_groups", "explicit"}
  BY DraftType
<1>1. /\ \A i \in 1..Len(kept) : kept[i].gpus \in X
      /\ Len(kept) \in Nat /\ (kept # <<>> => 1 \in 1..Len(kept))
  <2>1. \A i \in 1..Len(kept) : kept[i].gpus \in X
    BY <1>0, PreservedGpus
  <2>2. kept \in Seq(InstanceRecords)
    BY <1>0, PreservedFacts
  <2> HIDE DEF kept, X
  <2>3. QED
    BY <2>1, <2>2
<1>2. CASE d.gpuMode = "profile"
  <2> DEFINE same == OrElse(d.gpus, IF kept = <<>> THEN <<>> ELSE kept[1].gpus)
  <2>1. g = [i \in 1..n |-> same]
    BY <1>2, InModeProfile
  <2>2. same \in X
    <3>1. <<>> \in X
      OBVIOUS
    <3> HIDE DEF X, kept
    <3>2. QED
      BY <1>0, <1>1, <3>1 DEF OrElse
  <2>3. same = OrElse(d.gpus, same)
    BY DEF OrElse
  <2> HIDE DEF X, same, g, n
  <2>4. g \in Seq(X) /\ Len(g) = n /\ \A i \in DOMAIN g : g[i] = same /\ g[1] = same
    BY <1>0, <2>1, <2>2
  <2>5. GpusAsDrafted(d, g)
    BY <1>2, <2>3, <2>4 DEF GpusAsDrafted
  <2>6. QED
    BY <2>4, <2>5 DEF g, n, X
<1>3. CASE d.gpuMode = "one_per_instance"
  <2> DEFINE c == Candidates(p, d)
  <2>1. g = [i \in 1..n |-> Slice(c, i, 1)] /\ Len(c) >= n
    BY <1>3, InModeOnePerInstance
  <2>2. c \in Seq(Nat) /\ (d.gpus # <<>> => c = d.gpus)
    BY CandidatesType
  <2> HIDE DEF c, g, n
  <2>3. ASSUME NEW i \in 1..n PROVE Slice(c, i, 1) \in X /\ Len(Slice(c, i, 1)) = 1
    <3>1. i \in 1..Len(c)
      BY <1>0, <2>1, <2>2, <2>3
    <3> HIDE DEF X
    <3>2. Slice(c, i, 1) \in Seq(Nat) /\ Len(Slice(c, i, 1)) = 1
      BY <2>2, <3>1, SliceOne
    <3>3. QED
      BY <3>2 DEF X
  <2> DEFINE G(i) == Slice(c, i, 1)
  <2>4. \A i \in 1..n : G(i) \in X /\ Len(G(i)) = 1
    BY <2>3
  <2>5. g = [i \in 1..n |-> G(i)]
    BY <2>1
  <2>6. \A i \in 1..n : d.gpus # <<>> => G(i) = Slice(d.gpus, i, 1)
    BY <2>2
  <2> HIDE DEF G, X
  <2>7. g \in Seq(X) /\ Len(g) = n /\ DOMAIN g = 1..n /\ \A i \in 1..n : g[i] = G(i)
    BY <1>0, <2>4, <2>5
  <2>8. GpusAsDrafted(d, g)
    BY <1>3, <2>4, <2>6, <2>7 DEF GpusAsDrafted
  <2>9. QED
    BY <2>7, <2>8 DEF g, n, X
<1>4. CASE d.gpuMode = "contiguous_groups"
  <2> DEFINE c == GroupCandidates(p, d)
             G(i) == IF i <= Len(kept) THEN kept[i].gpus
                     ELSE Slice(c, (i - Len(kept) - 1) * d.group + 1, d.group)
  <2>1. g = [i \in 1..n |-> G(i)]
    BY <1>4, InModeGroups
  <2>2. c \in Seq(Nat)
    BY GroupCandidatesType
  <2> HIDE DEF c, g, n, kept
  <2>3. ASSUME NEW i \in 1..n PROVE G(i) \in X
    <3>1. CASE i <= Len(kept)
      BY <1>0, <1>1, <3>1
    <3>2. CASE ~(i <= Len(kept))
      <4> DEFINE from == (i - Len(kept) - 1) * d.group + 1
      <4>1. from \in Nat \ {0}
        <5>1. i \in Nat /\ Len(kept) < i
          BY <1>0, <1>1, <3>2
        <5>2. QED
          BY <1>0, <1>1, <5>1, GroupStart
      <4>2. G(i) = Slice(c, from, d.group)
        BY <3>2
      <4> HIDE DEF from, G, X
      <4>3. Slice(c, from, d.group) \in Seq(Nat)
        BY <1>0, <2>2, <4>1, SliceType
      <4>4. QED
        BY <4>2, <4>3 DEF X
    <3>3. QED
      BY <3>1, <3>2
  <2> HIDE DEF G, X
  <2>4. g \in Seq(X) /\ Len(g) = n
    BY <1>0, <2>1, <2>3
  <2>5. GpusAsDrafted(d, g)
    BY <1>4 DEF GpusAsDrafted
  <2>6. QED
    BY <2>4, <2>5 DEF g, n, X
<1>5. CASE d.gpuMode = "explicit"
  <2>1. g = d.lists /\ Len(d.lists) = n
    BY <1>5, InModeExplicit
  <2>2. GpusAsDrafted(d, g)
    BY <1>5, <2>1 DEF GpusAsDrafted
  <2>3. QED
    BY <1>0, <2>1, <2>2
<1>6. QED
  BY <1>0, <1>2, <1>3, <1>4, <1>5

\* Planned again as drafted, the instances have the GPUs they have.
LEMMA GpusAgain ==
    ASSUME PlansTypeOK, Drafted, NEW p \in PlannedProfiles, Saved(p)
    PROVE  LET d == plans[p].draft IN
           PlannedGpus(p, d).enough =>
             \A i \in 1..d.replicas : PlannedGpus(p, d).gpus[i] = plans[p].instances[i].gpus
<1> DEFINE d == plans[p].draft
           is == plans[p].instances
           n == d.replicas
           g == PlannedGpus(p, d).gpus
           kept == Preserved(p, n)
<1>1. SUFFICES ASSUME PlannedGpus(p, d).enough PROVE \A i \in 1..n : g[i] = is[i].gpus
  OBVIOUS
<1>2. d \in Drafts /\ is \in Seq(InstanceRecords)
  BY SavedType
<1>3. AsDrafted(d, is)
  BY DEF Drafted
<1>4. /\ n \in Nat \ {0} /\ d.gpus \in Seq(Nat)
      /\ d.gpuMode \in {"profile", "one_per_instance", "contiguous_groups", "explicit"}
  <2> HIDE DEF d
  <2>1. QED
    BY <1>2, DraftType
<1>5. kept = is /\ Len(is) = n /\ DOMAIN is = 1..n
  <2>1. Len(is) = n /\ is = InstancesOf(p)
    BY <1>3 DEF AsDrafted, InstancesOf
  <2>2. kept = is
    <3> HIDE DEF n, is
    <3>1. QED
      BY <1>4, <2>1, PreservedFacts
  <2> HIDE DEF is, n, kept
  <2>3. QED
    BY <1>2, <2>1, <2>2
<1>6. DOMAIN PlacedOn(is) = 1..n /\ \A i \in 1..n : PlacedOn(is)[i] = is[i].gpus
  <2> HIDE DEF is, n
  <2>1. QED
    BY <1>5 DEF PlacedOn
<1>7. GpusAsDrafted(d, PlacedOn(is))
  BY <1>3 DEF AsDrafted
<1> HIDE DEF d
<1>8. CASE d.gpuMode = "profile"
  <2>1. \A i \in 1..n : is[i].gpus = OrElse(d.gpus, is[1].gpus)
    <3>1. 1 \in 1..n
      BY <1>4
    <3> HIDE DEF is, n
    <3>2. QED
      BY <1>6, <1>7, <1>8, <3>1 DEF GpusAsDrafted
  <2>2. kept # <<>>
    <3> HIDE DEF kept, is, n
    <3>1. QED
      BY <1>2, <1>4, <1>5
  <2>3. g = [i \in 1..n |-> OrElse(d.gpus, IF kept = <<>> THEN <<>> ELSE kept[1].gpus)]
    BY <1>8, InModeProfile
  <2> HIDE DEF is, g, n, kept
  <2>4. QED
    BY <1>5, <2>1, <2>2, <2>3
<1>9. CASE d.gpuMode = "one_per_instance"
  <2> DEFINE c == Candidates(p, d)
  <2>1. \A i \in 1..n : /\ Len(is[i].gpus) = 1
                        /\ d.gpus # <<>> => is[i].gpus = Slice(d.gpus, i, 1)
    <3> HIDE DEF is, n
    <3>1. QED
      BY <1>6, <1>7, <1>9 DEF GpusAsDrafted
  <2>2. g = [i \in 1..n |-> Slice(c, i, 1)]
    BY <1>9, InModeOnePerInstance
  <2>3. CASE d.gpus # <<>>
    <3>1. c = d.gpus
      BY <1>2, <2>3, CandidatesType
    <3> HIDE DEF c, g, n, is
    <3>2. QED
      BY <2>1, <2>2, <2>3, <3>1
  <2>4. CASE d.gpus = <<>>
    <3> DEFINE ks == KeptSingles(p, n)
               G(i) == is[i].gpus
    <3>1. c = ks \o Remaining(ToSet(ks))
      BY <1>2, <2>4, CandidatesType
    <3>2. ks = [k \in 1..n |-> is[k].gpus[1]]
      <4> DEFINE S == {i \in DOMAIN kept : Len(kept[i].gpus) = 1}
                 single == Ascending(S)
      <4>1. ks = [k \in DOMAIN single |-> kept[single[k]].gpus[1]]
        BY DEF KeptSingles
      <4>2. S = 1..n
        <5> HIDE DEF kept, is, n
        <5>1. QED
          BY <1>5, <2>1
      <4>3. single = [i \in 1..n |-> i]
        <5> HIDE DEF S, n
        <5>1. QED
          BY <1>4, <4>2, AscendingInterval
      <4> HIDE DEF ks, kept, S, single, n, is
      <4>4. DOMAIN single = 1..n /\ \A k \in 1..n : single[k] = k
        BY <4>3
      <4>5. QED
        BY <1>5, <4>1, <4>4
    <3>3. \A i \in 1..n : G(i) \in Seq(Nat) /\ Len(G(i)) = 1
      <4>1. \A i \in 1..Len(kept) : kept[i].gpus \in Seq(Nat)
        BY <1>4, PreservedGpus
      <4> HIDE DEF kept, is, n
      <4>2. QED
        BY <1>5, <2>1, <4>1
    <3>4. ks \in Seq(Nat) /\ Len(ks) = n /\ \A i \in 1..n : ks[i] = G(i)[1]
      <4> DEFINE H(i) == is[i].gpus[1]
      <4>1. \A i \in 1..n : H(i) \in Nat
        <5> HIDE DEF G, n
        <5>1. \A i \in 1..n : G(i)[1] \in Nat
          BY <3>3
        <5>2. QED
          BY <5>1 DEF G
      <4>2. ks = [k \in 1..n |-> H(k)]
        BY <3>2
      <4> HIDE DEF H, ks, n
      <4>3. ks \in Seq(Nat) /\ Len(ks) = n /\ \A i \in 1..n : ks[i] = H(i)
        BY <1>4, <4>1, <4>2
      <4>4. QED
        BY <4>3 DEF H
    <3>5. Remaining(ToSet(ks)) \in Seq(Nat)
      BY RemainingFacts
    <3> DEFINE rest == Remaining(ToSet(ks))
    <3> HIDE DEF c, g, n, is, ks, G, rest
    <3>6. c \in Seq(Nat) /\ Len(c) >= n /\ \A i \in 1..n : c[i] = ks[i]
      BY <1>4, <3>1, <3>4, <3>5 DEF rest
    <3>7. ASSUME NEW i \in 1..n PROVE Slice(c, i, 1) = G(i)
      <4>1. i \in 1..Len(c)
        BY <1>4, <3>6
      <4>2. /\ Slice(c, i, 1) \in Seq(Nat) /\ Len(Slice(c, i, 1)) = 1
            /\ Slice(c, i, 1)[1] = c[i]
        BY <3>6, <4>1, SliceOne
      <4>3. Slice(c, i, 1)[1] = G(i)[1]
        BY <3>4, <3>6, <4>1, <4>2
      <4> DEFINE x == Slice(c, i, 1)
                 y == G(i)
      <4>4. x \in Seq(Nat) /\ y \in Seq(Nat) /\ Len(x) = 1 /\ Len(y) = 1 /\ x[1] = y[1]
        BY <3>3, <4>2, <4>3
      <4> HIDE DEF x, y
      <4>5. x = y
        BY <4>4
      <4>6. QED
        BY <4>5 DEF x, y
    <3>8. QED
      BY <2>2, <3>7 DEF G
  <2>5. QED
    BY <2>3, <2>4
<1>10. CASE d.gpuMode = "contiguous_groups"
  <2> DEFINE G(i) == IF i <= Len(kept) THEN kept[i].gpus
                     ELSE Slice(GroupCandidates(p, d), (i - Len(kept) - 1) * d.group + 1, d.group)
  <2>1. g = [i \in 1..n |-> G(i)]
    BY <1>10, InModeGroups
  <2>2. ASSUME NEW i \in 1..n PROVE G(i) = is[i].gpus
    <3>1. i <= Len(kept)
      <4> HIDE DEF kept, is, n
      <4>1. QED
        BY <1>4, <1>5
    <3>2. kept[i].gpus = is[i].gpus
      BY <1>5
    <3> HIDE DEF kept, is
    <3>3. QED
      BY <3>1, <3>2
  <2> HIDE DEF g, G, n, is
  <2>3. QED
    BY <2>1, <2>2
<1>11. CASE d.gpuMode = "explicit"
  <2>1. g = d.lists
    BY <1>11, InModeExplicit
  <2>2. \A i \in 1..n : is[i].gpus = d.lists[i]
    <3> HIDE DEF is, n
    <3>1. QED
      BY <1>6, <1>7, <1>11 DEF GpusAsDrafted
  <2> HIDE DEF g, n, is
  <2>3. QED
    BY <2>1, <2>2
<1>12. QED
  BY <1>4, <1>8, <1>9, <1>10, <1>11

-----------------------------------------------------------------------------
(* GPUs of their own.                                                      *)

\* No two of the sequences have an element in common.
Apart(lists) == \A i, j \in DOMAIN lists : i # j => ToSet(lists[i]) \cap ToSet(lists[j]) = {}

\* The instances of every profile have different GPUs.
SeparateGpus == \A p \in PlannedProfiles : Saved(p) => Apart(PlacedOn(plans[p].instances))

\* Drafts of several instances give each of them other GPUs: no draft has its instances
\* share their GPUs, and what an operator lists for them does not overlap.
GpusChosenOnce ==
    \A d \in Drafts : d.replicas > 1 =>
        \/ d.gpuMode = "one_per_instance" /\ IsInjective(d.gpus)
        \/ d.gpuMode = "contiguous_groups" /\ d.gpus = <<>>
        \/ d.gpuMode = "explicit" /\ Apart(d.lists)

\* A sequence and another of different elements, of others, have different elements.
LEMMA ConcatOnce ==
    ASSUME NEW X, NEW s \in Seq(X), NEW t \in Seq(X),
           \A i, j \in 1..Len(s) : s[i] = s[j] => i = j,
           \A i, j \in 1..Len(t) : t[i] = t[j] => i = j,
           \A i \in 1..Len(s), j \in 1..Len(t) : s[i] # t[j]
    PROVE  \A i, j \in 1..Len(s \o t) : (s \o t)[i] = (s \o t)[j] => i = j
<1> DEFINE r == s \o t
           m == Len(s)
           n == Len(t)
<1>1. /\ Len(r) = m + n /\ m \in Nat /\ n \in Nat
      /\ \A i \in 1..m : r[i] = s[i]
      /\ \A i \in 1..n : r[m + i] = t[i]
  OBVIOUS
<1> HIDE DEF r, m, n
<1>2. \A i \in 1..Len(r) : i \in 1..m \/ \E k \in 1..n : i = m + k
  <2>1. ASSUME NEW i \in 1..Len(r), i \notin 1..m PROVE i - m \in 1..n /\ i = m + (i - m)
    BY <1>1, <2>1
  <2>2. QED
    BY <2>1
<1>3. \A i, j \in 1..m : r[i] = r[j] => i = j
  BY <1>1 DEF m
<1>4. \A k, l \in 1..n : r[m + k] = r[m + l] => k = l
  BY <1>1 DEF n
<1>5. \A i \in 1..m, k \in 1..n : r[i] # r[m + k]
  BY <1>1 DEF m, n
<1>6. QED
  <2>1. SUFFICES ASSUME NEW i \in 1..Len(r), NEW j \in 1..Len(r), r[i] = r[j] PROVE i = j
    BY DEF r
  <2>2. QED
    BY <1>2, <1>3, <1>4, <1>5, <2>1

\* The members of a sequence.
LEMMA InSet ==
    ASSUME NEW X, NEW s \in Seq(X)
    PROVE  /\ DOMAIN s = 1..Len(s)
           /\ \A x : x \in ToSet(s) <=> \E i \in 1..Len(s) : x = s[i]
  BY DEF ToSet

\* The GPUs kept for instances with one each are different.
LEMMA KeptSinglesOnce ==
    ASSUME PlansTypeOK, SeparateGpus, NEW p \in PlannedProfiles, NEW n \in Nat
    PROVE  \A k, l \in 1..Len(KeptSingles(p, n)) :
             KeptSingles(p, n)[k] = KeptSingles(p, n)[l] => k = l
<1> DEFINE ks == KeptSingles(p, n)
           kept == Preserved(p, n)
<1>1. PICK at \in [1..Len(ks) -> 1..Len(kept)] :
           /\ \A k, l \in DOMAIN at : at[k] = at[l] => k = l
           /\ \A k \in DOMAIN at : Len(kept[at[k]].gpus) = 1 /\ ks[k] = kept[at[k]].gpus[1]
  BY KeptSinglesFacts
<1>2. \A i \in 1..Len(kept) :
        kept[i].gpus \in Seq(Nat) /\ i \in DOMAIN InstancesOf(p) /\ kept[i] = InstancesOf(p)[i]
  BY PreservedGpus
<1> HIDE DEF ks, kept
<1>3. ASSUME NEW k \in 1..Len(ks) PROVE ks[k] \in ToSet(kept[at[k]].gpus)
  <2> DEFINE g == kept[at[k]].gpus
  <2>1. g \in Seq(Nat) /\ Len(g) = 1 /\ ks[k] = g[1]
    BY <1>1, <1>2
  <2> HIDE DEF g
  <2>2. ks[k] \in ToSet(g)
    BY <2>1, InSet
  <2>3. QED
    BY <2>2 DEF g
<1>4. ASSUME NEW i \in 1..Len(kept), NEW j \in 1..Len(kept), i # j
      PROVE  ToSet(kept[i].gpus) \cap ToSet(kept[j].gpus) = {}
  <2>1. i \in DOMAIN InstancesOf(p)
    BY <1>2
  <2>2. Saved(p) /\ InstancesOf(p) = plans[p].instances
    BY <2>1 DEF InstancesOf
  <2>3. Apart(PlacedOn(plans[p].instances))
    BY <2>2 DEF SeparateGpus
  <2> DEFINE is == plans[p].instances
  <2>4. i \in DOMAIN is /\ j \in DOMAIN is /\ kept[i] = is[i] /\ kept[j] = is[j]
    BY <1>2, <2>2
  <2> HIDE DEF is
  <2>5. ToSet(is[i].gpus) \cap ToSet(is[j].gpus) = {}
    BY <1>4, <2>3, <2>4 DEF Apart, PlacedOn, is
  <2>6. QED
    BY <2>4, <2>5
<1>5. ASSUME NEW k \in 1..Len(ks), NEW l \in 1..Len(ks), ks[k] = ks[l] PROVE k = l
  <2>1. ks[k] \in ToSet(kept[at[k]].gpus) /\ ks[k] \in ToSet(kept[at[l]].gpus)
    BY <1>3, <1>5
  <2>2. at[k] = at[l]
    BY <1>1, <1>4, <2>1
  <2>3. QED
    BY <1>1, <2>2
<1>6. QED
  BY <1>5 DEF ks

\* Elements of different groups are at different places.
LEMMA GroupsDiffer ==
    ASSUME NEW k \in Nat, NEW g \in Nat \ {0}, NEW i \in Nat, NEW j \in Nat, k < i, i < j,
           NEW a \in 1..g, NEW b \in 1..g
    PROVE  ((i - k - 1) * g + 1) + a - 1 # ((j - k - 1) * g + 1) + b - 1
<1> DEFINE m == i - k - 1
           r == j - i - 1
<1>1. m \in Nat /\ r \in Nat /\ j - k - 1 = m + 1 + r
  OBVIOUS
<1>2. \A x, y \in Nat : /\ (x + 1 + y) * g = x * g + g + y * g
                        /\ x * g \in Nat /\ y * g \in Nat
  OBVIOUS
<1> HIDE DEF r
<1>3. (j - k - 1) * g = m * g + g + r * g /\ m * g \in Nat /\ r * g \in Nat
  BY <1>1, <1>2
<1> DEFINE x == (j - k - 1) * g
           y == m * g
           z == r * g
<1> HIDE DEF x, y, z, m
<1>4. x = y + g + z /\ y \in Nat /\ z \in Nat
  BY <1>3 DEF x, y, z
<1>5. y + 1 + a - 1 # x + 1 + b - 1
  BY <1>4
<1>6. QED
  BY <1>5 DEF x, y, m

\* Singles from different places of a sequence of different elements are apart.
LEMMA SinglesApart ==
    ASSUME NEW c \in Seq(Nat), NEW n \in Nat, n <= Len(c),
           \A i, j \in 1..Len(c) : c[i] = c[j] => i = j
    PROVE  Apart([i \in 1..n |-> Slice(c, i, 1)])
<1> DEFINE g == [i \in 1..n |-> Slice(c, i, 1)]
<1>1. ASSUME NEW i \in 1..n, NEW x \in ToSet(Slice(c, i, 1)) PROVE x = c[i]
  <2> DEFINE s == Slice(c, i, 1)
  <2>1. i \in 1..Len(c)
    OBVIOUS
  <2>2. s \in Seq(Nat) /\ Len(s) = 1 /\ s[1] = c[i]
    BY <2>1, SliceOne
  <2>3. x \in ToSet(s)
    OBVIOUS
  <2> HIDE DEF s
  <2>4. PICK k \in 1..Len(s) : x = s[k]
    BY <2>2, <2>3, InSet
  <2>5. QED
    BY <2>2, <2>4
<1>2. ASSUME NEW i \in 1..n, NEW j \in 1..n, i # j
      PROVE  ToSet(Slice(c, i, 1)) \cap ToSet(Slice(c, j, 1)) = {}
  <2>1. c[i] # c[j]
    BY <1>2
  <2>2. QED
    BY <1>1, <1>2, <2>1
<1>3. DOMAIN g = 1..n /\ \A i \in 1..n : g[i] = Slice(c, i, 1)
  OBVIOUS
<1> HIDE DEF g
<1>4. Apart(g)
  BY <1>2, <1>3 DEF Apart
<1>5. QED
  BY <1>4 DEF g

\* The members of a slice are those of the sequence, at its places.
LEMMA SliceMembers ==
    ASSUME NEW X, NEW s \in Seq(X), NEW from \in Nat \ {0}, NEW n \in Nat
    PROVE  \A x \in ToSet(Slice(s, from, n)) :
             \E a \in 1..n : from + a - 1 \in 1..Len(s) /\ x = s[from + a - 1]
<1>1. Slice(s, from, n) \in Seq(X)
  BY SliceFacts
<1>2. Len(Slice(s, from, n)) <= n
  BY SliceFacts
<1>3. ASSUME NEW i \in 1..Len(Slice(s, from, n))
      PROVE from + i - 1 \in 1..Len(s) /\ Slice(s, from, n)[i] = s[from + i - 1]
  BY SliceFacts
<1>4. TAKE x \in ToSet(Slice(s, from, n))
<1>5. PICK a \in 1..Len(Slice(s, from, n)) : x = Slice(s, from, n)[a]
  BY <1>1, InSet
<1>6. a \in 1..n
  <2>1. Len(Slice(s, from, n)) \in Nat
    BY <1>1
  <2>2. QED
    BY <1>2, <2>1
<1>7. QED
  BY <1>3, <1>5, <1>6

\* A number is one of the n that a sequence holds from a place on.
HeldFrom(c, from, n, x) == \E a \in 1..n : from + a - 1 \in 1..Len(c) /\ x = c[from + a - 1]

\* A member of a slice of numbers is one of those the sequence holds there.
LEMMA SliceHeldFrom ==
    ASSUME NEW c \in Seq(Nat), NEW from \in Nat \ {0}, NEW n \in Nat,
           NEW x \in ToSet(Slice(c, from, n))
    PROVE  HeldFrom(c, from, n, x)
<1> DEFINE s == Slice(c, from, n)
<1>1. /\ s \in Seq(Nat) /\ Len(s) <= n
      /\ \A i \in 1..Len(s) : from + i - 1 \in 1..Len(c) /\ s[i] = c[from + i - 1]
  BY SliceFacts
<1>2. x \in ToSet(s)
  OBVIOUS
<1> HIDE DEF s
<1>3. PICK a \in 1..Len(s) : x = s[a]
  BY <1>1, <1>2, InSet
<1>4. a \in 1..n /\ from + a - 1 \in 1..Len(c) /\ x = c[from + a - 1]
  BY <1>1, <1>3
<1>5. QED
  BY <1>4 DEF HeldFrom

\* Groups from different places of a sequence of different elements are apart.
LEMMA GroupsApart ==
    ASSUME NEW c \in Seq(Nat), \A i, j \in 1..Len(c) : c[i] = c[j] => i = j,
           NEW k \in Nat, NEW g \in Nat \ {0}, NEW i \in Nat, NEW j \in Nat, k < i, i < j
    PROVE  ToSet(Slice(c, (i - k - 1) * g + 1, g)) \cap ToSet(Slice(c, (j - k - 1) * g + 1, g)) = {}
<1> DEFINE e == (i - k - 1) * g + 1
           f == (j - k - 1) * g + 1
<1>1. e \in Nat \ {0} /\ f \in Nat \ {0} /\ g \in Nat
  BY GroupStart
<1>2. \A a, b \in 1..g : e + a - 1 # f + b - 1
  BY GroupsDiffer
<1> HIDE DEF e, f
<1>3. ASSUME NEW x \in ToSet(Slice(c, e, g)), x \in ToSet(Slice(c, f, g)) PROVE FALSE
  <2>1. HeldFrom(c, e, g, x) /\ HeldFrom(c, f, g, x)
    BY <1>1, <1>3, SliceHeldFrom
  <2>2. PICK a \in 1..g : e + a - 1 \in 1..Len(c) /\ x = c[e + a - 1]
    BY <2>1 DEF HeldFrom
  <2>3. PICK b \in 1..g : f + b - 1 \in 1..Len(c) /\ x = c[f + b - 1]
    BY <2>1 DEF HeldFrom
  <2>4. e + a - 1 = f + b - 1
    BY <2>2, <2>3
  <2>5. QED
    BY <1>2, <2>4
<1>4. QED
  BY <1>3 DEF e, f

\* A slice has only members of the sequence.
LEMMA SliceWithin ==
    ASSUME NEW c \in Seq(Nat), NEW from \in Nat \ {0}, NEW n \in Nat
    PROVE  \A x \in ToSet(Slice(c, from, n)) : \E i \in 1..Len(c) : x = c[i]
  BY SliceMembers

\* Each instance with a GPU of its own: they are different.
LEMMA SinglesPlannedApart ==
    ASSUME PlansTypeOK, SeparateGpus, NEW p \in PlannedProfiles, NEW d \in Drafts,
           d.gpuMode = "one_per_instance", IsInjective(d.gpus), PlannedGpus(p, d).enough
    PROVE  Apart(PlannedGpus(p, d).gpus)
<1> DEFINE c == Candidates(p, d)
           ks == KeptSingles(p, d.replicas)
           rest == Remaining(ToSet(ks))
<1>1. d.replicas \in Nat /\ d.gpus \in Seq(Nat)
  BY DraftType
<1>2. /\ c \in Seq(Nat) /\ (d.gpus # <<>> => c = d.gpus)
      /\ (d.gpus = <<>> => c = ks \o rest)
  BY CandidatesType
<1>3. \A i, j \in 1..Len(c) : c[i] = c[j] => i = j
  <2>1. CASE d.gpus # <<>>
    <3>1. c = d.gpus
      BY <1>2, <2>1
    <3> HIDE DEF c
    <3>2. DOMAIN d.gpus = 1..Len(d.gpus)
      BY <1>1
    <3>3. QED
      BY <3>1, <3>2 DEF IsInjective
  <2>2. CASE d.gpus = <<>>
    <3>1. c = ks \o rest
      BY <1>2, <2>2
    <3>2. ks \in Seq(Nat) /\ \A i, j \in 1..Len(ks) : ks[i] = ks[j] => i = j
      BY <1>1, KeptSinglesFacts, KeptSinglesOnce
    <3>3. /\ rest \in Seq(Nat) /\ \A i, j \in 1..Len(rest) : rest[i] = rest[j] => i = j
          /\ \A i \in 1..Len(rest) : rest[i] \notin ToSet(ks)
      <4> DEFINE taken == ToSet(ks)
      <4> HIDE DEF taken
      <4>1. /\ Remaining(taken) \in Seq(Nat)
            /\ \A i, j \in 1..Len(Remaining(taken)) :
                 Remaining(taken)[i] = Remaining(taken)[j] => i = j
            /\ \A i \in 1..Len(Remaining(taken)) : Remaining(taken)[i] \notin taken
        BY RemainingFacts
      <4>2. QED
        BY <4>1 DEF taken
    <3> HIDE DEF c, ks, rest
    <3>4. \A i \in 1..Len(ks), j \in 1..Len(rest) : ks[i] # rest[j]
      BY <3>2, <3>3, InSet
    <3>5. \A i, j \in 1..Len(ks \o rest) : (ks \o rest)[i] = (ks \o rest)[j] => i = j
      BY <3>2, <3>3, <3>4, ConcatOnce
    <3>6. QED
      BY <3>1, <3>5
  <2>3. QED
    BY <2>1, <2>2
<1>4. PlannedGpus(p, d).gpus = [i \in 1..d.replicas |-> Slice(c, i, 1)] /\ Len(c) >= d.replicas
  BY InModeOnePerInstance
<1>5. Apart([i \in 1..d.replicas |-> Slice(c, i, 1)])
  <2> HIDE DEF c
  <2>1. d.replicas <= Len(c)
    BY <1>1, <1>2, <1>4
  <2>2. QED
    BY <1>1, <1>2, <1>3, <2>1, SinglesApart
<1>6. QED
  BY <1>4, <1>5

\* Groups of GPUs that are not taken: they are apart from those that go on, and from each other.
LEMMA GroupsPlannedApart ==
    ASSUME PlansTypeOK, SeparateGpus, NEW p \in PlannedProfiles, NEW d \in Drafts,
           d.gpuMode = "contiguous_groups", d.gpus = <<>>
    PROVE  Apart(PlannedGpus(p, d).gpus)
<1> DEFINE n == d.replicas
           kept == Preserved(p, n)
           k == Len(kept)
           taken == UNION {ToSet(kept[i].gpus) : i \in DOMAIN kept}
           c == Remaining(taken)
           from(i) == (i - k - 1) * d.group + 1
           G(i) == IF i <= k THEN kept[i].gpus ELSE Slice(c, from(i), d.group)
           g == PlannedGpus(p, d).gpus
<1>1. n \in Nat /\ d.group \in Nat \ {0}
  BY DraftType
<1>2. g = [i \in 1..n |-> G(i)]
  <2>1. GroupCandidates(p, d) = c
    BY DEF GroupCandidates, OrElse
  <2>2. QED
    BY <2>1, InModeGroups
<1>3. /\ kept \in Seq(InstanceRecords) /\ k \in Nat /\ DOMAIN kept = 1..k
      /\ InstancesOf(p) \in Seq(InstanceRecords) /\ k <= Len(InstancesOf(p))
      /\ \A i \in 1..k : kept[i] = InstancesOf(p)[i]
  <2>1. /\ kept \in Seq(InstanceRecords) /\ InstancesOf(p) \in Seq(InstanceRecords)
        /\ k <= Len(InstancesOf(p)) /\ \A i \in 1..k : kept[i] = InstancesOf(p)[i]
    BY <1>1, PreservedFacts
  <2> HIDE DEF kept
  <2>2. QED
    BY <2>1
<1>4. ASSUME NEW i \in 1..k PROVE ToSet(kept[i].gpus) \subseteq taken
  BY <1>3
<1>5. /\ c \in Seq(Nat) /\ \A i, j \in 1..Len(c) : c[i] = c[j] => i = j
      /\ \A i \in 1..Len(c) : c[i] \notin taken
  <2> HIDE DEF taken
  <2>1. QED
    BY RemainingFacts
<1> HIDE DEF c, taken, g
<1>6. ASSUME NEW i \in 1..k, NEW j \in 1..k, i # j
      PROVE  ToSet(kept[i].gpus) \cap ToSet(kept[j].gpus) = {}
  <2> DEFINE is == InstancesOf(p)
  <2> HIDE DEF kept, k
  <2>1. i \in DOMAIN is /\ j \in DOMAIN is /\ kept[i] = is[i] /\ kept[j] = is[j]
    <3> HIDE DEF is
    <3>1. i \in 1..Len(is) /\ j \in 1..Len(is) /\ kept[i] = is[i] /\ kept[j] = is[j]
      BY <1>3 DEF is
    <3>2. QED
      BY <1>3, <3>1 DEF is
  <2>2. is = plans[p].instances /\ Saved(p)
    BY <2>1 DEF InstancesOf
  <2>3. Apart(PlacedOn(plans[p].instances))
    BY <2>2 DEF SeparateGpus
  <2> HIDE DEF is
  <2>4. ToSet(is[i].gpus) \cap ToSet(is[j].gpus) = {}
    BY <1>6, <2>1, <2>2, <2>3 DEF Apart, PlacedOn
  <2>5. QED
    BY <2>1, <2>4
<1>7. ASSUME NEW i \in 1..n, k < i
      PROVE  G(i) = Slice(c, from(i), d.group) /\ from(i) \in Nat \ {0}
  <2>1. i \in Nat /\ ~(i <= k)
    BY <1>1, <1>3, <1>7
  <2>2. from(i) \in Nat \ {0}
    BY <1>1, <1>3, <1>7, <2>1, GroupStart
  <2>3. QED
    BY <2>1, <2>2
<1>8. ASSUME NEW i \in 1..n, NEW j \in 1..n, i < j PROVE ToSet(G(i)) \cap ToSet(G(j)) = {}
  <2>0. i \in Nat /\ j \in Nat
    BY <1>1
  <2>1. CASE j <= k
    <3>1. i \in 1..k /\ j \in 1..k /\ i # j
      BY <1>3, <1>8, <2>0, <2>1
    <3>2. G(i) = kept[i].gpus /\ G(j) = kept[j].gpus
      BY <1>3, <3>1
    <3>3. ToSet(kept[i].gpus) \cap ToSet(kept[j].gpus) = {}
      BY <1>6, <3>1
    <3> HIDE DEF G, kept, k
    <3>4. QED
      BY <3>2, <3>3
  <2>2. CASE k < j
    <3> DEFINE f == from(j)
               sj == Slice(c, f, d.group)
    <3>1. G(j) = sj /\ f \in Nat \ {0}
      BY <1>7, <2>2
    <3>2. CASE i <= k
      <4>1. i \in 1..k /\ G(i) = kept[i].gpus
        BY <1>3, <2>0, <3>2
      <4>2. ToSet(kept[i].gpus) \subseteq taken
        BY <1>4, <4>1
      <4>3. \A x \in ToSet(sj) : x \notin taken
        <5> DEFINE w == d.group
        <5>1. w \in Nat /\ c \in Seq(Nat) /\ f \in Nat \ {0} /\ sj = Slice(c, f, w)
          BY <1>1, <1>5, <3>1
        <5> HIDE DEF w, f, sj, G, n, kept, k
        <5>2. \A x \in ToSet(Slice(c, f, w)) : \E m \in 1..Len(c) : x = c[m]
          BY <5>1, SliceWithin
        <5>3. QED
          BY <1>5, <5>1, <5>2
      <4> HIDE DEF G, sj, kept, k
      <4>4. QED
        BY <3>1, <4>1, <4>2, <4>3
    <3>3. CASE k < i
      <4> DEFINE si == Slice(c, from(i), d.group)
                 w == d.group
      <4>1. G(i) = si
        BY <1>7, <3>3
      <4>2. w \in Nat \ {0} /\ c \in Seq(Nat) /\ k \in Nat
        BY <1>1, <1>3, <1>5
      <4> HIDE DEF w, G, n, kept, k
      <4>3. ToSet(Slice(c, (i - k - 1) * w + 1, w)) \cap ToSet(Slice(c, (j - k - 1) * w + 1, w)) = {}
        BY <1>5, <1>8, <2>0, <3>3, <4>2, GroupsApart
      <4>4. si = Slice(c, (i - k - 1) * w + 1, w) /\ sj = Slice(c, (j - k - 1) * w + 1, w)
        BY DEF w
      <4> HIDE DEF si, sj
      <4>5. QED
        BY <3>1, <4>1, <4>3, <4>4
    <3>4. QED
      BY <1>3, <2>0, <3>2, <3>3
  <2>3. QED
    BY <1>3, <2>0, <2>1, <2>2
<1> HIDE DEF G, n
<1>9. DOMAIN g = 1..n /\ \A i \in 1..n : g[i] = G(i)
  BY <1>2
<1>10. ASSUME NEW i \in 1..n, NEW j \in 1..n, i # j PROVE ToSet(g[i]) \cap ToSet(g[j]) = {}
  <2>1. i < j \/ j < i
    BY <1>1, <1>10
  <2>2. ToSet(G(i)) \cap ToSet(G(j)) = {}
    BY <1>8, <2>1
  <2>3. QED
    BY <1>9, <2>2
<1>11. Apart(g)
  BY <1>9, <1>10 DEF Apart
<1>12. QED
  BY <1>11 DEF g

\* The instances that are planned have different GPUs.
LEMMA PlannedApart ==
    ASSUME PlansTypeOK, GpusChosenOnce, SeparateGpus, NEW p \in PlannedProfiles,
           NEW d \in Drafts, PlannedGpus(p, d).enough
    PROVE  Apart(PlannedGpus(p, d).gpus)
<1> DEFINE g == PlannedGpus(p, d).gpus
<1>1. d.replicas \in Nat \ {0} /\ g \in Seq(Seq(Nat)) /\ Len(g) = d.replicas
  BY DraftType, GpusPlanned
<1>2. CASE d.replicas > 1
  <2>1. CASE d.gpuMode = "one_per_instance" /\ IsInjective(d.gpus)
    BY <2>1, SinglesPlannedApart
  <2>2. CASE d.gpuMode = "contiguous_groups" /\ d.gpus = <<>>
    BY <2>2, GroupsPlannedApart
  <2>3. CASE d.gpuMode = "explicit" /\ Apart(d.lists)
    BY <2>3, InModeExplicit
  <2>4. QED
    BY <1>2, <2>1, <2>2, <2>3 DEF GpusChosenOnce
<1>3. CASE d.replicas = 1
  <2> HIDE DEF g
  <2>1. DOMAIN g = 1..1
    BY <1>1, <1>3
  <2>2. Apart(g)
    BY <2>1 DEF Apart
  <2>3. QED
    BY <2>2 DEF g
<1>4. QED
  BY <1>1, <1>2, <1>3

-----------------------------------------------------------------------------
(* Ports.                                                                  *)

\* The first elements of a sequence.
LEMMA SliceFirst ==
    ASSUME NEW X, NEW s \in Seq(X), NEW n \in Nat
    PROVE  /\ Slice(s, 1, n) \in Seq(X)
           /\ Len(Slice(s, 1, n)) <= n
           /\ \A i \in 1..Len(Slice(s, 1, n)) : i \in 1..Len(s) /\ Slice(s, 1, n)[i] = s[i]
  BY DEF Slice

\* Ports are allocated from those that are free, each once; no ports when none is needed.
LEMMA AllocatedFacts ==
    ASSUME NEW n \in Nat, NEW used, NEW contiguous \in BOOLEAN
    PROVE  LET a == AllocatedPorts(n, used, contiguous) IN
           /\ a \in Seq(Nat)
           /\ \A i \in 1..Len(a) : a[i] \notin used
           /\ \A i, j \in 1..Len(a) : a[i] = a[j] => i = j
           /\ n = 0 => a = <<>>
<1> DEFINE free == (PortFrom..PortTo) \ used
           starts == {s \in free : s..(s + n - 1) \subseteq free}
           a == AllocatedPorts(n, used, contiguous)
<1>1. free \in SUBSET Nat /\ IsFiniteSet(free) /\ \A x \in free : x \notin used
  <2>1. PortFrom \in Nat /\ PortTo \in Nat
    BY PlansAssumption
  <2>2. IsFiniteSet(PortFrom..PortTo) /\ PortFrom..PortTo \subseteq Nat
    BY <2>1, FS_Interval
  <2>3. QED
    BY <2>2, FS_Subset
<1>2. CASE ~contiguous
  <2> DEFINE all == Ascending(free)
  <2>1. a = Slice(all, 1, n)
    BY <1>2 DEF AllocatedPorts
  <2> HIDE DEF a, free
  <2>2. all \in Seq(free) /\ \A i, j \in 1..Len(all) : all[i] = all[j] => i = j
    BY <1>1, AscendingFacts
  <2> HIDE DEF all
  <2>3. all \in Seq(Nat) /\ \A i \in 1..Len(all) : all[i] \in free
    BY <1>1, <2>2, WiderSequences
  <2>4. a \in Seq(Nat) /\ Len(a) <= n
    BY <2>1, <2>3, SliceFirst
  <2>5. \A i \in 1..Len(a) : i \in 1..Len(all) /\ a[i] = all[i]
    BY <2>1, <2>3, SliceFirst
  <2>6. \A i \in 1..Len(a) : a[i] \notin used
    BY <1>1, <2>3, <2>5
  <2>7. \A i, j \in 1..Len(a) : a[i] = a[j] => i = j
    BY <2>2, <2>5
  <2>8. n = 0 => a = <<>>
    BY <2>4
  <2>9. QED
    BY <2>4, <2>6, <2>7, <2>8 DEF a
<1>3. CASE contiguous /\ (n = 0 \/ starts = {})
  <2>1. a = <<>>
    BY <1>3 DEF AllocatedPorts
  <2> HIDE DEF a
  <2>2. Len(a) = 0 /\ a \in Seq(Nat)
    BY <2>1
  <2>3. \A i \in 1..Len(a) : FALSE
    BY <2>2
  <2>4. QED
    BY <2>1, <2>2, <2>3 DEF a
<1>4. CASE contiguous /\ n # 0 /\ starts # {}
  <2> DEFINE first == Min(starts)
  <2>1. a = [i \in 1..n |-> first + i - 1]
    BY <1>4 DEF AllocatedPorts
  <2>2. starts \subseteq Nat /\ starts # {} /\ \A s \in starts : s..(s + n - 1) \subseteq free
    BY <1>1, <1>4
  <2> HIDE DEF a, starts, free
  <2>3. first \in starts
    <3>1. \E x \in starts : \A y \in starts : x <= y
      BY <2>2, LeastNumber
    <3>2. QED
      BY <3>1 DEF Min
  <2> HIDE DEF first
  <2>4. first \in Nat /\ first..(first + n - 1) \subseteq free
    BY <2>2, <2>3
  <2>5. \A i \in 1..n : first + i - 1 \in first..(first + n - 1) /\ first + i - 1 \in Nat
    BY <2>4
  <2>6. a \in Seq(Nat) /\ Len(a) = n /\ \A i \in 1..n : a[i] = first + i - 1
    BY <2>1, <2>5
  <2>7. \A i \in 1..Len(a) : a[i] \notin used
    BY <1>1, <2>4, <2>5, <2>6
  <2>8. \A i, j \in 1..Len(a) : a[i] = a[j] => i = j
    BY <2>4, <2>6
  <2>9. QED
    BY <1>4, <2>6, <2>7, <2>8 DEF a
<1>5. QED
  BY <1>2, <1>3, <1>4

\* The ports of the instances that go on.
KeptPorts(p, n) == [i \in DOMAIN Preserved(p, n) |-> Preserved(p, n)[i].port]

\* The ports that go on are those of the first instances.
LEMMA KeptPortsFacts ==
    ASSUME PlansTypeOK, NEW p \in PlannedProfiles, NEW n \in Nat
    PROVE  /\ KeptPorts(p, n) \in Seq(Nat)
           /\ Len(KeptPorts(p, n)) <= n
           /\ Len(KeptPorts(p, n)) <= Len(InstancesOf(p))
           /\ \A i \in 1..Len(KeptPorts(p, n)) :
                i \in DOMAIN InstancesOf(p) /\ KeptPorts(p, n)[i] = InstancesOf(p)[i].port
           /\ n = Len(InstancesOf(p)) => Len(KeptPorts(p, n)) = n
<1> DEFINE s == InstancesOf(p)
           kept == Preserved(p, n)
           P(i) == kept[i].port
           ports == KeptPorts(p, n)
<1>1. /\ kept \in Seq(InstanceRecords) /\ s \in Seq(InstanceRecords)
      /\ Len(kept) <= n /\ Len(kept) <= Len(s)
      /\ \A i \in 1..Len(kept) : kept[i] = s[i]
      /\ n = Len(s) => kept = s
  BY PreservedFacts
<1>2. ports = [i \in DOMAIN kept |-> P(i)]
  BY DEF KeptPorts
<1> HIDE DEF kept, s, ports
<1>3. DOMAIN kept = 1..Len(kept) /\ Len(kept) \in Nat /\ Len(s) \in Nat /\ DOMAIN s = 1..Len(s)
  BY <1>1
<1>4. \A i \in 1..Len(kept) : P(i) \in Nat /\ P(i) = s[i].port
  <2>1. \A i \in 1..Len(kept) : kept[i] \in InstanceRecords
    BY <1>1
  <2>2. QED
    BY <1>1, <2>1 DEF InstanceRecords
<1>5. ports \in Seq(Nat) /\ Len(ports) = Len(kept) /\ \A i \in 1..Len(kept) : ports[i] = P(i)
  <2> DEFINE m == Len(kept)
  <2>1. ports = [i \in 1..m |-> P(i)] /\ m \in Nat /\ \A i \in 1..m : P(i) \in Nat
    BY <1>2, <1>3, <1>4
  <2> HIDE DEF m, P
  <2>2. ports \in Seq(Nat) /\ Len(ports) = m /\ \A i \in 1..m : ports[i] = P(i)
    BY <2>1
  <2>3. QED
    BY <2>2 DEF m
<1> HIDE DEF P
<1>6. QED
  <2>1. ports \in Seq(Nat) /\ Len(ports) <= n /\ Len(ports) <= Len(s)
    BY <1>1, <1>3, <1>5
  <2>2. ASSUME NEW i \in 1..Len(ports) PROVE i \in DOMAIN s /\ ports[i] = s[i].port
    <3>0. i \in 1..Len(kept)
      BY <1>5
    <3> DEFINE m == Len(kept)
               l == Len(s)
    <3>1. i \in 1..m /\ i \in 1..l
      <4>1. m \in Nat /\ l \in Nat /\ m <= l /\ i \in 1..m
        BY <1>1, <1>3, <3>0
      <4> HIDE DEF m, l
      <4>2. QED
        BY <4>1, SMTT(60)
    <3>2. ports[i] = P(i) /\ P(i) = s[i].port
      BY <1>4, <1>5, <3>1
    <3>3. QED
      BY <1>3, <3>1, <3>2
  <2>3. n = Len(s) => Len(ports) = n
    BY <1>1, <1>5
  <2>4. QED
    BY <2>1, <2>2, <2>3, SMTT(60) DEF ports, s

\* The ports of no profile are given twice by it.
OwnPortsOnce ==
    \A p \in PlannedProfiles : \A i, j \in DOMAIN InstancesOf(p) :
        InstancesOf(p)[i].port = InstancesOf(p)[j].port => i = j

\* Lists of chosen ports name each port once.
PortsChosenOnce == \A d \in Drafts : d.portMode = "explicit" => IsInjective(d.ports)

\* Ports are planned as chosen, or as those that go on and free ones.
LEMMA PortsPlanned ==
    ASSUME PlansTypeOK, NEW p \in PlannedProfiles, NEW d \in Drafts, NEW bound
    PROVE  /\ PlannedPorts(p, d, bound) \in Seq(Nat)
           /\ d.portMode = "explicit" => PlannedPorts(p, d, bound) = d.ports
           /\ d.portMode # "explicit" =>
                \E new \in Seq(Nat) :
                  /\ PlannedPorts(p, d, bound) = KeptPorts(p, d.replicas) \o new
                  /\ \A i \in 1..Len(new) : new[i] \notin ToSet(KeptPorts(p, d.replicas))
                  /\ \A i, j \in 1..Len(new) : new[i] = new[j] => i = j
                  /\ Len(KeptPorts(p, d.replicas)) = d.replicas => new = <<>>
<1> DEFINE kept == KeptPorts(p, d.replicas)
           used == TakenPorts(p) \cup ToSet(kept) \cup bound
           n == d.replicas - Len(kept)
           contiguous == d.portMode = "contiguous"
           new == AllocatedPorts(n, used, contiguous)
<1>1. d.replicas \in Nat /\ d.ports \in Seq(Nat)
  BY DraftType
<1>2. kept \in Seq(Nat) /\ n \in Nat
  <2>1. kept \in Seq(Nat) /\ Len(kept) <= d.replicas
    BY <1>1, KeptPortsFacts
  <2> HIDE DEF kept
  <2>2. QED
    BY <1>1, <2>1
<1>3. PlannedPorts(p, d, bound) = IF d.portMode = "explicit" THEN d.ports ELSE kept \o new
  BY Zenon DEF PlannedPorts, KeptPorts
<1>4. /\ new \in Seq(Nat) /\ \A i \in 1..Len(new) : new[i] \notin used
      /\ \A i, j \in 1..Len(new) : new[i] = new[j] => i = j
      /\ n = 0 => new = <<>>
  <2> HIDE DEF n, used, contiguous
  <2>1. contiguous \in BOOLEAN
    BY DEF contiguous
  <2>2. QED
    BY <1>2, <2>1, AllocatedFacts
<1>5. \A i \in 1..Len(new) : new[i] \notin ToSet(kept)
  <2> HIDE DEF new, kept
  <2>1. QED
    BY <1>4
<1>6. Len(kept) = d.replicas => n = 0
  BY <1>1
<1> HIDE DEF new, kept, n
<1>7. kept \o new \in Seq(Nat)
  BY <1>2, <1>4
<1>8. QED
  BY <1>1, <1>3, <1>4, <1>5, <1>6, <1>7 DEF kept

-----------------------------------------------------------------------------
(* Planned instances.                                                      *)

\* A sequence of numbers that are GPUs.
LEMMA GpuSequence ==
    ASSUME NEW s \in Seq(Nat), ToSet(s) \subseteq Gpus
    PROVE  s \in Seq(Gpus)
<1>1. \A i \in 1..Len(s) : s[i] \in ToSet(s)
  BY InSet
<1>2. Len(s) \in Nat /\ s \in [1..Len(s) -> Nat]
  OBVIOUS
<1>3. s \in [1..Len(s) -> Gpus]
  BY <1>1, <1>2
<1>4. QED
  BY <1>2, <1>3

\* What the blocking problems exclude.
LEMMA PlannableFacts ==
    ASSUME NEW p, NEW d, NEW bound, Plannable(p, d, bound)
    PROVE  /\ Len(PlannedPorts(p, d, bound)) = d.replicas
           /\ \A i \in DOMAIN PlannedPorts(p, d, bound) :
                PlannedPorts(p, d, bound)[i] \notin TakenPorts(p)
           /\ PlannedGpus(p, d).enough
           /\ \A i \in DOMAIN PlannedGpus(p, d).gpus : ToSet(PlannedGpus(p, d).gpus[i]) \subseteq Gpus
<1> DEFINE ports == PlannedPorts(p, d, bound)
           plan == PlannedGpus(p, d)
<1>1. PortsFit(p, d, ports, bound) /\ GpusFit(p, d, plan)
  BY DEF Plannable
<1> HIDE DEF ports, plan
<1>2. Len(ports) = d.replicas /\ \A i \in DOMAIN ports : ports[i] \notin TakenPorts(p)
  BY <1>1 DEF PortsFit
<1>3. plan.enough /\ UNION {ToSet(plan.gpus[i]) : i \in DOMAIN plan.gpus} \subseteq Gpus
  BY <1>1 DEF GpusFit
<1>4. \A i \in DOMAIN plan.gpus : ToSet(plan.gpus[i]) \subseteq Gpus
  BY <1>3
<1>5. QED
  BY <1>2, <1>3, <1>4 DEF ports, plan

\* The instances of a plan that has no blocking problem.
LEMMA PlannedFacts ==
    ASSUME PlansTypeOK, NEW p \in PlannedProfiles, NEW d \in Drafts, NEW bound,
           Plannable(p, d, bound)
    PROVE  LET is == PlannedInstances(p, d, bound) IN
           /\ is \in Seq(InstanceRecords)
           /\ Len(is) = d.replicas
           /\ DOMAIN is = 1..d.replicas
           /\ \A i \in 1..d.replicas :
                /\ is[i].port = PlannedPorts(p, d, bound)[i]
                /\ is[i].port \notin TakenPorts(p)
                /\ is[i].gpus = PlannedGpus(p, d).gpus[i]
           /\ PlacedOn(is) = PlannedGpus(p, d).gpus
           /\ AsDrafted(d, is)
<1> DEFINE n == d.replicas
           ports == PlannedPorts(p, d, bound)
           gpus == PlannedGpus(p, d).gpus
           is == PlannedInstances(p, d, bound)
           I(i) == [port |-> ports[i], gpus |-> gpus[i]]
<1>1. n \in Nat
  BY DraftType
<1>2. ports \in Seq(Nat) /\ (d.portMode = "explicit" => ports = d.ports)
  BY PortsPlanned
<1>3. /\ Len(ports) = n /\ \A i \in DOMAIN ports : ports[i] \notin TakenPorts(p)
      /\ PlannedGpus(p, d).enough
      /\ \A i \in DOMAIN gpus : ToSet(gpus[i]) \subseteq Gpus
  BY PlannableFacts
<1>4. gpus \in Seq(Seq(Nat)) /\ Len(gpus) = n /\ GpusAsDrafted(d, gpus)
  BY <1>3, GpusPlanned
<1>5. is = [i \in 1..n |-> I(i)]
  BY DEF PlannedInstances
<1> HIDE DEF ports, gpus, is, n
<1>6. DOMAIN ports = 1..n /\ DOMAIN gpus = 1..n
  BY <1>2, <1>3, <1>4
<1>7. \A i \in 1..n : gpus[i] \in Seq(Gpus) /\ ports[i] \in Nat
  <2> DEFINE X == Seq(Nat)
  <2>1. gpus \in Seq(X) /\ Len(gpus) = n
    BY <1>4
  <2> HIDE DEF X
  <2>2. \A i \in 1..n : gpus[i] \in X
    BY <2>1
  <2>3. ASSUME NEW i \in 1..n PROVE gpus[i] \in Seq(Gpus)
    <3> DEFINE s == gpus[i]
    <3>1. s \in Seq(Nat) /\ ToSet(s) \subseteq Gpus
      BY <1>3, <1>6, <2>2 DEF X
    <3> HIDE DEF s
    <3>2. s \in Seq(Gpus)
      BY <3>1, GpuSequence
    <3>3. QED
      BY <3>2 DEF s
  <2>4. \A i \in 1..n : ports[i] \in Nat
    BY <1>2, <1>3
  <2>5. QED
    BY <2>3, <2>4
<1>8. \A i \in 1..n : I(i) \in InstanceRecords /\ I(i).port = ports[i] /\ I(i).gpus = gpus[i]
  BY <1>7 DEF InstanceRecords
<1> HIDE DEF I
<1>9. /\ is \in Seq(InstanceRecords) /\ Len(is) = n /\ DOMAIN is = 1..n
      /\ \A i \in 1..n : is[i] = I(i)
  BY <1>1, <1>5, <1>8
<1>10. \A i \in 1..n : is[i].port = ports[i] /\ is[i].port \notin TakenPorts(p)
                       /\ is[i].gpus = gpus[i]
  BY <1>3, <1>6, <1>8, <1>9
<1>11. PlacedOn(is) = gpus
  <2>1. PlacedOn(is) = [i \in 1..n |-> gpus[i]]
    BY <1>9, <1>10 DEF PlacedOn
  <2>2. gpus = [i \in 1..n |-> gpus[i]]
    <3> DEFINE X == Seq(Nat)
    <3>1. gpus \in Seq(X)
      BY <1>4
    <3> HIDE DEF X
    <3>2. QED
      BY <3>1, <1>6
  <2>3. QED
    BY <2>1, <2>2
<1>12. AsDrafted(d, is)
  <2>1. d.portMode = "explicit" => \A i \in DOMAIN is : is[i].port = d.ports[i]
    BY <1>2, <1>9, <1>10
  <2>2. QED
    BY <1>4, <1>9, <1>11, <2>1 DEF AsDrafted, n
<1>13. QED
  BY <1>9, <1>10, <1>11, <1>12 DEF n, ports, gpus, is

\* Planned again as drafted, the instances have the ports they have.
LEMMA PortsAgain ==
    ASSUME PlansTypeOK, Drafted, NEW p \in PlannedProfiles, Saved(p), NEW bound
    PROVE  LET d == plans[p].draft IN
           \A i \in 1..d.replicas : PlannedPorts(p, d, bound)[i] = plans[p].instances[i].port
<1> DEFINE d == plans[p].draft
           is == plans[p].instances
           n == d.replicas
           ports == PlannedPorts(p, d, bound)
           kept == KeptPorts(p, n)
<1>1. d \in Drafts /\ is \in Seq(InstanceRecords) /\ is = InstancesOf(p)
  BY SavedType DEF InstancesOf
<1>2. Len(is) = n /\ (d.portMode = "explicit" => \A i \in DOMAIN is : is[i].port = d.ports[i])
  <2>1. AsDrafted(d, is)
    BY DEF Drafted
  <2> HIDE DEF d, is
  <2>2. QED
    BY <2>1 DEF AsDrafted, n
<1>3. n \in Nat /\ DOMAIN is = 1..n
  <2>1. n \in Nat
    <3> HIDE DEF d
    <3>1. QED
      BY <1>1, DraftType DEF n
  <2> HIDE DEF is, n
  <2>2. QED
    BY <1>1, <1>2, <2>1
<1> HIDE DEF d
<1>4. CASE d.portMode = "explicit"
  <2>1. ports = d.ports
    BY <1>1, <1>4, PortsPlanned
  <2> HIDE DEF ports, is, n
  <2>2. \A i \in 1..n : ports[i] = is[i].port
    BY <1>2, <1>3, <1>4, <2>1
  <2>3. QED
    BY <2>2 DEF d, n, ports, is
<1>5. CASE d.portMode # "explicit"
  <2>0. \E new \in Seq(Nat) :
            /\ PlannedPorts(p, d, bound) = KeptPorts(p, d.replicas) \o new
            /\ \A i \in 1..Len(new) : new[i] \notin ToSet(KeptPorts(p, d.replicas))
            /\ \A i, j \in 1..Len(new) : new[i] = new[j] => i = j
            /\ Len(KeptPorts(p, d.replicas)) = d.replicas => new = <<>>
    BY <1>1, <1>5, PortsPlanned, ZenonT(60)
  <2>1. PICK new \in Seq(Nat) : ports = kept \o new /\ (Len(kept) = n => new = <<>>)
    BY <2>0
  <2>2. /\ kept \in Seq(Nat)
        /\ \A i \in 1..Len(kept) : kept[i] = InstancesOf(p)[i].port
        /\ n = Len(InstancesOf(p)) => Len(kept) = n
    <3> HIDE DEF n
    <3>1. QED
      BY <1>3, KeptPortsFacts
  <2> HIDE DEF ports, is, n, kept
  <2>3. Len(kept) = n
    BY <1>1, <1>2, <2>2
  <2>4. ports = kept
    BY <2>1, <2>2, <2>3
  <2>5. \A i \in 1..n : ports[i] = is[i].port
    BY <1>1, <2>2, <2>3, <2>4
  <2>6. QED
    BY <2>5 DEF d, n, ports, is
<1>6. QED
  BY <1>4, <1>5

\* A profile that is planned again as it is drafted has the instances it has.
LEMMA PlannedAgain ==
    ASSUME PlansTypeOK, Drafted, NEW p \in PlannedProfiles, Saved(p), NEW bound,
           Plannable(p, plans[p].draft, bound)
    PROVE  PlannedInstances(p, plans[p].draft, bound) = plans[p].instances
<1> DEFINE d == plans[p].draft
           is == plans[p].instances
           n == d.replicas
           new == PlannedInstances(p, d, bound)
<1>1. d \in Drafts /\ is \in Seq(InstanceRecords)
  BY SavedType
<1>2. AsDrafted(d, is)
  BY DEF Drafted
<1>3. PlannedGpus(p, d).enough
  BY PlannableFacts
<1>4. \A i \in 1..n : PlannedGpus(p, d).gpus[i] = is[i].gpus
  BY <1>3, GpusAgain
<1>5. \A i \in 1..n : PlannedPorts(p, d, bound)[i] = is[i].port
  BY PortsAgain
<1> HIDE DEF d, is
<1>6. /\ new \in Seq(InstanceRecords) /\ Len(new) = n /\ DOMAIN new = 1..n
      /\ \A i \in 1..n : /\ new[i].port = PlannedPorts(p, d, bound)[i]
                         /\ new[i].gpus = PlannedGpus(p, d).gpus[i]
  BY <1>1, PlannedFacts DEF d
<1> HIDE DEF new
<1>7. Len(is) = n
  BY <1>2 DEF AsDrafted
<1>8. ASSUME NEW i \in 1..n PROVE new[i] = is[i]
  <2>1. new[i] \in InstanceRecords /\ is[i] \in InstanceRecords
    <3> HIDE DEF n
    <3>1. QED
      BY <1>1, <1>6, <1>7
  <2>2. new[i].port = is[i].port /\ new[i].gpus = is[i].gpus
    BY <1>4, <1>5, <1>6
  <2>3. QED
    BY <2>1, <2>2 DEF InstanceRecords
<1> HIDE DEF n
<1>9. new = is
  BY <1>1, <1>6, <1>7, <1>8
<1>10. QED
  BY <1>9 DEF new, is, d

-----------------------------------------------------------------------------
(* The units of a profile.                                                 *)

\* The units of instances are named after them, and are started with what they have.
LEMMA ContentFacts ==
    ASSUME NEW p \in PlannedProfiles, NEW d \in Drafts, NEW is \in Seq(InstanceRecords),
           Len(is) \in 1..MaxReplicas, NEW key \in BOOLEAN
    PROVE  /\ NamesOf(p, is) \subseteq {p} \X (0..MaxReplicas)
           /\ DOMAIN ContentOf(p, d, is, key) = NamesOf(p, is)
           /\ \A n \in 0..MaxReplicas : <<p, n>> \in NamesOf(p, is) =>
                ContentOf(p, d, is, key)[<<p, n>>] = UnitOf(d, is[IF n = 0 THEN 1 ELSE n], key)
           /\ \A u \in NamesOf(p, is) : ContentOf(p, d, is, key)[u] \in UnitRecords
<1> DEFINE l == Len(is)
           names == NamesOf(p, is)
           content == ContentOf(p, d, is, key)
           At(n) == IF n = 0 THEN 1 ELSE n
<1>0. MaxReplicas \in Nat \ {0} /\ DOMAIN is = 1..l /\ l \in 1..MaxReplicas
  BY PlansAssumption
<1>1. \A u \in names : \E i \in 1..l : u = <<p, IF l = 1 THEN 0 ELSE i>>
  BY <1>0 DEF NamesOf, UnitName
<1> HIDE DEF l, names
<1>2. ASSUME NEW u \in names
      PROVE  \E n \in 0..MaxReplicas : u = <<p, n>> /\ At(n) \in 1..l
  <2>1. PICK i \in 1..l : u = <<p, IF l = 1 THEN 0 ELSE i>>
    BY <1>1
  <2> DEFINE n == IF l = 1 THEN 0 ELSE i
  <2>2. n \in 0..MaxReplicas /\ At(n) \in 1..l
    BY <1>0
  <2>3. QED
    BY <2>1, <2>2
<1>3. names \subseteq {p} \X (0..MaxReplicas)
  BY <1>2
<1>4. content = [u \in names |-> UnitOf(d, is[At(u[2])], key)]
  BY Zenon DEF ContentOf, names
<1>5. ASSUME NEW i \in 1..l PROVE UnitOf(d, is[i], key) \in UnitRecords
  <2>1. is[i] \in InstanceRecords
    BY <1>0
  <2>2. is[i].port \in Nat /\ is[i].gpus \in Seq(Gpus)
    BY <2>1 DEF InstanceRecords
  <2>3. ListenHost(d) \in {"0.0.0.0", "127.0.0.1"}
    BY DEF ListenHost
  <2> DEFINE h == ListenHost(d)
             po == is[i].port
             g == is[i].gpus
  <2>4. UnitOf(d, is[i], key) = [host |-> h, port |-> po, gpus |-> g, key |-> key]
    BY DEF UnitOf
  <2> HIDE DEF h, po, g
  <2>5. [host |-> h, port |-> po, gpus |-> g, key |-> key] \in UnitRecords
    BY <2>2, <2>3 DEF UnitRecords, h, po, g
  <2>6. QED
    BY <2>4, <2>5
<1> DEFINE U(n) == UnitOf(d, is[At(n)], key)
<1>6. content = [u \in names |-> U(u[2])]
  BY <1>4
<1> HIDE DEF content
<1>7. \A n \in 0..MaxReplicas : <<p, n>> \in names => content[<<p, n>>] = U(n)
  <2> HIDE DEF U
  <2>1. QED
    BY <1>6
<1>8. \A u \in names : content[u] \in UnitRecords
  <2>1. ASSUME NEW u \in names PROVE content[u] \in UnitRecords
    <3>1. PICK n \in 0..MaxReplicas : u = <<p, n>> /\ At(n) \in 1..l
      BY <1>2
    <3>2. content[u] = U(n)
      <4> HIDE DEF U
      <4>1. QED
        BY <1>7, <3>1
    <3>3. U(n) \in UnitRecords
      BY <1>5, <3>1
    <3>4. QED
      BY <3>2, <3>3
  <2>2. QED
    BY <2>1
<1>9. DOMAIN content = names
  BY <1>6
<1>10. QED
  BY <1>3, <1>7, <1>8, <1>9 DEF names, content

\* Syncing the unit files writes those of the content, and removes the others it had.
LEMMA SyncWrites ==
    ASSUME NEW A, NEW B, NEW C, NEW p \in PlannedProfiles, NEW content, NEW old,
           DOMAIN content \subseteq {p} \X (0..MaxReplicas), old \subseteq {p} \X (0..MaxReplicas),
           \A u \in DOMAIN content : content[u] \in C[u],
           \A u \in old \ DOMAIN content : NoUnit \in C[u]
    PROVE  /\ SyncUnits(p, content, old) \in Seq(Writes(A, B, C))
           /\ \A kind \in {"plans", "secrets"} : ~Touches(SyncUnits(p, content, old), kind)
           /\ \A u : TouchesUnit(SyncUnits(p, content, old), u) <=> u \in DOMAIN content \cup old
<1> DEFINE names == DOMAIN content
           none == [u \in UnitNames |-> NoUnit]
           gone == old \ names
           v == ToUnits(p, names, content)
           w == ToUnits(p, gone, none)
           X == Writes(A, B, C)
<1>1. SyncUnits(p, content, old) = v \o w
  BY DEF SyncUnits
<1>2. gone \subseteq {p} \X (0..MaxReplicas) /\ \A u \in gone : none[u] \in C[u]
  <2>1. gone \subseteq {p} \X (0..MaxReplicas)
    OBVIOUS
  <2>2. gone \subseteq UnitNames
    BY <2>1 DEF UnitNames
  <2>3. QED
    BY <2>1, <2>2
<1>3. /\ v \in Seq(X) /\ \A kind \in {"plans", "secrets"} : ~Touches(v, kind)
      /\ \A u : TouchesUnit(v, u) <=> u \in names
  <2>1. names \subseteq {p} \X (0..MaxReplicas) /\ \A u \in names : content[u] \in C[u]
    OBVIOUS
  <2> HIDE DEF names
  <2>2. QED
    BY <2>1, UnitWrites, SMTT(60)
<1>4. /\ w \in Seq(X) /\ \A kind \in {"plans", "secrets"} : ~Touches(w, kind)
      /\ \A u : TouchesUnit(w, u) <=> u \in gone
  <2> HIDE DEF none, gone
  <2>1. QED
    BY <1>2, UnitWrites, ZenonT(60)
<1> HIDE DEF v, w, X, gone
<1>5. /\ v \o w \in Seq(X)
      /\ \A kind : Touches(v \o w, kind) <=> Touches(v, kind) \/ Touches(w, kind)
      /\ \A u : TouchesUnit(v \o w, u) <=> TouchesUnit(v, u) \/ TouchesUnit(w, u)
  BY <1>3, <1>4, ConcatTouches
<1>6. \A u : u \in names \/ u \in gone <=> u \in names \cup old
  BY DEF gone
<1>7. QED
  BY <1>1, <1>3, <1>4, <1>5, <1>6 DEF X

\* The units that a profile has.
LEMMA SavedUnits ==
    ASSUME PlansTypeOK, Drafted, NEW p \in PlannedProfiles, Saved(p)
    PROVE  /\ Len(plans[p].instances) \in 1..MaxReplicas
           /\ NamesOf(p, plans[p].instances) \subseteq {p} \X (0..MaxReplicas)
<1> DEFINE d == plans[p].draft
           is == plans[p].instances
<1>1. d \in Drafts /\ is \in Seq(InstanceRecords)
  BY SavedType
<1>2. Len(is) = d.replicas
  BY DEF Drafted, AsDrafted
<1> HIDE DEF d, is
<1>3. Len(is) \in 1..MaxReplicas
  BY <1>1, <1>2, DraftType
<1>4. NamesOf(p, is) \subseteq {p} \X (0..MaxReplicas)
  BY <1>1, <1>3, ContentFacts
<1>5. QED
  BY <1>3, <1>4 DEF is

-----------------------------------------------------------------------------
(* What an operation leaves.                                               *)

UnitKinds == [u \in UnitNames |-> UnitRecords \cup {NoUnit}]

\* Writes on the way from the registry as it is to a new one.
TypedWrites(new) == Writes({plans, new}, SUBSET PlannedProfiles, UnitKinds)

\* The secrets and the unit files have values of their kinds, and the registry is the
\* old or the new one.
Left(new) ==
    /\ plans' \in {plans, new}
    /\ secrets' \subseteq PlannedProfiles
    /\ unitFiles' \in [UnitNames -> UnitRecords \cup {NoUnit}]

\* A change that writes files of their kinds leaves files of their kinds, and the old
\* registry or the new one.
LEMMA TypedChange ==
    ASSUME PlansTypeOK, NEW p \in PlannedProfiles, NEW new,
           NEW names, names \subseteq {p} \X (0..MaxReplicas),
           NEW saves \in Seq(TypedWrites(new)), NEW sync \in Seq(TypedWrites(new)),
           NEW undo \in Seq(TypedWrites(new)), NEW mayFail \in BOOLEAN,
           Change(p, saves, sync, names, undo, mayFail)
    PROVE  Left(new)
<1> DEFINE A == {plans, new}
           B == SUBSET PlannedProfiles
           C == UnitKinds
<1>1. plans \in A /\ secrets \in B /\ \A u \in UnitNames : unitFiles[u] \in C[u]
  BY DEF PlansTypeOK, UnitKinds
<1>2. /\ saves \in Seq(Writes(A, B, C)) /\ sync \in Seq(Writes(A, B, C))
      /\ undo \in Seq(Writes(A, B, C))
  BY DEF TypedWrites
<1> HIDE DEF A, B, C
<1>3. /\ plans' \in A /\ secrets' \in B
      /\ unitFiles' = [u \in UnitNames |-> unitFiles'[u]]
      /\ \A u \in UnitNames : unitFiles'[u] \in C[u]
  BY <1>1, <1>2, ChangeStays
<1>4. plans' \in {plans, new} /\ secrets' \subseteq PlannedProfiles
  BY <1>3 DEF A, B
<1>5. \A u \in UnitNames : unitFiles'[u] \in UnitRecords \cup {NoUnit}
  BY <1>3 DEF C, UnitKinds
<1>6. unitFiles' \in [UnitNames -> UnitRecords \cup {NoUnit}]
  BY <1>3, <1>5
<1>7. QED
  BY <1>4, <1>6 DEF Left

\* The writes of which changes consist have values of their kinds.
LEMMA TypedParts ==
    ASSUME PlansTypeOK, NEW p \in PlannedProfiles, NEW new
    PROVE  /\ ToRegistry(plans) \in Seq(TypedWrites(new))
           /\ ToRegistry(new) \in Seq(TypedWrites(new))
           /\ \A s \in SUBSET PlannedProfiles : ToSecrets(s) \in Seq(TypedWrites(new))
           /\ \A v, w \in Seq(TypedWrites(new)) : v \o w \in Seq(TypedWrites(new))
<1> DEFINE A == {plans, new}
           B == SUBSET PlannedProfiles
           C == UnitKinds
<1>1. plans \in A /\ new \in A
  OBVIOUS
<1>2. TypedWrites(new) = Writes(A, B, C)
  BY DEF TypedWrites
<1> HIDE DEF A, C
<1>3. ToRegistry(plans) \in Seq(Writes(A, B, C)) /\ ToRegistry(new) \in Seq(Writes(A, B, C))
  BY <1>1, RegistryWrites
<1>4. \A s \in B : ToSecrets(s) \in Seq(Writes(A, B, C))
  <2> HIDE DEF B
  <2>1. QED
    BY SecretsWrites
<1>5. \A v, w \in Seq(TypedWrites(new)) : v \o w \in Seq(TypedWrites(new))
  BY ConcatTouches
<1>6. QED
  BY <1>2, <1>3, <1>4, <1>5

\* The writes of unit files.
LEMMA TypedUnits ==
    ASSUME PlansTypeOK, NEW p \in PlannedProfiles, NEW new, NEW names,
           names \subseteq {p} \X (0..MaxReplicas)
    PROVE  /\ ToUnits(p, names, [u \in UnitNames |-> NoUnit]) \in Seq(TypedWrites(new))
           /\ \A content : /\ DOMAIN content \subseteq {p} \X (0..MaxReplicas)
                           /\ \A u \in DOMAIN content : content[u] \in UnitRecords
                           => SyncUnits(p, content, names) \in Seq(TypedWrites(new))
<1> DEFINE A == {plans, new}
           B == SUBSET PlannedProfiles
           C == UnitKinds
           none == [u \in UnitNames |-> NoUnit]
<1>1. names \subseteq UnitNames
  BY DEF UnitNames
<1>2. \A u \in names : none[u] \in C[u] /\ NoUnit \in C[u]
  BY <1>1 DEF UnitKinds
<1>3. TypedWrites(new) = Writes(A, B, C)
  BY DEF TypedWrites
<1> HIDE DEF A, B, none
<1>4. ToUnits(p, names, none) \in Seq(Writes(A, B, C))
  <2> HIDE DEF C
  <2>1. QED
    BY <1>2, UnitWrites
<1>5. ASSUME NEW content, DOMAIN content \subseteq {p} \X (0..MaxReplicas),
             \A u \in DOMAIN content : content[u] \in UnitRecords
      PROVE  SyncUnits(p, content, names) \in Seq(Writes(A, B, C))
  <2>1. DOMAIN content \subseteq UnitNames
    BY <1>5 DEF UnitNames
  <2>2. \A u \in DOMAIN content : content[u] \in C[u]
    BY <1>5, <2>1 DEF UnitKinds
  <2>3. \A u \in names \ DOMAIN content : NoUnit \in C[u]
    BY <1>2
  <2> HIDE DEF C
  <2>4. QED
    BY <1>5, <2>2, <2>3, SyncWrites
<1>6. QED
  BY <1>3, <1>4, <1>5 DEF none

\* The units of a plan.
LEMMA PlannedContent ==
    ASSUME PlansTypeOK, NEW p \in PlannedProfiles, NEW d \in Drafts, NEW bound,
           Plannable(p, d, bound), NEW key \in BOOLEAN
    PROVE  LET is == PlannedInstances(p, d, bound)
               content == ContentOf(p, d, is, key) IN
           /\ DOMAIN content = NamesOf(p, is)
           /\ DOMAIN content \subseteq {p} \X (0..MaxReplicas)
           /\ \A u \in DOMAIN content : content[u] \in UnitRecords
           /\ \A n \in 0..MaxReplicas : <<p, n>> \in NamesOf(p, is) =>
                content[<<p, n>>] = UnitOf(d, is[IF n = 0 THEN 1 ELSE n], key)
<1> DEFINE is == PlannedInstances(p, d, bound)
<1>1. is \in Seq(InstanceRecords) /\ Len(is) = d.replicas
  BY PlannedFacts
<1>2. d.replicas \in 1..MaxReplicas
  BY DraftType
<1> HIDE DEF is
<1>3. /\ NamesOf(p, is) \subseteq {p} \X (0..MaxReplicas)
      /\ DOMAIN ContentOf(p, d, is, key) = NamesOf(p, is)
      /\ \A n \in 0..MaxReplicas : <<p, n>> \in NamesOf(p, is) =>
           ContentOf(p, d, is, key)[<<p, n>>] = UnitOf(d, is[IF n = 0 THEN 1 ELSE n], key)
      /\ \A u \in NamesOf(p, is) : ContentOf(p, d, is, key)[u] \in UnitRecords
  BY <1>1, <1>2, ContentFacts
<1>4. QED
  BY <1>3 DEF is

\* A profile that is created leaves files of their kinds.
LEMMA CreateLeaves ==
    ASSUME PlansTypeOK, Drafted, NEW p \in PlannedProfiles, NEW d \in Drafts, NEW bound,
           CreateProfile(p, d, bound)
    PROVE  Left([plans EXCEPT ![p] = Profile(d, PlannedInstances(p, d, bound), "stopped", FALSE)])
<1> DEFINE is == PlannedInstances(p, d, bound)
           content == ContentOf(p, d, is, FALSE)
           names == DOMAIN content
           new == [plans EXCEPT ![p] = Profile(d, is, "stopped", FALSE)]
           X == TypedWrites(new)
           none == ToUnits(p, names, [u \in UnitNames |-> NoUnit])
<1>1. /\ Plannable(p, d, bound)
      /\ Change(p, ToRegistry(new), SyncUnits(p, content, {}), names, ToRegistry(plans) \o none, TRUE)
  BY Zenon DEF CreateProfile
<1>2. names \subseteq {p} \X (0..MaxReplicas) /\ \A u \in names : content[u] \in UnitRecords
  BY <1>1, PlannedContent
<1> HIDE DEF content, new
<1>3. SyncUnits(p, content, {}) \in Seq(X)
  <2> DEFINE old == {}
  <2>1. old \subseteq {p} \X (0..MaxReplicas)
    OBVIOUS
  <2> HIDE DEF old
  <2>2. SyncUnits(p, content, old) \in Seq(X)
    BY <1>2, <2>1, TypedUnits
  <2>3. QED
    BY <2>2 DEF old
<1>4. none \in Seq(X)
  <2> HIDE DEF names
  <2>1. QED
    BY <1>2, TypedUnits
<1>5. ToRegistry(new) \in Seq(X) /\ ToRegistry(plans) \o none \in Seq(X)
  <2> HIDE DEF none
  <2>1. QED
    BY <1>4, TypedParts
<1> DEFINE undo == ToRegistry(plans) \o none
           saves == ToRegistry(new)
           sync == SyncUnits(p, content, {})
<1> HIDE DEF names, undo, saves, sync, X
<1>6. Left(new)
  <2>1. /\ saves \in Seq(TypedWrites(new)) /\ sync \in Seq(TypedWrites(new))
        /\ undo \in Seq(TypedWrites(new)) /\ TRUE \in BOOLEAN
    BY <1>3, <1>5 DEF X, saves, sync, undo
  <2>2. Change(p, saves, sync, names, undo, TRUE)
    BY <1>1 DEF saves, sync, undo
  <2>3. QED
    BY <1>2, <2>1, <2>2, TypedChange
<1>7. QED
  BY <1>6 DEF new

\* So does one that is edited,
LEMMA UpdateLeaves ==
    ASSUME PlansTypeOK, Drafted, NEW p \in PlannedProfiles, NEW d \in Drafts, NEW bound,
           UpdateProfile(p, d, bound)
    PROVE  Left([plans EXCEPT ![p] =
                   Profile(d, PlannedInstances(p, d, bound), plans[p].state, plans[p].key)])
<1> DEFINE is == PlannedInstances(p, d, bound)
           key == plans[p].key /\ p \in secrets
           content == ContentOf(p, d, is, key)
           olds == NamesOf(p, plans[p].instances)
           names == DOMAIN content \cup olds
           new == [plans EXCEPT ![p] = Profile(d, is, plans[p].state, plans[p].key)]
           X == TypedWrites(new)
           saves == ToRegistry(new)
           sync == SyncUnits(p, content, olds)
           undo == ToRegistry(plans)
<1>1. /\ Plannable(p, d, bound) /\ Saved(p)
      /\ Change(p, saves, sync, names, undo, TRUE)
  BY Zenon DEF UpdateProfile
<1>2. /\ DOMAIN content \subseteq {p} \X (0..MaxReplicas)
      /\ \A u \in DOMAIN content : content[u] \in UnitRecords
  <2>1. key \in BOOLEAN
    OBVIOUS
  <2> HIDE DEF key
  <2>2. QED
    BY <1>1, <2>1, PlannedContent
<1>3. olds \subseteq {p} \X (0..MaxReplicas)
  BY <1>1, SavedUnits
<1> HIDE DEF content, new, olds
<1>4. sync \in Seq(X)
  BY <1>2, <1>3, TypedUnits
<1>5. saves \in Seq(X) /\ undo \in Seq(X)
  BY TypedParts
<1>6. names \subseteq {p} \X (0..MaxReplicas)
  BY <1>2, <1>3
<1> HIDE DEF names, undo, saves, sync
<1>7. Left(new)
  <2>1. TRUE \in BOOLEAN
    OBVIOUS
  <2>2. QED
    BY <1>1, <1>4, <1>5, <1>6, <2>1, TypedChange
<1>8. QED
  BY <1>7 DEF new

\* one that is removed,
LEMMA DeleteLeaves ==
    ASSUME PlansTypeOK, Drafted, NEW p \in PlannedProfiles, NEW force \in BOOLEAN,
           DeleteProfile(p, force)
    PROVE  Left([plans EXCEPT ![p] = NoProfile])
<1> DEFINE names == NamesOf(p, plans[p].instances)
           new == [plans EXCEPT ![p] = NoProfile]
           X == TypedWrites(new)
           saves == ToSecrets(secrets \ {p}) \o ToRegistry(new)
           sync == ToUnits(p, names, [u \in UnitNames |-> NoUnit])
           undo == ToSecrets(secrets) \o ToRegistry(plans)
<1>1. Saved(p) /\ Change(p, saves, sync, names, undo, TRUE)
  BY Zenon DEF DeleteProfile
<1>2. names \subseteq {p} \X (0..MaxReplicas)
  BY <1>1, SavedUnits
<1>3. secrets \in SUBSET PlannedProfiles /\ secrets \ {p} \in SUBSET PlannedProfiles
  BY DEF PlansTypeOK
<1> HIDE DEF new, names
<1>4. sync \in Seq(X)
  BY <1>2, TypedUnits
<1>5. /\ ToRegistry(plans) \in Seq(X) /\ ToRegistry(new) \in Seq(X)
      /\ ToSecrets(secrets) \in Seq(X) /\ ToSecrets(secrets \ {p}) \in Seq(X)
  BY <1>3, TypedParts
<1>6. saves \in Seq(X) /\ undo \in Seq(X)
  BY <1>5, TypedParts
<1> HIDE DEF undo, saves, sync
<1>7. Left(new)
  <2>1. TRUE \in BOOLEAN
    OBVIOUS
  <2>2. QED
    BY <1>1, <1>2, <1>4, <1>6, <2>1, TypedChange
<1>8. QED
  BY <1>7 DEF new

\* and one whose key changes.
LEMMA ChangeKeyLeaves ==
    ASSUME PlansTypeOK, Drafted, NEW p \in PlannedProfiles, NEW set \in BOOLEAN, NEW bound,
           ChangeKey(p, set, bound)
    PROVE  Left([plans EXCEPT ![p].key = set])
<1> DEFINE d == plans[p].draft
           is == PlannedInstances(p, d, bound)
           content == ContentOf(p, d, is, set)
           olds == NamesOf(p, plans[p].instances)
           names == DOMAIN content \cup olds
           new == [plans EXCEPT ![p].key = set]
           kept == IF set THEN secrets \cup {p} ELSE secrets \ {p}
           back == IF set THEN kept ELSE secrets
           X == TypedWrites(new)
           saves == ToSecrets(kept) \o ToRegistry(new)
           sync == SyncUnits(p, content, olds)
           undo == ToSecrets(back) \o ToRegistry(new)
<1>1. /\ Plannable(p, d, bound) /\ Saved(p)
      /\ Change(p, saves, sync, names, undo, KeyWritesFail)
  BY Zenon DEF ChangeKey
<1>2. /\ DOMAIN content \subseteq {p} \X (0..MaxReplicas)
      /\ \A u \in DOMAIN content : content[u] \in UnitRecords
  <2>1. d \in Drafts
    BY <1>1, SavedType
  <2> HIDE DEF d
  <2>2. QED
    BY <1>1, <2>1, PlannedContent
<1>3. olds \subseteq {p} \X (0..MaxReplicas)
  BY <1>1, SavedUnits
<1>4. kept \in SUBSET PlannedProfiles /\ back \in SUBSET PlannedProfiles
  BY DEF PlansTypeOK
<1> HIDE DEF content, new, olds, kept, back
<1>5. sync \in Seq(X)
  BY <1>2, <1>3, TypedUnits
<1>6. /\ ToRegistry(new) \in Seq(X)
      /\ ToSecrets(kept) \in Seq(X) /\ ToSecrets(back) \in Seq(X)
  BY <1>4, TypedParts
<1>7. saves \in Seq(X) /\ undo \in Seq(X)
  BY <1>6, TypedParts
<1>8. names \subseteq {p} \X (0..MaxReplicas)
  BY <1>2, <1>3
<1> HIDE DEF names, undo, saves, sync
<1>9. Left(new)
  <2>1. KeyWritesFail \in BOOLEAN
    BY PlansAssumption
  <2>2. QED
    BY <1>1, <1>5, <1>7, <1>8, <2>1, TypedChange
<1>10. QED
  BY <1>9 DEF new

-----------------------------------------------------------------------------
(* What the registry can turn into.                                        *)

\* The profile p is recorded as a plan says.
Recorded(p) ==
    \E d \in Drafts, bound \in Occupations, state \in {"running", "stopped"}, key \in BOOLEAN :
        /\ Plannable(p, d, bound)
        /\ plans' = [plans EXCEPT ![p] = Profile(d, PlannedInstances(p, d, bound), state, key)]

\* The profile p is no longer recorded.
Forgotten(p) == plans' = [plans EXCEPT ![p] = NoProfile]

\* Its draft and its instances stay.
Annotated(p) ==
    /\ Saved(p)
    /\ \E state \in {"running", "stopped"}, key \in BOOLEAN :
         plans' = [plans EXCEPT ![p] = Profile(plans[p].draft, plans[p].instances, state, key)]

\* A profile with another key or state is the profile otherwise.
LEMMA WithKeyOrState ==
    ASSUME PlansTypeOK, NEW p \in PlannedProfiles, Saved(p)
    PROVE  /\ \A set : [plans EXCEPT ![p].key = set] =
                [plans EXCEPT ![p] =
                   Profile(plans[p].draft, plans[p].instances, plans[p].state, set)]
           /\ \A state : [plans EXCEPT ![p].state = state] =
                [plans EXCEPT ![p] = Profile(plans[p].draft, plans[p].instances, state, plans[p].key)]
<1> DEFINE r == plans[p]
<1>1. r \in ProfileRecords
  BY SavedType
<1> HIDE DEF r
<1>2. ASSUME NEW x
      PROVE  /\ [r EXCEPT !.key = x] = Profile(r.draft, r.instances, r.state, x)
             /\ [r EXCEPT !.state = x] = Profile(r.draft, r.instances, x, r.key)
  BY <1>1 DEF ProfileRecords, Profile
<1>3. \A x : [plans EXCEPT ![p].key = x] = [plans EXCEPT ![p] = [r EXCEPT !.key = x]]
  BY DEF r
<1>4. \A x : [plans EXCEPT ![p].state = x] = [plans EXCEPT ![p] = [r EXCEPT !.state = x]]
  BY DEF r
<1> DEFINE K(x) == Profile(r.draft, r.instances, r.state, x)
           S(x) == Profile(r.draft, r.instances, x, r.key)
<1>5. \A x : [r EXCEPT !.key = x] = K(x) /\ [r EXCEPT !.state = x] = S(x)
  BY <1>2
<1> HIDE DEF K, S
<1>6. /\ \A x : [plans EXCEPT ![p].key = x] = [plans EXCEPT ![p] = K(x)]
      /\ \A x : [plans EXCEPT ![p].state = x] = [plans EXCEPT ![p] = S(x)]
  BY <1>3, <1>4, <1>5
<1>7. QED
  BY <1>6 DEF K, S, r

\* A step leaves files of their kinds, and a registry in which one profile may be changed.
LEMMA StepKinds ==
    ASSUME PlansTypeOK, Drafted, PlansNext
    PROVE  /\ secrets' \subseteq PlannedProfiles
           /\ unitFiles' \in [UnitNames -> UnitRecords \cup {NoUnit}]
           /\ \E p \in PlannedProfiles :
                plans' = plans \/ Recorded(p) \/ Forgotten(p) \/ Annotated(p)
<1>1. ASSUME NEW p \in PlannedProfiles, NEW d \in Drafts, NEW bound \in Occupations,
             CreateProfile(p, d, bound)
      PROVE  /\ Left([plans EXCEPT ![p] =
                        Profile(d, PlannedInstances(p, d, bound), "stopped", FALSE)])
             /\ plans' = plans \/ Recorded(p)
  <2> DEFINE is == PlannedInstances(p, d, bound)
             new == [plans EXCEPT ![p] = Profile(d, is, "stopped", FALSE)]
  <2>1. Left(new)
    BY <1>1, CreateLeaves
  <2>2. Plannable(p, d, bound)
    BY <1>1 DEF CreateProfile
  <2>3. plans' = new => Recorded(p)
    <3> HIDE DEF is
    <3>1. QED
      BY <2>2 DEF Recorded, is
  <2>4. plans' \in {plans, new}
    BY <2>1 DEF Left
  <2>5. QED
    BY <2>1, <2>3, <2>4
<1>2. ASSUME NEW p \in PlannedProfiles, NEW d \in Drafts, NEW bound \in Occupations,
             UpdateProfile(p, d, bound)
      PROVE  /\ \E new : Left(new)
             /\ plans' = plans \/ Recorded(p)
  <2> DEFINE is == PlannedInstances(p, d, bound)
             st == plans[p].state
             k == plans[p].key
             new == [plans EXCEPT ![p] = Profile(d, is, st, k)]
  <2>1. Left(new)
    BY <1>2, UpdateLeaves
  <2>2. Plannable(p, d, bound) /\ Saved(p)
    BY <1>2 DEF UpdateProfile
  <2>3. st \in {"running", "stopped"} /\ k \in BOOLEAN
    BY <2>2, SavedType
  <2>4. plans' = new => Recorded(p)
    <3> HIDE DEF is, st, k
    <3>1. QED
      BY <2>2, <2>3 DEF Recorded, is
  <2>5. plans' \in {plans, new}
    BY <2>1 DEF Left
  <2> HIDE DEF new
  <2>6. QED
    BY <2>1, <2>4, <2>5
<1>3. ASSUME NEW p \in PlannedProfiles, NEW force \in BOOLEAN, DeleteProfile(p, force)
      PROVE  /\ \E new : Left(new)
             /\ plans' = plans \/ Forgotten(p)
  <2>1. Left([plans EXCEPT ![p] = NoProfile])
    BY <1>3, DeleteLeaves
  <2>2. QED
    BY <2>1 DEF Left, Forgotten
<1>4. ASSUME NEW p \in PlannedProfiles, NEW set \in BOOLEAN, NEW bound \in Occupations,
             ChangeKey(p, set, bound)
      PROVE  /\ \E new : Left(new)
             /\ plans' = plans \/ Annotated(p)
  <2> DEFINE new == [plans EXCEPT ![p].key = set]
  <2>1. Left(new)
    BY <1>4, ChangeKeyLeaves
  <2>2. Saved(p)
    BY <1>4 DEF ChangeKey
  <2>3. /\ new = [plans EXCEPT ![p] =
                    Profile(plans[p].draft, plans[p].instances, plans[p].state, set)]
        /\ plans[p].state \in {"running", "stopped"}
    BY <2>2, WithKeyOrState, SavedType
  <2> HIDE DEF new
  <2>4. plans' = new => Annotated(p)
    BY <2>2, <2>3 DEF Annotated
  <2>5. plans' \in {plans, new}
    BY <2>1 DEF Left
  <2>6. QED
    BY <2>1, <2>4, <2>5
<1>5. ASSUME NEW p \in PlannedProfiles, NEW state \in {"running", "stopped"}, RecordState(p, state)
      PROVE  Annotated(p) /\ UNCHANGED <<secrets, unitFiles>>
  <2> DEFINE new == [plans EXCEPT ![p].state = state]
  <2>1. Saved(p) /\ plans' = new /\ UNCHANGED <<secrets, unitFiles>>
    BY <1>5 DEF RecordState
  <2>2. /\ new = [plans EXCEPT ![p] =
                    Profile(plans[p].draft, plans[p].instances, state, plans[p].key)]
        /\ plans[p].key \in BOOLEAN
    BY <2>1, WithKeyOrState, SavedType
  <2> HIDE DEF new
  <2>3. Annotated(p)
    BY <2>1, <2>2 DEF Annotated
  <2>4. QED
    BY <2>1, <2>3
<1> DEFINE Typed == /\ secrets' \subseteq PlannedProfiles
                    /\ unitFiles' \in [UnitNames -> UnitRecords \cup {NoUnit}]
           May(p) == plans' = plans \/ Recorded(p) \/ Forgotten(p) \/ Annotated(p)
<1>6. \A new : Left(new) => Typed
  BY DEF Left
<1>7. UNCHANGED <<secrets, unitFiles>> => Typed
  BY DEF PlansTypeOK
<1> HIDE DEF Typed
<1>8. \E p \in PlannedProfiles : Typed /\ May(p)
  <2>1. PICK p \in PlannedProfiles :
          \/ \E d \in Drafts, bound \in Occupations : CreateProfile(p, d, bound) \/ UpdateProfile(p, d, bound)
          \/ \E force \in BOOLEAN : DeleteProfile(p, force)
          \/ \E set \in BOOLEAN, bound \in Occupations : ChangeKey(p, set, bound)
          \/ \E state \in {"running", "stopped"} : RecordState(p, state)
    BY DEF PlansNext
  <2>2. ASSUME NEW d \in Drafts, NEW bound \in Occupations,
               CreateProfile(p, d, bound) \/ UpdateProfile(p, d, bound)
        PROVE  Typed /\ May(p)
    BY <1>1, <1>2, <1>6, <2>2
  <2>3. ASSUME NEW force \in BOOLEAN, DeleteProfile(p, force) PROVE Typed /\ May(p)
    BY <1>3, <1>6, <2>3
  <2>4. ASSUME NEW set \in BOOLEAN, NEW bound \in Occupations, ChangeKey(p, set, bound)
        PROVE  Typed /\ May(p)
    BY <1>4, <1>6, <2>4
  <2>5. ASSUME NEW state \in {"running", "stopped"}, RecordState(p, state)
        PROVE  Typed /\ May(p)
    BY <1>5, <1>7, <2>5
  <2>6. QED
    BY <2>1, <2>2, <2>3, <2>4, <2>5
<1>9. QED
  BY <1>8 DEF Typed

-----------------------------------------------------------------------------
(* The invariant.                                                          *)

\* No port is given to two profiles, or to a profile and a service.
ProfilePortsApart ==
    \A p, q \in PlannedProfiles :
        PortsOf(p) \cap ServicePorts = {} /\ (p # q => PortsOf(p) \cap PortsOf(q) = {})

\* Every profile is as its draft asks, and what operators chose apart stays apart.
PlansInv ==
    /\ PlansTypeOK
    /\ Drafted
    /\ ProfilePortsApart
    /\ PortsChosenOnce => OwnPortsOnce
    /\ GpusChosenOnce => SeparateGpus

\* The registry after one profile is recorded.
LEMMA AfterRecord ==
    ASSUME PlansTypeOK, NEW p \in PlannedProfiles, NEW r \in ProfileRecords,
           plans' = [plans EXCEPT ![p] = r]
    PROVE  /\ plans' \in [PlannedProfiles -> ProfileRecords \cup {NoProfile}]
           /\ plans'[p] = r /\ Saved(p)' /\ InstancesOf(p)' = r.instances
           /\ \A q \in PlannedProfiles \ {p} :
                /\ plans'[q] = plans[q] /\ Saved(q)' = Saved(q)
                /\ InstancesOf(q)' = InstancesOf(q) /\ PortsOf(q)' = PortsOf(q)
<1>1. /\ plans' \in [PlannedProfiles -> ProfileRecords \cup {NoProfile}]
      /\ plans'[p] = r /\ \A q \in PlannedProfiles \ {p} : plans'[q] = plans[q]
  BY DEF PlansTypeOK
<1>2. r # NoProfile
  BY PlansAssumption
<1>3. Saved(p)' /\ InstancesOf(p)' = r.instances
  BY <1>1, <1>2 DEF Saved, InstancesOf
<1>4. ASSUME NEW q \in PlannedProfiles \ {p}
      PROVE  Saved(q)' = Saved(q) /\ InstancesOf(q)' = InstancesOf(q) /\ PortsOf(q)' = PortsOf(q)
  <2>1. Saved(q)' = Saved(q) /\ InstancesOf(q)' = InstancesOf(q)
    BY <1>1 DEF Saved, InstancesOf
  <2>2. PortsOf(q)' = PortsOf(q)
    BY <2>1 DEF PortsOf
  <2>3. QED
    BY <2>1, <2>2
<1>5. QED
  BY <1>1, <1>3, <1>4

\* What is known of the profiles when one is removed.
LEMMA AfterForgetting ==
    ASSUME PlansTypeOK, NEW p \in PlannedProfiles, plans' = [plans EXCEPT ![p] = NoProfile]
    PROVE  /\ plans' \in [PlannedProfiles -> ProfileRecords \cup {NoProfile}]
           /\ ~Saved(p)' /\ InstancesOf(p)' = <<>> /\ PortsOf(p)' = {}
           /\ \A q \in PlannedProfiles \ {p} :
                /\ plans'[q] = plans[q] /\ Saved(q)' = Saved(q)
                /\ InstancesOf(q)' = InstancesOf(q) /\ PortsOf(q)' = PortsOf(q)
<1>1. /\ plans' \in [PlannedProfiles -> ProfileRecords \cup {NoProfile}]
      /\ plans'[p] = NoProfile /\ \A q \in PlannedProfiles \ {p} : plans'[q] = plans[q]
  BY DEF PlansTypeOK
<1>2. ~Saved(p)' /\ InstancesOf(p)' = <<>>
  BY <1>1 DEF Saved, InstancesOf
<1>3. PortsOf(p)' = {}
  BY <1>2 DEF PortsOf
<1>4. ASSUME NEW q \in PlannedProfiles \ {p}
      PROVE  Saved(q)' = Saved(q) /\ InstancesOf(q)' = InstancesOf(q) /\ PortsOf(q)' = PortsOf(q)
  <2>1. Saved(q)' = Saved(q) /\ InstancesOf(q)' = InstancesOf(q)
    BY <1>1 DEF Saved, InstancesOf
  <2>2. PortsOf(q)' = PortsOf(q)
    BY <2>1 DEF PortsOf
  <2>3. QED
    BY <2>1, <2>2
<1>5. QED
  BY <1>1, <1>2, <1>3, <1>4

\* The ports of instances.
LEMMA PortsOfInstances ==
    ASSUME NEW p, NEW x
    PROVE  x \in PortsOf(p) <=> \E i \in DOMAIN InstancesOf(p) : x = InstancesOf(p)[i].port
  BY DEF PortsOf

\* Recording what is planned keeps the invariant.
LEMMA RecordedKeeps ==
    ASSUME PlansInv, NEW p \in PlannedProfiles, Recorded(p)
    PROVE  /\ plans' \in [PlannedProfiles -> ProfileRecords \cup {NoProfile}]
           /\ Drafted' /\ ProfilePortsApart'
           /\ (PortsChosenOnce => OwnPortsOnce') /\ (GpusChosenOnce => SeparateGpus')
<1> USE DEF PlansInv
<1>1. PICK d \in Drafts, bound \in Occupations, state \in {"running", "stopped"}, key \in BOOLEAN :
        /\ Plannable(p, d, bound)
        /\ plans' = [plans EXCEPT ![p] = Profile(d, PlannedInstances(p, d, bound), state, key)]
  BY DEF Recorded
<1> DEFINE is == PlannedInstances(p, d, bound)
           n == d.replicas
           r == Profile(d, is, state, key)
           ports == PlannedPorts(p, d, bound)
           gpus == PlannedGpus(p, d).gpus
<1>2. /\ is \in Seq(InstanceRecords) /\ DOMAIN is = 1..n
      /\ \A i \in 1..n : is[i].port = ports[i] /\ is[i].port \notin TakenPorts(p)
      /\ PlacedOn(is) = gpus /\ AsDrafted(d, is) /\ Len(is) = n
  BY <1>1, PlannedFacts
<1> HIDE DEF is, ports, gpus
<1>3. r \in ProfileRecords /\ r.draft = d /\ r.instances = is
  BY <1>2 DEF ProfileRecords, Profile
<1> HIDE DEF r
<1>4. /\ plans' \in [PlannedProfiles -> ProfileRecords \cup {NoProfile}]
      /\ plans'[p] = r /\ Saved(p)' /\ InstancesOf(p)' = is
      /\ \A q \in PlannedProfiles \ {p} :
           /\ plans'[q] = plans[q] /\ Saved(q)' = Saved(q)
           /\ InstancesOf(q)' = InstancesOf(q) /\ PortsOf(q)' = PortsOf(q)
  <2>1. plans' = [plans EXCEPT ![p] = r]
    BY <1>1 DEF r, is
  <2>2. QED
    BY <1>3, <2>1, AfterRecord
<1>5. Drafted'
  <2>1. ASSUME NEW q \in PlannedProfiles, Saved(q)'
        PROVE  AsDrafted(plans'[q].draft, plans'[q].instances)
    <3>1. CASE q = p
      BY <1>2, <1>3, <1>4, <3>1
    <3>2. CASE q # p
      BY <1>4, <2>1, <3>2 DEF Drafted
    <3>3. QED
      BY <3>1, <3>2
  <2>2. QED
    BY <2>1 DEF Drafted
<1>6. \A x \in PortsOf(p)' : x \notin TakenPorts(p)
  <2>1. PortsOf(p)' = {InstancesOf(p)'[i].port : i \in DOMAIN InstancesOf(p)'}
    BY DEF PortsOf
  <2> HIDE DEF n
  <2>2. QED
    BY <1>2, <1>4, <2>1
<1>7. ProfilePortsApart'
  <2>1. \A x \in PortsOf(p)' : x \notin ServicePorts /\ \A q \in PlannedProfiles \ {p} : x \notin PortsOf(q)
    BY <1>6 DEF TakenPorts
  <2>2. ASSUME NEW q \in PlannedProfiles PROVE PortsOf(q)' \cap ServicePorts = {}
    <3>1. CASE q = p
      BY <2>1, <3>1
    <3>2. CASE q # p
      BY <1>4, <3>2 DEF ProfilePortsApart
    <3>3. QED
      BY <3>1, <3>2
  <2>3. ASSUME NEW q \in PlannedProfiles, NEW s \in PlannedProfiles, q # s
        PROVE  PortsOf(q)' \cap PortsOf(s)' = {}
    <3>1. CASE q = p
      BY <1>4, <2>1, <2>3, <3>1
    <3>2. CASE s = p
      BY <1>4, <2>1, <2>3, <3>2
    <3>3. CASE q # p /\ s # p
      BY <1>4, <2>3, <3>3 DEF ProfilePortsApart
    <3>4. QED
      BY <3>1, <3>2, <3>3
  <2>4. QED
    BY <2>2, <2>3 DEF ProfilePortsApart
<1>8. ASSUME PortsChosenOnce PROVE OwnPortsOnce'
  <2>1. \A i, j \in 1..n : ports[i] = ports[j] => i = j
    <3>0. /\ n \in Nat /\ Len(ports) = n /\ d.ports \in Seq(Nat)
          /\ \A i, j \in DOMAIN InstancesOf(p) :
               InstancesOf(p)[i].port = InstancesOf(p)[j].port => i = j
      <4>1. n \in Nat /\ d.ports \in Seq(Nat)
        BY DraftType
      <4>2. Len(ports) = n
        BY <1>1, PlannableFacts DEF ports
      <4>3. \A i, j \in DOMAIN InstancesOf(p) :
               InstancesOf(p)[i].port = InstancesOf(p)[j].port => i = j
        BY <1>8 DEF OwnPortsOnce
      <4>4. QED
        BY <4>1, <4>2, <4>3
    <3>1. CASE d.portMode = "explicit"
      <4>1. ports = d.ports
        BY <3>1, PortsPlanned DEF ports
      <4>2. IsInjective(d.ports)
        BY <1>8, <3>1 DEF PortsChosenOnce
      <4>3. DOMAIN d.ports = 1..n
        BY <3>0, <4>1
      <4>4. QED
        BY <4>1, <4>2, <4>3 DEF IsInjective
    <3>2. CASE d.portMode # "explicit"
      <4> DEFINE kept == KeptPorts(p, n)
      <4>1. \E new \in Seq(Nat) :
              /\ PlannedPorts(p, d, bound) = KeptPorts(p, d.replicas) \o new
              /\ \A i \in 1..Len(new) : new[i] \notin ToSet(KeptPorts(p, d.replicas))
              /\ \A i, j \in 1..Len(new) : new[i] = new[j] => i = j
              /\ Len(KeptPorts(p, d.replicas)) = d.replicas => new = <<>>
        BY <3>2, PortsPlanned
      <4>2. PICK new \in Seq(Nat) :
              /\ ports = kept \o new
              /\ \A i \in 1..Len(new) : new[i] \notin ToSet(kept)
              /\ \A i, j \in 1..Len(new) : new[i] = new[j] => i = j
        BY <4>1 DEF ports
      <4>3. /\ kept \in Seq(Nat)
            /\ \A i \in 1..Len(kept) :
                 i \in DOMAIN InstancesOf(p) /\ kept[i] = InstancesOf(p)[i].port
        BY <3>0, KeptPortsFacts
      <4> HIDE DEF kept
      <4>4. \A i, j \in 1..Len(kept) : kept[i] = kept[j] => i = j
        BY <3>0, <4>3
      <4>5. \A i \in 1..Len(kept), j \in 1..Len(new) : kept[i] # new[j]
        BY <4>2, <4>3, InSet
      <4>6. \A i, j \in 1..Len(kept \o new) : (kept \o new)[i] = (kept \o new)[j] => i = j
        BY <4>2, <4>3, <4>4, <4>5, ConcatOnce, ZenonT(60)
      <4>7. QED
        BY <3>0, <4>2, <4>6
    <3>3. QED
      BY <3>1, <3>2
  <2>2. ASSUME NEW q \in PlannedProfiles
        PROVE  \A i, j \in DOMAIN InstancesOf(q)' :
                 InstancesOf(q)'[i].port = InstancesOf(q)'[j].port => i = j
    <3>1. CASE q = p
      <4> HIDE DEF n
      <4>1. QED
        BY <1>2, <1>4, <2>1, <3>1
    <3>2. CASE q # p
      BY <1>4, <1>8, <3>2 DEF OwnPortsOnce
    <3>3. QED
      BY <3>1, <3>2
  <2>3. QED
    BY <2>2 DEF OwnPortsOnce
<1>9. ASSUME GpusChosenOnce PROVE SeparateGpus'
  <2>1. PlannedGpus(p, d).enough
    BY <1>1, PlannableFacts
  <2>2. Apart(PlacedOn(is))
    BY <1>2, <1>9, <2>1, PlannedApart DEF gpus
  <2>3. ASSUME NEW q \in PlannedProfiles, Saved(q)' PROVE Apart(PlacedOn(plans'[q].instances))
    <3>1. CASE q = p
      BY <1>3, <1>4, <2>2, <3>1
    <3>2. CASE q # p
      BY <1>4, <1>9, <2>3, <3>2 DEF SeparateGpus
    <3>3. QED
      BY <3>1, <3>2
  <2>4. QED
    BY <2>3 DEF SeparateGpus
<1>10. QED
  BY <1>4, <1>5, <1>7, <1>8, <1>9

\* Removing a profile keeps the invariant.
LEMMA ForgottenKeeps ==
    ASSUME PlansInv, NEW p \in PlannedProfiles, Forgotten(p)
    PROVE  /\ plans' \in [PlannedProfiles -> ProfileRecords \cup {NoProfile}]
           /\ Drafted' /\ ProfilePortsApart'
           /\ (PortsChosenOnce => OwnPortsOnce') /\ (GpusChosenOnce => SeparateGpus')
<1> USE DEF PlansInv
<1>1. /\ plans' \in [PlannedProfiles -> ProfileRecords \cup {NoProfile}]
      /\ ~Saved(p)' /\ InstancesOf(p)' = <<>> /\ PortsOf(p)' = {}
      /\ \A q \in PlannedProfiles \ {p} :
           /\ plans'[q] = plans[q] /\ Saved(q)' = Saved(q)
           /\ InstancesOf(q)' = InstancesOf(q) /\ PortsOf(q)' = PortsOf(q)
  BY AfterForgetting DEF Forgotten
<1>2. Drafted'
  BY <1>1 DEF Drafted
<1>3. ProfilePortsApart'
  BY <1>1 DEF ProfilePortsApart
<1>4. ASSUME PortsChosenOnce PROVE OwnPortsOnce'
  <2>1. ASSUME NEW q \in PlannedProfiles
        PROVE  \A i, j \in DOMAIN InstancesOf(q)' :
                 InstancesOf(q)'[i].port = InstancesOf(q)'[j].port => i = j
    <3>1. CASE q = p
      BY <1>1, <3>1
    <3>2. CASE q # p
      BY <1>1, <1>4, <3>2 DEF OwnPortsOnce
    <3>3. QED
      BY <3>1, <3>2
  <2>2. QED
    BY <2>1 DEF OwnPortsOnce
<1>5. GpusChosenOnce => SeparateGpus'
  BY <1>1 DEF SeparateGpus
<1>6. QED
  BY <1>1, <1>2, <1>3, <1>4, <1>5

\* Changing the key or the state of a profile keeps the invariant.
LEMMA AnnotatedKeeps ==
    ASSUME PlansInv, NEW p \in PlannedProfiles, Annotated(p)
    PROVE  /\ plans' \in [PlannedProfiles -> ProfileRecords \cup {NoProfile}]
           /\ Drafted' /\ ProfilePortsApart'
           /\ (PortsChosenOnce => OwnPortsOnce') /\ (GpusChosenOnce => SeparateGpus')
<1> USE DEF PlansInv
<1> DEFINE d == plans[p].draft
           is == plans[p].instances
<1>1. PICK state \in {"running", "stopped"}, key \in BOOLEAN :
        plans' = [plans EXCEPT ![p] = Profile(d, is, state, key)]
  BY DEF Annotated
<1>2. Saved(p) /\ d \in Drafts /\ is \in Seq(InstanceRecords)
  BY SavedType DEF Annotated
<1>3. is = InstancesOf(p)
  BY <1>2 DEF InstancesOf
<1>4. AsDrafted(d, is)
  BY <1>2 DEF Drafted
<1> DEFINE r == Profile(d, is, state, key)
<1>5. GpusChosenOnce => Apart(PlacedOn(is))
  BY <1>2 DEF SeparateGpus
<1> HIDE DEF d, is
<1>6. r \in ProfileRecords /\ r.draft = d /\ r.instances = is
  BY <1>2 DEF ProfileRecords, Profile
<1> HIDE DEF r
<1>7. /\ plans' \in [PlannedProfiles -> ProfileRecords \cup {NoProfile}]
      /\ plans'[p] = r /\ Saved(p)' /\ InstancesOf(p)' = is
      /\ \A q \in PlannedProfiles \ {p} :
           /\ plans'[q] = plans[q] /\ Saved(q)' = Saved(q)
           /\ InstancesOf(q)' = InstancesOf(q) /\ PortsOf(q)' = PortsOf(q)
  <2>1. plans' = [plans EXCEPT ![p] = r]
    BY <1>1 DEF r
  <2>2. QED
    BY <1>6, <2>1, AfterRecord
<1>8. \A q \in PlannedProfiles : InstancesOf(q)' = InstancesOf(q)
  BY <1>3, <1>7
<1>9. \A q \in PlannedProfiles : PortsOf(q)' = PortsOf(q)
  BY <1>8 DEF PortsOf
<1>10. Drafted'
  <2>1. ASSUME NEW q \in PlannedProfiles, Saved(q)'
        PROVE  AsDrafted(plans'[q].draft, plans'[q].instances)
    <3>1. CASE q = p
      BY <1>4, <1>6, <1>7, <3>1
    <3>2. CASE q # p
      BY <1>7, <2>1, <3>2 DEF Drafted
    <3>3. QED
      BY <3>1, <3>2
  <2>2. QED
    BY <2>1 DEF Drafted
<1>11. ProfilePortsApart'
  BY <1>9 DEF ProfilePortsApart
<1>12. PortsChosenOnce => OwnPortsOnce'
  BY <1>8 DEF OwnPortsOnce
<1>13. ASSUME GpusChosenOnce PROVE SeparateGpus'
  <2>1. ASSUME NEW q \in PlannedProfiles, Saved(q)' PROVE Apart(PlacedOn(plans'[q].instances))
    <3>1. CASE q = p
      BY <1>5, <1>6, <1>7, <1>13, <3>1
    <3>2. CASE q # p
      BY <1>7, <1>13, <2>1, <3>2 DEF SeparateGpus
    <3>3. QED
      BY <3>1, <3>2
  <2>2. QED
    BY <2>1 DEF SeparateGpus
<1>14. QED
  BY <1>7, <1>10, <1>11, <1>12, <1>13

\* At first nothing is saved.
LEMMA PlansInvInit == PlansInit => PlansInv
<1> SUFFICES ASSUME PlansInit PROVE PlansInv
  OBVIOUS
<1>1. \A p \in PlannedProfiles : plans[p] = NoProfile
  BY DEF PlansInit
<1>2. PlansTypeOK
  BY DEF PlansInit, PlansTypeOK
<1>3. \A p \in PlannedProfiles : ~Saved(p) /\ InstancesOf(p) = <<>>
  BY <1>1 DEF Saved, InstancesOf
<1>4. \A p \in PlannedProfiles : PortsOf(p) = {}
  BY <1>3 DEF PortsOf
<1>5. Drafted /\ SeparateGpus
  BY <1>3 DEF Drafted, SeparateGpus
<1>6. ProfilePortsApart /\ OwnPortsOnce
  BY <1>3, <1>4 DEF ProfilePortsApart, OwnPortsOnce
<1>7. QED
  BY <1>2, <1>5, <1>6 DEF PlansInv

\* When all files stay, so does all that is said of them.
LEMMA PlansStay == PlansInv /\ UNCHANGED planVars => PlansInv'
<1> SUFFICES ASSUME PlansInv, UNCHANGED planVars PROVE PlansInv'
  OBVIOUS
<1>1. plans' = plans /\ secrets' = secrets /\ unitFiles' = unitFiles
  BY DEF planVars
<1>2. \A p : Saved(p)' = Saved(p) /\ InstancesOf(p)' = InstancesOf(p)
  BY <1>1 DEF Saved, InstancesOf
<1>3. \A p : PortsOf(p)' = PortsOf(p)
  BY <1>2 DEF PortsOf
<1>4. PlansTypeOK' /\ Drafted'
  BY <1>1, <1>2 DEF PlansInv, PlansTypeOK, Drafted
<1>5. ProfilePortsApart'
  BY <1>3 DEF PlansInv, ProfilePortsApart
<1>6. PortsChosenOnce => OwnPortsOnce'
  BY <1>2 DEF PlansInv, OwnPortsOnce
<1>7. GpusChosenOnce => SeparateGpus'
  BY <1>1, <1>2 DEF PlansInv, SeparateGpus
<1>8. QED
  BY <1>4, <1>5, <1>6, <1>7 DEF PlansInv

\* An operation keeps the invariant.
LEMMA PlansStep == PlansInv /\ PlansNext => PlansInv'
<1> SUFFICES ASSUME PlansInv, PlansNext PROVE PlansInv'
  OBVIOUS
<1>1. PlansTypeOK /\ Drafted
  BY DEF PlansInv
<1>2. /\ secrets' \subseteq PlannedProfiles
      /\ unitFiles' \in [UnitNames -> UnitRecords \cup {NoUnit}]
      /\ \E p \in PlannedProfiles : plans' = plans \/ Recorded(p) \/ Forgotten(p) \/ Annotated(p)
  BY <1>1, StepKinds
<1>3. PICK p \in PlannedProfiles : plans' = plans \/ Recorded(p) \/ Forgotten(p) \/ Annotated(p)
  BY <1>2
<1> DEFINE Kept == /\ plans' \in [PlannedProfiles -> ProfileRecords \cup {NoProfile}]
                   /\ Drafted' /\ ProfilePortsApart'
                   /\ (PortsChosenOnce => OwnPortsOnce') /\ (GpusChosenOnce => SeparateGpus')
<1>4. ASSUME plans' = plans PROVE Kept
  <2>1. \A q : Saved(q)' = Saved(q) /\ InstancesOf(q)' = InstancesOf(q)
    BY <1>4 DEF Saved, InstancesOf
  <2>2. \A q : PortsOf(q)' = PortsOf(q)
    BY <2>1 DEF PortsOf
  <2>3. plans' \in [PlannedProfiles -> ProfileRecords \cup {NoProfile}] /\ Drafted'
    BY <1>4, <2>1 DEF PlansInv, PlansTypeOK, Drafted
  <2>4. ProfilePortsApart'
    BY <2>2 DEF PlansInv, ProfilePortsApart
  <2>5. PortsChosenOnce => OwnPortsOnce'
    BY <2>1 DEF PlansInv, OwnPortsOnce
  <2>6. GpusChosenOnce => SeparateGpus'
    BY <1>4, <2>1 DEF PlansInv, SeparateGpus
  <2>7. QED
    BY <2>3, <2>4, <2>5, <2>6
<1>5. Recorded(p) => Kept
  BY RecordedKeeps
<1>6. Forgotten(p) => Kept
  BY ForgottenKeeps
<1>7. Annotated(p) => Kept
  BY AnnotatedKeeps
<1>8. Kept
  BY <1>3, <1>4, <1>5, <1>6, <1>7
<1>9. PlansTypeOK'
  BY <1>2, <1>8 DEF PlansTypeOK
<1>10. QED
  BY <1>8, <1>9 DEF PlansInv

\* In every reachable state the files are of their kinds, the instances are as their
\* drafts ask, no two profiles share a port, and, if no list names a port or a GPU twice,
\* no two instances do (inference_planner.py).
THEOREM PlansInvariant == PlansSpec => []PlansInv
<1>1. PlansInv /\ [PlansNext]_planVars => PlansInv'
  BY PlansStep, PlansStay
<1>2. QED
  BY <1>1, PlansInvInit, PTL DEF PlansSpec

\* The profiles, the secrets and the unit files are of their kinds.
THEOREM PlansTypeCorrect == PlansSpec => []PlansTypeOK
<1>1. PlansInv => PlansTypeOK
  BY DEF PlansInv
<1>2. QED
  BY <1>1, PlansInvariant, PTL

\* As many ports as instances, when none has the port of another.
LEMMA PortsCounted ==
    ASSUME PlansTypeOK, OwnPortsOnce, NEW p \in PlannedProfiles
    PROVE  Cardinality(PortsOf(p)) = Len(InstancesOf(p))
<1> DEFINE is == InstancesOf(p)
           n == Len(is)
           S == 1..n
           T == PortsOf(p)
           f == [i \in S |-> is[i].port]
<1>1. n \in Nat /\ DOMAIN is = S
  <2>1. is \in Seq(InstanceRecords)
    BY SavedType DEF InstancesOf
  <2> HIDE DEF is
  <2>2. QED
    BY <2>1
<1>2. \A i, j \in S : is[i].port = is[j].port => i = j
  BY <1>1 DEF OwnPortsOnce
<1>3. \A x : x \in T <=> \E i \in S : x = is[i].port
  BY <1>1, PortsOfInstances
<1> HIDE DEF is, T, n
<1>4. IsFiniteSet(S) /\ Cardinality(S) = n
  BY <1>1, FS_Interval
<1> HIDE DEF S
<1>5. ExistsBijection(S, T)
  <2>1. f \in [S -> T]
    BY <1>3
  <2>2. \A i, j \in S : f[i] = f[j] => i = j
    BY <1>2
  <2>3. \A x \in T : \E i \in S : f[i] = x
    BY <1>3
  <2>4. QED
    BY <2>1, <2>2, <2>3 DEF ExistsBijection, Bijection, Injection, Surjection, IsInjective
<1>6. Cardinality(T) = n
  BY <1>4, <1>5, FS_Bijection
<1>7. QED
  BY <1>6 DEF T, n, is

\* No port is given to two profiles, or to a profile and a service (_used_ports), whatever
\* operators choose and in whatever order profiles are created, edited and removed.
THEOREM ProfilePortsApartHolds == PlansSpec => []ProfilePortsApart
<1>1. PlansInv => ProfilePortsApart
  BY DEF PlansInv
<1>2. QED
  BY <1>1, PlansInvariant, PTL

\* No port is given twice, to two profiles, two instances of one or a service, if the lists
\* of chosen ports name each port once, which the planner does not check (_plan_ports).
THEOREM PlannedPortsDistinctHolds ==
    ASSUME PortsChosenOnce
    PROVE  PlansSpec => []PlannedPortsDistinct
<1>1. PlansInv => PlannedPortsDistinct
  BY PortsCounted DEF PlansInv, ProfilePortsApart, PlannedPortsDistinct
<1>2. QED
  BY <1>1, PlansInvariant, PTL

\* Instances that are placed on GPUs of their own have them for themselves (_plan_gpus), if
\* no profile has had its instances share GPUs: those that go on keep theirs.
THEOREM InstancesApartHolds ==
    ASSUME GpusChosenOnce
    PROVE  PlansSpec => []InstancesApart
<1>1. PlansInv => InstancesApart
  BY DEF PlansInv, SeparateGpus, Apart, PlacedOn, InstancesApart
<1>2. QED
  BY <1>1, PlansInvariant, PTL

-----------------------------------------------------------------------------
(* The unit files.                                                         *)

\* What the n-th unit file of the profile p is when the profile is recorded as r.
UnitFor(r, p, n) ==
    IF r = NoProfile \/ <<p, n>> \notin NamesOf(p, r.instances) THEN NoUnit
    ELSE UnitOf(r.draft, r.instances[IF n = 0 THEN 1 ELSE n], r.key)

UnitsMatchFor ==
    /\ secrets = {p \in PlannedProfiles : Saved(p) /\ plans[p].key}
    /\ \A p \in PlannedProfiles, n \in 0..MaxReplicas :
         unitFiles[<<p, n>>] = UnitFor(plans[p], p, n)

\* The unit files match the profiles when each is what its profile makes it.
LEMMA UnitsMatchAsFor == UnitsMatchProfiles <=> UnitsMatchFor
<1>1. ASSUME NEW p \in PlannedProfiles, NEW n \in 0..MaxReplicas
      PROVE  UnitFor(plans[p], p, n) =
               LET names == IF Saved(p) THEN NamesOf(p, plans[p].instances) ELSE {} IN
               IF <<p, n>> \notin names THEN NoUnit
               ELSE UnitOf(plans[p].draft, plans[p].instances[IF n = 0 THEN 1 ELSE n], plans[p].key)
  <2> DEFINE names == IF Saved(p) THEN NamesOf(p, plans[p].instances) ELSE {}
             in == <<p, n>> \in NamesOf(p, plans[p].instances)
             unit == UnitOf(plans[p].draft, plans[p].instances[IF n = 0 THEN 1 ELSE n], plans[p].key)
  <2>1. UnitFor(plans[p], p, n) = IF plans[p] = NoProfile \/ ~in THEN NoUnit ELSE unit
    BY DEF UnitFor
  <2>2. <<p, n>> \notin names <=> plans[p] = NoProfile \/ ~in
    BY DEF Saved
  <2> HIDE DEF in, unit, names
  <2>3. UnitFor(plans[p], p, n) = IF <<p, n>> \notin names THEN NoUnit ELSE unit
    BY <2>1, <2>2
  <2>4. QED
    BY <2>3 DEF names, unit
<1> DEFINE W(p, n) == LET names == IF Saved(p) THEN NamesOf(p, plans[p].instances) ELSE {} IN
               IF <<p, n>> \notin names THEN NoUnit
               ELSE UnitOf(plans[p].draft, plans[p].instances[IF n = 0 THEN 1 ELSE n], plans[p].key)
<1>2. \A p \in PlannedProfiles, n \in 0..MaxReplicas : UnitFor(plans[p], p, n) = W(p, n)
  BY <1>1
<1>3. UnitsMatchProfiles <=>
      /\ secrets = {p \in PlannedProfiles : Saved(p) /\ plans[p].key}
      /\ \A p \in PlannedProfiles, n \in 0..MaxReplicas : unitFiles[<<p, n>>] = W(p, n)
  BY Zenon DEF UnitsMatchProfiles
<1> HIDE DEF W
<1>4. QED
  BY <1>2, <1>3 DEF UnitsMatchFor

\* The same after a step.
LEMMA UnitsMatchAfter == UnitsMatchProfiles' <=> UnitsMatchFor'
  BY UnitsMatchAsFor, PTL

\* When one profile is recorded otherwise, with its key and its unit files, all match.
LEMMA OneProfileMatches ==
    ASSUME PlansTypeOK, UnitsMatchProfiles, NEW p \in PlannedProfiles, NEW r,
           plans' = [plans EXCEPT ![p] = r],
           secrets' = IF r # NoProfile /\ r.key THEN secrets \cup {p} ELSE secrets \ {p},
           \A n \in 0..MaxReplicas : unitFiles'[<<p, n>>] = UnitFor(r, p, n),
           \A q \in PlannedProfiles \ {p}, n \in 0..MaxReplicas :
             unitFiles'[<<q, n>>] = unitFiles[<<q, n>>]
    PROVE  UnitsMatchProfiles'
<1>1. plans'[p] = r /\ \A q \in PlannedProfiles \ {p} : plans'[q] = plans[q]
  BY DEF PlansTypeOK
<1>2. /\ secrets = {q \in PlannedProfiles : Saved(q) /\ plans[q].key}
      /\ \A q \in PlannedProfiles, n \in 0..MaxReplicas :
           unitFiles[<<q, n>>] = UnitFor(plans[q], q, n)
  BY UnitsMatchAsFor DEF UnitsMatchFor
<1>3. secrets' = {q \in PlannedProfiles : Saved(q)' /\ plans'[q].key}
  <2>1. \A q : q \in secrets <=> q \in PlannedProfiles /\ plans[q] # NoProfile /\ plans[q].key
    BY <1>2 DEF Saved
  <2>2. \A q : q \in secrets' <=> q \in PlannedProfiles /\ plans'[q] # NoProfile /\ plans'[q].key
    <3>1. ASSUME NEW q, q # p PROVE q \in secrets' <=> q \in secrets
      BY <3>1
    <3>2. p \in secrets' <=> r # NoProfile /\ r.key
      OBVIOUS
    <3>3. QED
      BY <1>1, <2>1, <3>1, <3>2
  <2>3. QED
    BY <2>2 DEF Saved
<1>4. \A q \in PlannedProfiles, n \in 0..MaxReplicas :
        unitFiles'[<<q, n>>] = UnitFor(plans'[q], q, n)
  <2>1. ASSUME NEW q \in PlannedProfiles, NEW n \in 0..MaxReplicas
        PROVE  unitFiles'[<<q, n>>] = UnitFor(plans'[q], q, n)
    <3>1. CASE q = p
      BY <1>1, <3>1
    <3>2. CASE q # p
      BY <1>1, <1>2, <3>2
    <3>3. QED
      BY <3>1, <3>2
  <2>2. QED
    BY <2>1
<1>5. UnitsMatchFor'
  BY <1>3, <1>4 DEF UnitsMatchFor
<1>6. QED
  BY <1>5, UnitsMatchAfter

\* The writes that sync unit files with a content, as writes of what each file is to be.
Synced(content) == [u \in UnitNames |-> IF u \in DOMAIN content THEN content[u] ELSE NoUnit]

\* They write no registry and the units of the content and the old ones.
LEMMA SyncExactly ==
    ASSUME NEW r, NEW s, NEW p \in PlannedProfiles, NEW content, NEW old,
           DOMAIN content \subseteq {p} \X (0..MaxReplicas), old \subseteq {p} \X (0..MaxReplicas)
    PROVE  /\ SyncUnits(p, content, old) \in Seq(Exact(r, s, Synced(content)))
           /\ \A kind \in {"plans", "secrets"} : ~Touches(SyncUnits(p, content, old), kind)
           /\ \A u : TouchesUnit(SyncUnits(p, content, old), u) <=> u \in DOMAIN content \cup old
<1> DEFINE A == {r}
           B == {s}
           c == Synced(content)
           C == [u \in UnitNames |-> {c[u]}]
<1>1. DOMAIN content \subseteq UnitNames /\ old \subseteq UnitNames
  BY DEF UnitNames
<1>2. \A u \in UnitNames : C[u] = {c[u]}
  OBVIOUS
<1>3. \A u \in UnitNames : c[u] = IF u \in DOMAIN content THEN content[u] ELSE NoUnit
  BY DEF Synced
<1>4. Exact(r, s, c) = Writes(A, B, C)
  BY DEF Exact
<1> HIDE DEF A, B, C, c
<1>5. /\ \A u \in DOMAIN content : content[u] \in C[u]
      /\ \A u \in old \ DOMAIN content : NoUnit \in C[u]
  BY <1>1, <1>2, <1>3
<1>6. SyncUnits(p, content, old) \in Seq(Writes(A, B, C))
  BY <1>5, SyncWrites
<1>7. \A kind \in {"plans", "secrets"} : ~Touches(SyncUnits(p, content, old), kind)
  BY <1>5, SyncWrites, SMTT(60)
<1>8. \A u : TouchesUnit(SyncUnits(p, content, old), u) <=> u \in DOMAIN content \cup old
  BY <1>5, SyncWrites
<1>9. QED
  BY <1>4, <1>6, <1>7, <1>8 DEF c

\* The writes to the registry and to the secrets, as writes of what these are to be.
LEMMA SavesExactly ==
    ASSUME NEW r, NEW s, NEW c
    PROVE  LET one == ToRegistry(r)
               two == ToSecrets(s) \o ToRegistry(r) IN
           /\ one \in Seq(Exact(r, s, c)) /\ two \in Seq(Exact(r, s, c))
           /\ Touches(one, "plans") /\ ~Touches(one, "secrets")
           /\ Touches(two, "plans") /\ Touches(two, "secrets")
           /\ \A u : ~TouchesUnit(one, u) /\ ~TouchesUnit(two, u)
<1> DEFINE A == {r}
           B == {s}
           C == [u \in UnitNames |-> {c[u]}]
           X == Writes(A, B, C)
           v == ToSecrets(s)
           w == ToRegistry(r)
<1>1. r \in A /\ s \in B /\ Exact(r, s, c) = X
  BY DEF Exact
<1> HIDE DEF A, B, C
<1>2. /\ w \in Seq(X) /\ Touches(w, "plans") /\ ~Touches(w, "secrets")
      /\ \A u : ~TouchesUnit(w, u)
  BY <1>1, RegistryWrites
<1>3. /\ v \in Seq(X) /\ Touches(v, "secrets") /\ ~Touches(v, "plans")
      /\ \A u : ~TouchesUnit(v, u)
  BY <1>1, SecretsWrites
<1> HIDE DEF X, v, w
<1>4. /\ v \o w \in Seq(X)
      /\ \A kind : Touches(v \o w, kind) <=> Touches(v, kind) \/ Touches(w, kind)
      /\ \A u : TouchesUnit(v \o w, u) <=> TouchesUnit(v, u) \/ TouchesUnit(w, u)
  BY <1>2, <1>3, ConcatTouches
<1>5. QED
  BY <1>1, <1>2, <1>3, <1>4 DEF v, w

\* The units a profile has now.
OldUnits(p) == IF Saved(p) THEN NamesOf(p, plans[p].instances) ELSE {}

\* They are named after it, and it has no others.
LEMMA OldUnitsFacts ==
    ASSUME PlansInv, UnitsMatchProfiles, NEW p \in PlannedProfiles
    PROVE  /\ OldUnits(p) \subseteq {p} \X (0..MaxReplicas)
           /\ \A n \in 0..MaxReplicas : <<p, n>> \notin OldUnits(p) => unitFiles[<<p, n>>] = NoUnit
<1>1. Saved(p) => NamesOf(p, plans[p].instances) \subseteq {p} \X (0..MaxReplicas)
  BY SavedUnits DEF PlansInv
<1>2. OldUnits(p) \subseteq {p} \X (0..MaxReplicas)
  BY <1>1 DEF OldUnits
<1>3. \A n \in 0..MaxReplicas : unitFiles[<<p, n>>] = UnitFor(plans[p], p, n)
  BY UnitsMatchAsFor DEF UnitsMatchFor
<1>4. \A n \in 0..MaxReplicas : <<p, n>> \notin OldUnits(p) => UnitFor(plans[p], p, n) = NoUnit
  BY DEF OldUnits, UnitFor, Saved
<1>5. QED
  BY <1>2, <1>3, <1>4

\* When a profile is recorded with instances and the unit files are synced with these,
\* all match.
LEMMA SyncedMatch ==
    ASSUME PlansInv, UnitsMatchProfiles, NEW p \in PlannedProfiles, NEW d \in Drafts,
           NEW is \in Seq(InstanceRecords), Len(is) \in 1..MaxReplicas,
           NEW state \in {"running", "stopped"}, NEW key \in BOOLEAN,
           plans' = [plans EXCEPT ![p] = Profile(d, is, state, key)],
           secrets' = IF key THEN secrets \cup {p} ELSE secrets \ {p},
           unitFiles' = [u \in UnitNames |->
             IF u \in DOMAIN ContentOf(p, d, is, key) \cup OldUnits(p)
             THEN Synced(ContentOf(p, d, is, key))[u] ELSE unitFiles[u]]
    PROVE  UnitsMatchProfiles'
<1> DEFINE content == ContentOf(p, d, is, key)
           names == NamesOf(p, is)
           r == Profile(d, is, state, key)
           At(n) == IF n = 0 THEN 1 ELSE n
<1>1. /\ names \subseteq {p} \X (0..MaxReplicas)
      /\ DOMAIN content = names
      /\ \A n \in 0..MaxReplicas : <<p, n>> \in names =>
           content[<<p, n>>] = UnitOf(d, is[At(n)], key)
  BY ContentFacts
<1>2. /\ r # NoProfile /\ r.draft = d /\ r.instances = is /\ r.key = key
  <2>1. r \in ProfileRecords
    BY DEF ProfileRecords, Profile
  <2>2. QED
    BY <2>1, PlansAssumption DEF Profile
<1>3. /\ OldUnits(p) \subseteq {p} \X (0..MaxReplicas)
      /\ \A n \in 0..MaxReplicas : <<p, n>> \notin OldUnits(p) => unitFiles[<<p, n>>] = NoUnit
  BY OldUnitsFacts
<1>4. unitFiles' = [u \in UnitNames |-> IF u \in DOMAIN content \cup OldUnits(p)
                                        THEN Synced(content)[u] ELSE unitFiles[u]]
  OBVIOUS
<1>5. \A u \in UnitNames : Synced(content)[u] = IF u \in DOMAIN content THEN content[u] ELSE NoUnit
  BY DEF Synced
<1> HIDE DEF content, names
<1>6. ASSUME NEW n \in 0..MaxReplicas PROVE unitFiles'[<<p, n>>] = UnitFor(r, p, n)
  <2> DEFINE u == <<p, n>>
  <2>1. u \in UnitNames
    BY DEF UnitNames
  <2>2. UnitFor(r, p, n) = IF u \notin names THEN NoUnit ELSE UnitOf(d, is[At(n)], key)
    <3> HIDE DEF r
    <3>1. QED
      BY <1>2 DEF UnitFor, names
  <2>3. u \in names => content[u] = UnitOf(d, is[At(n)], key)
    BY <1>1
  <2>4. u \notin OldUnits(p) => unitFiles[u] = NoUnit
    BY <1>3
  <2> HIDE DEF u, At
  <2>5. unitFiles'[u] = IF u \in names \cup OldUnits(p) THEN Synced(content)[u] ELSE unitFiles[u]
    BY <1>1, <1>4, <2>1
  <2>6. unitFiles'[u] = UnitFor(r, p, n)
    BY <1>1, <1>5, <2>1, <2>2, <2>3, <2>4, <2>5
  <2>7. QED
    BY <2>6 DEF u
<1>7. \A q \in PlannedProfiles \ {p}, n \in 0..MaxReplicas :
        unitFiles'[<<q, n>>] = unitFiles[<<q, n>>]
  <2>1. ASSUME NEW q \in PlannedProfiles \ {p}, NEW n \in 0..MaxReplicas
        PROVE  unitFiles'[<<q, n>>] = unitFiles[<<q, n>>]
    <3>1. <<q, n>> \notin DOMAIN content \cup OldUnits(p) /\ <<q, n>> \in UnitNames
      BY <1>1, <1>3 DEF UnitNames
    <3>2. QED
      BY <1>4, <3>1
  <2>2. QED
    BY <2>1
<1> HIDE DEF r
<1>8. /\ plans' = [plans EXCEPT ![p] = r]
      /\ secrets' = IF r # NoProfile /\ r.key THEN secrets \cup {p} ELSE secrets \ {p}
  BY <1>2 DEF r
<1>9. PlansTypeOK
  BY DEF PlansInv
<1>10. QED
  BY <1>6, <1>7, <1>8, <1>9, OneProfileMatches

\* The units of a profile that is not saved yet are not there, and are removed again.
LEMMA NothingToRemove ==
    ASSUME PlansInv, UnitsMatchProfiles, NEW p \in PlannedProfiles, ~Saved(p),
           NEW names, names \subseteq {p} \X (0..MaxReplicas)
    PROVE  ToUnits(p, names, [u \in UnitNames |-> NoUnit]) \in Seq(Exact(plans, secrets, unitFiles))
<1> DEFINE A == {plans}
           B == {secrets}
           C == [u \in UnitNames |-> {unitFiles[u]}]
           none == [u \in UnitNames |-> NoUnit]
<1>1. ASSUME NEW u \in names PROVE none[u] \in C[u]
  <2>1. PICK n \in 0..MaxReplicas : u = <<p, n>>
    BY <1>1
  <2>2. unitFiles[<<p, n>>] = NoUnit
    BY OldUnitsFacts DEF OldUnits
  <2>3. u \in UnitNames
    BY <1>1 DEF UnitNames
  <2>4. QED
    BY <2>1, <2>2, <2>3
<1>2. Exact(plans, secrets, unitFiles) = Writes(A, B, C)
  BY DEF Exact
<1> HIDE DEF A, B, C, none
<1>3. ToUnits(p, names, none) \in Seq(Writes(A, B, C))
  BY <1>1, UnitWrites
<1>4. QED
  BY <1>2, <1>3 DEF none

\* A profile that is created has its units, or else nothing has changed.
LEMMA CreateMatches ==
    ASSUME PlansInv, UnitsMatchProfiles, NEW p \in PlannedProfiles, NEW d \in Drafts, NEW bound,
           CreateProfile(p, d, bound)
    PROVE  UnitsMatchProfiles' \/ UNCHANGED planVars
<1> DEFINE is == PlannedInstances(p, d, bound)
           content == ContentOf(p, d, is, FALSE)
           names == DOMAIN content
           new == [plans EXCEPT ![p] = Profile(d, is, "stopped", FALSE)]
           none == ToUnits(p, names, [u \in UnitNames |-> NoUnit])
           saves == ToRegistry(new)
           old == {}
           sync == SyncUnits(p, content, old)
           undo == ToRegistry(plans) \o none
           c == Synced(content)
           Y == Exact(plans, secrets, unitFiles)
<1>1. /\ Plannable(p, d, bound) /\ ~Saved(p)
      /\ Change(p, saves, sync, names, undo, TRUE)
  BY Zenon DEF CreateProfile
<1>2. PlansTypeOK /\ unitFiles = [u \in UnitNames |-> unitFiles[u]]
  BY DEF PlansInv, PlansTypeOK
<1>3. names \subseteq {p} \X (0..MaxReplicas)
  BY <1>1, <1>2, PlannedContent
<1>4. is \in Seq(InstanceRecords) /\ Len(is) \in 1..MaxReplicas
  <2>1. is \in Seq(InstanceRecords) /\ Len(is) = d.replicas
    BY <1>1, <1>2, PlannedFacts
  <2>2. QED
    BY <2>1, DraftType
<1>5. /\ sync \in Seq(Exact(new, secrets, c))
      /\ \A kind \in {"plans", "secrets"} : ~Touches(sync, kind)
      /\ \A u : TouchesUnit(sync, u) <=> u \in names
  <2>1. old \subseteq {p} \X (0..MaxReplicas)
    OBVIOUS
  <2>2. names \cup old = names
    OBVIOUS
  <2> HIDE DEF content, old, new
  <2>3. sync \in Seq(Exact(new, secrets, c))
    BY <1>3, <2>1, SyncExactly
  <2>4. \A kind \in {"plans", "secrets"} : ~Touches(sync, kind)
    BY <1>3, <2>1, SyncExactly
  <2>5. \A u : TouchesUnit(sync, u) <=> u \in names \cup old
    BY <1>3, <2>1, SyncExactly
  <2>6. QED
    BY <2>2, <2>3, <2>4, <2>5
<1> HIDE DEF content, new, old, is
<1>6. /\ saves \in Seq(Exact(new, secrets, c))
      /\ Touches(saves, "plans") /\ ~Touches(saves, "secrets")
      /\ \A u : ~TouchesUnit(saves, u)
  BY SavesExactly
<1>7. undo \in Seq(Y) /\ Touches(undo, "plans")
  <2> DEFINE back == ToRegistry(plans)
  <2>1. back \in Seq(Y) /\ Touches(back, "plans")
    BY SavesExactly
  <2>2. none \in Seq(Y)
    <3> HIDE DEF names
    <3>1. QED
      BY <1>1, <1>3, NothingToRemove
  <2> HIDE DEF back, none, Y
  <2>3. back \o none \in Seq(Y) /\ Touches(back \o none, "plans")
    BY <2>1, <2>2, ConcatTouches
  <2>4. QED
    BY <2>3 DEF back
<1> HIDE DEF c, saves, sync, undo, Y, names
<1>8. \/ /\ plans' = IF Touches(saves, "plans") THEN new ELSE plans
         /\ secrets' = IF Touches(saves, "secrets") THEN secrets ELSE secrets
         /\ unitFiles' = UnitsAfter(sync, c)
      \/ plans' = plans /\ secrets' = secrets /\ unitFiles' = unitFiles
  <2> DEFINE may == TRUE
  <2>1. may => /\ undo \in Seq(Exact(plans, secrets, unitFiles))
               /\ Touches(saves, "plans") => Touches(undo, "plans")
               /\ Touches(saves, "secrets") => Touches(undo, "secrets")
    BY <1>6, <1>7 DEF Y
  <2>2. \A u : TouchesUnit(sync, u) => u \in names
    BY <1>5
  <2>3. may \in BOOLEAN /\ Change(p, saves, sync, names, undo, may)
    BY <1>1
  <2>4. /\ \A u : ~TouchesUnit(saves, u)
        /\ \A kind \in {"plans", "secrets"} : ~Touches(sync, kind)
    BY <1>5, <1>6
  <2>5. /\ PlansTypeOK /\ saves \in Seq(Exact(new, secrets, c))
        /\ sync \in Seq(Exact(new, secrets, c))
    BY <1>2, <1>5, <1>6
  <2> HIDE DEF may, none
  <2>6. QED
    BY <1>3, <2>1, <2>2, <2>3, <2>4, <2>5, ChangeAllOrNothing
<1>9. CASE plans' = plans /\ secrets' = secrets /\ unitFiles' = unitFiles
  BY <1>9 DEF planVars
<1>10. CASE /\ plans' = new /\ secrets' = secrets
            /\ unitFiles' = [u \in UnitNames |-> IF u \in names THEN c[u] ELSE unitFiles[u]]
  <2>1. OldUnits(p) = {}
    BY <1>1 DEF OldUnits
  <2>2. unitFiles' = [u \in UnitNames |-> IF u \in DOMAIN content \cup OldUnits(p)
                                          THEN Synced(content)[u] ELSE unitFiles[u]]
    BY <1>10, <2>1 DEF names, c
  <2>3. secrets' = secrets \ {p}
    <3>1. p \notin secrets
      BY <1>1 DEF UnitsMatchProfiles
    <3>2. QED
      BY <1>10, <3>1
  <2>4. UnitsMatchProfiles'
    <3> DEFINE state == "stopped"
               key == FALSE
    <3>1. state \in {"running", "stopped"} /\ key \in BOOLEAN
      OBVIOUS
    <3>2. /\ plans' = [plans EXCEPT ![p] = Profile(d, is, state, key)]
          /\ secrets' = IF key THEN secrets \cup {p} ELSE secrets \ {p}
          /\ unitFiles' = [u \in UnitNames |->
               IF u \in DOMAIN ContentOf(p, d, is, key) \cup OldUnits(p)
               THEN Synced(ContentOf(p, d, is, key))[u] ELSE unitFiles[u]]
      BY <1>10, <2>2, <2>3 DEF new, content
    <3> HIDE DEF state, key
    <3>3. QED
      BY <1>4, <3>1, <3>2, SyncedMatch
  <2>5. QED
    BY <2>4
<1>11. UnitsAfter(sync, c) = [u \in UnitNames |-> IF u \in names THEN c[u] ELSE unitFiles[u]]
  BY <1>5 DEF UnitsAfter
<1>12. QED
  BY <1>6, <1>8, <1>9, <1>10, <1>11

\* A profile that is edited has its new units, or else nothing has changed.
LEMMA UpdateMatches ==
    ASSUME PlansInv, UnitsMatchProfiles, NEW p \in PlannedProfiles, NEW d \in Drafts, NEW bound,
           UpdateProfile(p, d, bound)
    PROVE  UnitsMatchProfiles' \/ UNCHANGED planVars
<1> DEFINE is == PlannedInstances(p, d, bound)
           state == plans[p].state
           key == plans[p].key
           content == ContentOf(p, d, is, key)
           old == OldUnits(p)
           names == DOMAIN content \cup old
           new == [plans EXCEPT ![p] = Profile(d, is, state, key)]
           saves == ToRegistry(new)
           sync == SyncUnits(p, content, old)
           undo == ToRegistry(plans)
           c == Synced(content)
           Y == Exact(plans, secrets, unitFiles)
<1>1. /\ Plannable(p, d, bound) /\ Saved(p)
      /\ Change(p, saves, sync, names, undo, TRUE)
  <2>1. /\ Plannable(p, d, bound) /\ Saved(p)
        /\ Change(p, ToRegistry([plans EXCEPT ![p] = Profile(d, is, plans[p].state, plans[p].key)]),
                  SyncUnits(p, ContentOf(p, d, is, plans[p].key /\ p \in secrets),
                            NamesOf(p, plans[p].instances)),
                  DOMAIN ContentOf(p, d, is, plans[p].key /\ p \in secrets)
                    \cup NamesOf(p, plans[p].instances),
                  ToRegistry(plans), TRUE)
    BY Zenon DEF UpdateProfile
  <2>2. (plans[p].key /\ p \in secrets) = key
    <3>1. plans[p].key \in BOOLEAN
      BY <2>1, SavedType DEF PlansInv
    <3>2. plans[p].key => p \in secrets
      BY <2>1 DEF UnitsMatchProfiles
    <3>3. QED
      BY <3>1, <3>2
  <2>3. NamesOf(p, plans[p].instances) = old
    BY <2>1 DEF OldUnits
  <2> DEFINE k == plans[p].key /\ p \in secrets
             o == NamesOf(p, plans[p].instances)
  <2>4. /\ k = key /\ o = old
        /\ Change(p, saves, SyncUnits(p, ContentOf(p, d, is, k), o),
                  DOMAIN ContentOf(p, d, is, k) \cup o, undo, TRUE)
    BY <2>1, <2>2, <2>3
  <2> HIDE DEF k, o, key, old, saves, undo, is
  <2>5. Change(p, saves, sync, names, undo, TRUE)
    BY <2>4
  <2>6. QED
    BY <2>1, <2>5
<1>2. PlansTypeOK /\ state \in {"running", "stopped"} /\ key \in BOOLEAN
  BY <1>1, SavedType DEF PlansInv
<1>3. DOMAIN content \subseteq {p} \X (0..MaxReplicas)
  <2> HIDE DEF key
  <2>1. QED
    BY <1>1, <1>2, PlannedContent
<1>4. is \in Seq(InstanceRecords) /\ Len(is) \in 1..MaxReplicas
  <2>1. is \in Seq(InstanceRecords) /\ Len(is) = d.replicas
    BY <1>1, <1>2, PlannedFacts
  <2>2. QED
    BY <2>1, DraftType
<1>5. old \subseteq {p} \X (0..MaxReplicas)
  BY OldUnitsFacts
<1> HIDE DEF content, new, old, is, state, key
<1>6. sync \in Seq(Exact(new, secrets, c))
  BY <1>3, <1>5, SyncExactly
<1>7. \A kind \in {"plans", "secrets"} : ~Touches(sync, kind)
  BY <1>3, <1>5, SyncExactly
<1>8. \A u : TouchesUnit(sync, u) <=> u \in names
  BY <1>3, <1>5, SyncExactly
<1>9. /\ saves \in Seq(Exact(new, secrets, c))
      /\ Touches(saves, "plans") /\ ~Touches(saves, "secrets")
      /\ \A u : ~TouchesUnit(saves, u)
  BY SavesExactly
<1>10. undo \in Seq(Y) /\ Touches(undo, "plans")
  BY SavesExactly
<1>11. names \subseteq {p} \X (0..MaxReplicas)
  BY <1>3, <1>5
<1> HIDE DEF c, saves, sync, undo, Y, names
<1>12. \/ /\ plans' = IF Touches(saves, "plans") THEN new ELSE plans
          /\ secrets' = IF Touches(saves, "secrets") THEN secrets ELSE secrets
          /\ unitFiles' = UnitsAfter(sync, c)
       \/ plans' = plans /\ secrets' = secrets /\ unitFiles' = unitFiles
  <2> DEFINE may == TRUE
  <2>1. may => /\ undo \in Seq(Exact(plans, secrets, unitFiles))
               /\ Touches(saves, "plans") => Touches(undo, "plans")
               /\ Touches(saves, "secrets") => Touches(undo, "secrets")
    BY <1>9, <1>10 DEF Y
  <2>2. \A u : TouchesUnit(sync, u) => u \in names
    BY <1>8
  <2>3. may \in BOOLEAN /\ Change(p, saves, sync, names, undo, may)
    BY <1>1
  <2>4. \A u : ~TouchesUnit(saves, u)
    BY <1>9
  <2>5. /\ PlansTypeOK /\ saves \in Seq(Exact(new, secrets, c))
        /\ sync \in Seq(Exact(new, secrets, c))
    BY <1>2, <1>6, <1>9
  <2> HIDE DEF may
  <2>6. QED
    BY <1>7, <1>11, <2>1, <2>2, <2>3, <2>4, <2>5, ChangeAllOrNothing
<1>13. CASE plans' = plans /\ secrets' = secrets /\ unitFiles' = unitFiles
  BY <1>13 DEF planVars
<1>14. UnitsAfter(sync, c) = [u \in UnitNames |-> IF u \in names THEN c[u] ELSE unitFiles[u]]
  BY <1>8 DEF UnitsAfter
<1>15. CASE plans' = new /\ secrets' = secrets /\ unitFiles' = UnitsAfter(sync, c)
  <2>1. unitFiles' = [u \in UnitNames |-> IF u \in DOMAIN content \cup old
                                          THEN Synced(content)[u] ELSE unitFiles[u]]
    BY <1>14, <1>15 DEF names, c
  <2>2. secrets' = IF key THEN secrets \cup {p} ELSE secrets \ {p}
    <3>1. p \in secrets <=> plans[p].key
      BY <1>1 DEF UnitsMatchProfiles
    <3>2. QED
      BY <1>15, <3>1 DEF key
  <2>3. /\ plans' = [plans EXCEPT ![p] = Profile(d, is, state, key)]
        /\ unitFiles' = [u \in UnitNames |->
             IF u \in DOMAIN ContentOf(p, d, is, key) \cup OldUnits(p)
             THEN Synced(ContentOf(p, d, is, key))[u] ELSE unitFiles[u]]
    BY <1>15, <2>1 DEF new, content, old
  <2>4. QED
    BY <1>2, <1>4, <2>2, <2>3, SyncedMatch
<1>16. QED
  BY <1>9, <1>12, <1>13, <1>15

\* A profile whose key changes has its units with the new key, if no write fails.
LEMMA ChangeKeyMatches ==
    ASSUME PlansInv, UnitsMatchProfiles, KeyWritesFail = FALSE, NEW p \in PlannedProfiles,
           NEW set \in BOOLEAN, NEW bound, ChangeKey(p, set, bound)
    PROVE  UnitsMatchProfiles'
<1> DEFINE d == plans[p].draft
           is == plans[p].instances
           state == plans[p].state
           content == ContentOf(p, d, is, set)
           old == OldUnits(p)
           names == DOMAIN content \cup old
           new == [plans EXCEPT ![p].key = set]
           kept == IF set THEN secrets \cup {p} ELSE secrets \ {p}
           back == IF set THEN kept ELSE secrets
           saves == ToSecrets(kept) \o ToRegistry(new)
           sync == SyncUnits(p, content, old)
           undo == ToSecrets(back) \o ToRegistry(new)
           c == Synced(content)
<1>0. PlansTypeOK /\ Drafted
  BY DEF PlansInv
<1>1. /\ Saved(p)
      /\ Change(p, saves, sync, names, undo, FALSE)
  <2> DEFINE again == PlannedInstances(p, d, bound)
             o == NamesOf(p, is)
  <2>1. /\ Plannable(p, d, bound) /\ Saved(p)
        /\ Change(p, saves, SyncUnits(p, ContentOf(p, d, again, set), o),
                  DOMAIN ContentOf(p, d, again, set) \cup o, undo, KeyWritesFail)
    BY Zenon DEF ChangeKey
  <2>2. again = is
    BY <1>0, <2>1, PlannedAgain
  <2>3. o = old
    BY <2>1 DEF OldUnits
  <2> HIDE DEF again, o, old, saves, undo, is
  <2>4. Change(p, saves, sync, names, undo, FALSE)
    BY <2>1, <2>2, <2>3
  <2>5. QED
    BY <2>1, <2>4
<1>2. /\ d \in Drafts /\ is \in Seq(InstanceRecords) /\ state \in {"running", "stopped"}
      /\ Len(is) \in 1..MaxReplicas
  BY <1>0, <1>1, SavedType, SavedUnits
<1>3. new = [plans EXCEPT ![p] = Profile(d, is, state, set)]
  BY <1>0, <1>1, WithKeyOrState
<1> HIDE DEF d, is, state, new, kept, back
<1>4. DOMAIN content \subseteq {p} \X (0..MaxReplicas)
  BY <1>2, ContentFacts
<1>5. old \subseteq {p} \X (0..MaxReplicas)
  BY OldUnitsFacts
<1> HIDE DEF content, old
<1>6. sync \in Seq(Exact(new, kept, c))
  BY <1>4, <1>5, SyncExactly
<1>7. \A kind \in {"plans", "secrets"} : ~Touches(sync, kind)
  BY <1>4, <1>5, SyncExactly
<1>8. \A u : TouchesUnit(sync, u) <=> u \in names
  BY <1>4, <1>5, SyncExactly
<1>9. /\ saves \in Seq(Exact(new, kept, c))
      /\ Touches(saves, "plans") /\ Touches(saves, "secrets")
      /\ \A u : ~TouchesUnit(saves, u)
  BY SavesExactly
<1>10. names \subseteq {p} \X (0..MaxReplicas)
  BY <1>4, <1>5
<1> HIDE DEF c, saves, sync, undo, names
<1>11. /\ plans' = IF Touches(saves, "plans") THEN new ELSE plans
       /\ secrets' = IF Touches(saves, "secrets") THEN kept ELSE secrets
       /\ unitFiles' = UnitsAfter(sync, c)
  <2> DEFINE may == FALSE
  <2>1. may => /\ undo \in Seq(Exact(plans, secrets, unitFiles))
               /\ Touches(saves, "plans") => Touches(undo, "plans")
               /\ Touches(saves, "secrets") => Touches(undo, "secrets")
    OBVIOUS
  <2>2. \A u : TouchesUnit(sync, u) => u \in names
    BY <1>8
  <2>3. may \in BOOLEAN /\ Change(p, saves, sync, names, undo, may)
    BY <1>1
  <2>4. \A u : ~TouchesUnit(saves, u)
    BY <1>9
  <2>5. /\ saves \in Seq(Exact(new, kept, c))
        /\ sync \in Seq(Exact(new, kept, c))
    BY <1>6, <1>9
  <2> HIDE DEF may
  <2>6. \/ /\ plans' = IF Touches(saves, "plans") THEN new ELSE plans
           /\ secrets' = IF Touches(saves, "secrets") THEN kept ELSE secrets
           /\ unitFiles' = UnitsAfter(sync, c)
        \/ may /\ plans' = plans /\ secrets' = secrets /\ unitFiles' = unitFiles
    BY <1>0, <1>7, <1>10, <2>1, <2>2, <2>3, <2>4, <2>5, ChangeAllOrNothing
  <2>7. QED
    BY <2>6 DEF may
<1>12. UnitsAfter(sync, c) = [u \in UnitNames |-> IF u \in names THEN c[u] ELSE unitFiles[u]]
  BY <1>8 DEF UnitsAfter
<1>13. /\ plans' = [plans EXCEPT ![p] = Profile(d, is, state, set)]
       /\ secrets' = IF set THEN secrets \cup {p} ELSE secrets \ {p}
       /\ unitFiles' = [u \in UnitNames |->
             IF u \in DOMAIN ContentOf(p, d, is, set) \cup OldUnits(p)
             THEN Synced(ContentOf(p, d, is, set))[u] ELSE unitFiles[u]]
  <2>1. plans' = new /\ secrets' = kept /\ unitFiles' = UnitsAfter(sync, c)
    BY <1>9, <1>11
  <2>2. QED
    BY <1>3, <1>12, <2>1 DEF kept, names, c, content, old
<1>14. QED
  BY <1>2, <1>13, SyncedMatch

\* A profile that is removed has no units, or else nothing has changed.
LEMMA DeleteMatches ==
    ASSUME PlansInv, UnitsMatchProfiles, NEW p \in PlannedProfiles, NEW force,
           DeleteProfile(p, force)
    PROVE  UnitsMatchProfiles' \/ UNCHANGED planVars
<1> DEFINE names == NamesOf(p, plans[p].instances)
           new == [plans EXCEPT ![p] = NoProfile]
           left == secrets \ {p}
           c == [u \in UnitNames |-> NoUnit]
           saves == ToSecrets(left) \o ToRegistry(new)
           sync == ToUnits(p, names, c)
           undo == ToSecrets(secrets) \o ToRegistry(plans)
           Y == Exact(plans, secrets, unitFiles)
<1>1. Saved(p) /\ Change(p, saves, sync, names, undo, TRUE)
  BY Zenon DEF DeleteProfile
<1>2. PlansTypeOK
  BY DEF PlansInv
<1>3. names = OldUnits(p)
  BY <1>1 DEF OldUnits
<1>4. /\ names \subseteq {p} \X (0..MaxReplicas)
      /\ \A n \in 0..MaxReplicas : <<p, n>> \notin names => unitFiles[<<p, n>>] = NoUnit
  BY <1>3, OldUnitsFacts
<1> HIDE DEF names, new, left
<1>5. /\ sync \in Seq(Exact(new, left, c))
      /\ \A kind \in {"plans", "secrets"} : ~Touches(sync, kind)
      /\ \A u : TouchesUnit(sync, u) <=> u \in names
  <2> DEFINE A == {new}
             B == {left}
             C == [u \in UnitNames |-> {c[u]}]
  <2>1. \A u \in names : c[u] \in C[u]
    BY <1>4 DEF UnitNames
  <2>2. Exact(new, left, c) = Writes(A, B, C)
    BY DEF Exact
  <2> HIDE DEF A, B, C, c
  <2> HIDE DEF saves, undo, Y
  <2>3. /\ sync \in Seq(Writes(A, B, C))
        /\ \A kind \in {"plans", "secrets"} : ~Touches(sync, kind)
        /\ \A u : TouchesUnit(sync, u) <=> u \in names
    <3>1. sync \in Seq(Writes(A, B, C))
      BY <1>4, <2>1, UnitWrites
    <3> DEFINE kinds == {"plans", "secrets"}
    <3>2. \A kind \in kinds : ~Touches(sync, kind)
      <4>1. ~Touches(sync, "plans") /\ ~Touches(sync, "secrets")
        BY UnitWritesApart
      <4> HIDE DEF sync
      <4>2. QED
        BY <4>1
    <3>3. \A u : TouchesUnit(sync, u) <=> u \in names
      BY <1>4, <2>1, UnitWrites, ZenonT(60)
    <3>4. QED
      BY <3>1, <3>2, <3>3
  <2>4. QED
    BY <2>2, <2>3
<1> HIDE DEF c
<1>6. /\ saves \in Seq(Exact(new, left, c))
      /\ Touches(saves, "plans") /\ Touches(saves, "secrets")
      /\ \A u : ~TouchesUnit(saves, u)
  BY SavesExactly
<1>7. /\ undo \in Seq(Y)
      /\ Touches(undo, "plans") /\ Touches(undo, "secrets")
  BY SavesExactly
<1> HIDE DEF saves, sync, undo, Y
<1>8. \/ /\ plans' = IF Touches(saves, "plans") THEN new ELSE plans
         /\ secrets' = IF Touches(saves, "secrets") THEN left ELSE secrets
         /\ unitFiles' = UnitsAfter(sync, c)
      \/ plans' = plans /\ secrets' = secrets /\ unitFiles' = unitFiles
  <2> DEFINE may == TRUE
  <2>1. may => /\ undo \in Seq(Exact(plans, secrets, unitFiles))
               /\ Touches(saves, "plans") => Touches(undo, "plans")
               /\ Touches(saves, "secrets") => Touches(undo, "secrets")
    BY <1>7 DEF Y
  <2>2. \A u : TouchesUnit(sync, u) => u \in names
    BY <1>5
  <2>3. may \in BOOLEAN /\ Change(p, saves, sync, names, undo, may)
    BY <1>1
  <2>4. \A u : ~TouchesUnit(saves, u)
    BY <1>6
  <2>5. /\ saves \in Seq(Exact(new, left, c))
        /\ sync \in Seq(Exact(new, left, c))
    BY <1>5, <1>6
  <2>6. \A kind \in {"plans", "secrets"} : ~Touches(sync, kind)
    BY <1>5
  <2> HIDE DEF may
  <2>7. QED
    BY <1>2, <1>4, <2>1, <2>2, <2>3, <2>4, <2>5, <2>6, ChangeAllOrNothing
<1>9. CASE plans' = plans /\ secrets' = secrets /\ unitFiles' = unitFiles
  BY <1>9 DEF planVars
<1>10. UnitsAfter(sync, c) = [u \in UnitNames |-> IF u \in names THEN c[u] ELSE unitFiles[u]]
  BY <1>5 DEF UnitsAfter
<1>11. CASE plans' = new /\ secrets' = left /\ unitFiles' = UnitsAfter(sync, c)
  <2> DEFINE r == NoProfile
  <2>1. \A u \in UnitNames : unitFiles'[u] = IF u \in names THEN NoUnit ELSE unitFiles[u]
    BY <1>10, <1>11 DEF c
  <2>2. ASSUME NEW n \in 0..MaxReplicas PROVE unitFiles'[<<p, n>>] = UnitFor(r, p, n)
    <3>1. <<p, n>> \in UnitNames /\ UnitFor(r, p, n) = NoUnit
      BY DEF UnitNames, UnitFor
    <3>2. QED
      BY <1>4, <2>1, <3>1
  <2>3. ASSUME NEW q \in PlannedProfiles \ {p}, NEW n \in 0..MaxReplicas
        PROVE  unitFiles'[<<q, n>>] = unitFiles[<<q, n>>]
    <3>1. <<q, n>> \notin names /\ <<q, n>> \in UnitNames
      BY <1>4 DEF UnitNames
    <3>2. QED
      BY <2>1, <3>1
  <2>4. /\ plans' = [plans EXCEPT ![p] = r]
        /\ secrets' = IF r # NoProfile /\ r.key THEN secrets \cup {p} ELSE secrets \ {p}
    BY <1>11 DEF new, left
  <2> HIDE DEF r
  <2>5. QED
    BY <1>2, <2>2, <2>3, <2>4, OneProfileMatches
<1>12. QED
  BY <1>6, <1>8, <1>9, <1>11

\* The recorded state of a profile is in none of its unit files.
LEMMA RecordStateMatches ==
    ASSUME PlansInv, UnitsMatchProfiles, NEW p \in PlannedProfiles, NEW state,
           state \in {"running", "stopped"}, RecordState(p, state)
    PROVE  UnitsMatchProfiles'
<1> DEFINE old == plans[p]
           r == Profile(old.draft, old.instances, state, old.key)
<1>1. /\ Saved(p) /\ secrets' = secrets /\ unitFiles' = unitFiles
      /\ plans' = [plans EXCEPT ![p].state = state]
  BY DEF RecordState
<1>2. PlansTypeOK
  BY DEF PlansInv
<1>3. plans' = [plans EXCEPT ![p] = r]
  BY <1>1, <1>2, WithKeyOrState
<1>4. old # NoProfile /\ old \in ProfileRecords
  BY <1>1, <1>2, SavedType DEF Saved
<1>5. p \in secrets <=> old.key
  BY <1>1 DEF UnitsMatchProfiles
<1>6. \A n \in 0..MaxReplicas : unitFiles[<<p, n>>] = UnitFor(old, p, n)
  BY UnitsMatchAsFor DEF UnitsMatchFor
<1> HIDE DEF old
<1>7. r \in ProfileRecords /\ r.draft = old.draft /\ r.instances = old.instances /\ r.key = old.key
  BY <1>4 DEF ProfileRecords, Profile
<1>8. r # NoProfile
  BY <1>7, PlansAssumption
<1> HIDE DEF r
<1>9. ASSUME NEW n \in 0..MaxReplicas PROVE unitFiles'[<<p, n>>] = UnitFor(r, p, n)
  <2>1. UnitFor(r, p, n) = UnitFor(old, p, n)
    BY <1>4, <1>7, <1>8 DEF UnitFor
  <2>2. QED
    BY <1>1, <1>6, <2>1
<1>10. secrets' = IF r # NoProfile /\ r.key THEN secrets \cup {p} ELSE secrets \ {p}
  BY <1>1, <1>5, <1>7, <1>8
<1>11. \A q \in PlannedProfiles \ {p}, n \in 0..MaxReplicas :
         unitFiles'[<<q, n>>] = unitFiles[<<q, n>>]
  BY <1>1
<1>12. QED
  BY <1>2, <1>3, <1>9, <1>10, <1>11, OneProfileMatches

\* At first there are neither profiles nor units.
LEMMA UnitsMatchInit == PlansInit => UnitsMatchProfiles
<1> SUFFICES ASSUME PlansInit PROVE UnitsMatchProfiles
  OBVIOUS
<1>1. \A p \in PlannedProfiles : plans[p] = NoProfile
  BY DEF PlansInit
<1>2. \A p \in PlannedProfiles, n \in 0..MaxReplicas : unitFiles[<<p, n>>] = UnitFor(plans[p], p, n)
  BY <1>1 DEF PlansInit, UnitFor, UnitNames
<1>3. secrets = {p \in PlannedProfiles : Saved(p) /\ plans[p].key}
  BY <1>1 DEF PlansInit, Saved
<1>4. QED
  BY <1>2, <1>3, UnitsMatchAsFor DEF UnitsMatchFor

\* Nothing moves, and all matches as before.
LEMMA UnitsMatchStay == UnitsMatchProfiles /\ UNCHANGED planVars => UnitsMatchProfiles'
<1> SUFFICES ASSUME UnitsMatchProfiles, UNCHANGED planVars PROVE UnitsMatchProfiles'
  OBVIOUS
<1>1. plans' = plans /\ secrets' = secrets /\ unitFiles' = unitFiles
  BY DEF planVars
<1>2. UnitsMatchFor
  BY UnitsMatchAsFor
<1>3. UnitsMatchFor'
  BY <1>1, <1>2 DEF UnitsMatchFor, Saved
<1>4. QED
  BY <1>3, UnitsMatchAfter

\* An operation leaves the unit files of the profiles that are then recorded.
LEMMA UnitsMatchStep ==
    ASSUME KeyWritesFail = FALSE, PlansInv, UnitsMatchProfiles, PlansNext
    PROVE  UnitsMatchProfiles'
<1>1. PICK p \in PlannedProfiles :
        \/ \E d \in Drafts, bound \in Occupations : CreateProfile(p, d, bound) \/ UpdateProfile(p, d, bound)
        \/ \E force \in BOOLEAN : DeleteProfile(p, force)
        \/ \E set \in BOOLEAN, bound \in Occupations : ChangeKey(p, set, bound)
        \/ \E state \in {"running", "stopped"} : RecordState(p, state)
  BY DEF PlansNext
<1>2. ASSUME NEW d \in Drafts, NEW bound \in Occupations, CreateProfile(p, d, bound)
      PROVE  UnitsMatchProfiles'
  BY <1>2, CreateMatches, UnitsMatchStay
<1>3. ASSUME NEW d \in Drafts, NEW bound \in Occupations, UpdateProfile(p, d, bound)
      PROVE  UnitsMatchProfiles'
  BY <1>3, UpdateMatches, UnitsMatchStay
<1>4. ASSUME NEW force \in BOOLEAN, DeleteProfile(p, force) PROVE UnitsMatchProfiles'
  BY <1>4, DeleteMatches, UnitsMatchStay
<1>5. ASSUME NEW set \in BOOLEAN, NEW bound \in Occupations, ChangeKey(p, set, bound)
      PROVE  UnitsMatchProfiles'
  BY <1>5, ChangeKeyMatches
<1>6. ASSUME NEW state \in {"running", "stopped"}, RecordState(p, state)
      PROVE  UnitsMatchProfiles'
  BY <1>6, RecordStateMatches
<1>7. QED
  BY <1>1, <1>2, <1>3, <1>4, <1>5, <1>6

\* The unit files are those of the recorded profiles, whichever write has failed
\* (create_profile, update_profile, delete_profile), when those for a key succeed.
THEOREM UnitsMatchProfilesHolds ==
    ASSUME KeyWritesFail = FALSE
    PROVE  PlansSpec => []UnitsMatchProfiles
<1>1. PlansInv /\ UnitsMatchProfiles /\ [PlansNext]_planVars => UnitsMatchProfiles'
  BY UnitsMatchStep, UnitsMatchStay
<1>2. QED
  BY <1>1, UnitsMatchInit, PlansInvariant, PTL DEF PlansSpec

\* What is planned is what runs, as the run checks it (_plan_ports, _plan_gpus,
\* _sync_unit_files): the three results together, with the conditions of each.
THEOREM ProfilesSoundHolds ==
    ASSUME PortsChosenOnce, GpusChosenOnce, KeyWritesFail = FALSE
    PROVE  PlansSpec => []ProfilesSound
<1>1. UnitsMatchProfiles /\ PlannedPortsDistinct /\ InstancesApart => ProfilesSound
  BY DEF ProfilesSound
<1>2. PlansSpec => []UnitsMatchProfiles
  BY UnitsMatchProfilesHolds
<1>3. PlansSpec => []PlannedPortsDistinct
  BY PlannedPortsDistinctHolds
<1>4. PlansSpec => []InstancesApart
  BY InstancesApartHolds
<1>5. QED
  BY <1>1, <1>2, <1>3, <1>4, PTL

-----------------------------------------------------------------------------
(* Both parts.                                                             *)

\* What is checked of both parts in one run is checked of each: a step of one leaves the
\* other at rest.
THEOREM FilesAreParts == FilesSpec => Spec /\ PlansSpec
<1>1. FilesInit => Init /\ PlansInit
  BY DEF FilesInit
<1>2. [FilesNext]_<<vars, planVars, part>> => [Next]_vars /\ [PlansNext]_planVars
  <2> SUFFICES ASSUME [FilesNext]_<<vars, planVars, part>>
               PROVE  [Next]_vars /\ [PlansNext]_planVars
    OBVIOUS
  <2>1. CASE UNCHANGED <<vars, planVars, part>>
    BY <2>1
  <2>2. CASE FilesNext
    <3>1. (Next /\ UNCHANGED planVars) \/ (PlansNext /\ UNCHANGED vars)
      BY <2>2, Zenon DEF FilesNext, StorageMoves, PlansMove, Next, PlansNext
    <3>2. QED
      BY <3>1
  <2>3. QED
    BY <2>1, <2>2
<1>3. QED
  BY <1>1, <1>2, PTL DEF FilesSpec, Spec, PlansSpec

\* Whatever is stored or planned, every variable of both parts has values of its kind.
THEOREM FilesTypeCorrect == FilesSpec => []FilesTypeOK
<1>1. TypeOK /\ PlansTypeOK => FilesTypeOK
  BY DEF FilesTypeOK
<1>2. QED
  BY <1>1, FilesAreParts, TypeCorrect, PlansTypeCorrect, PTL
=============================================================================
