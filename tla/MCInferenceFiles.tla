-------------------------- MODULE MCInferenceFiles --------------------------
(***************************************************************************)
(* What inference is set up from, in one instance for TLC: the stored      *)
(* models and the planned profiles.  Planning looks at no model files, so  *)
(* that these parts share no state: a behaviour moves one of them, chosen  *)
(* at the start, and the other rests.                                      *)
(***************************************************************************)
EXTENDS ModelStorage, InferencePlans

VARIABLE part

HeldPort == {4}
PortHeld == {{}, HeldPort}

Draft(n, portMode, ports_, gpuMode, gpus) ==
    [replicas |-> n, exposure |-> "local", portMode |-> portMode, ports |-> ports_,
     gpuMode |-> gpuMode, gpus |-> gpus, lists |-> <<>>, group |-> 1, claim |-> "exclusive"]

\* Bounds: explicit ports are distinct, GPUs are requested for one instance only, and no
\* draft puts several instances on the same GPUs.
SomeDrafts ==
    {Draft(1, "auto", <<>>, "profile", <<0>>),
     Draft(2, "contiguous", <<>>, "one_per_instance", <<>>),
     Draft(2, "auto", <<>>, "contiguous_groups", <<>>),
     Draft(1, "explicit", <<3>>, "one_per_instance", <<1>>),
     [Draft(1, "auto", <<>>, "explicit", <<>>) EXCEPT
         !.exposure = "cloudflare", !.lists = <<<<0, 1>>>>, !.claim = "shared"]}

FilesInit ==
    /\ Init /\ PlansInit
    /\ part \in {"storage", "plans"}

StorageMoves == part = "storage" /\ UNCHANGED <<planVars, part>>
PlansMove == part = "plans" /\ UNCHANGED <<vars, part>>

\* Next and PlansNext, one action on a line.
FilesNext ==
    \/ \E j \in Jobs, a \in Artifacts, s \in Snapshots : StorageMoves /\ StartJob(j, a, s)
    \/ \E j \in Jobs : StorageMoves /\ CancelJob(j)
    \/ \E j \in Jobs : StorageMoves /\ CleanJobStaging(j)
    \/ \E j \in Jobs : StorageMoves /\ TaskStep(j)
    \/ \E j \in Jobs : StorageMoves /\ LateWrite(j)
    \/ \E j \in Jobs : StorageMoves /\ ThreadEnds(j)
    \/ \E a \in Artifacts, s \in Snapshots, new \in Snapshots :
         StorageMoves /\ DeleteSnapshot(a, s, new)
    \/ \E a \in Artifacts : StorageMoves /\ DeleteArtifact(a)
    \/ \E a \in Artifacts, s \in Snapshots : StorageMoves /\ VerifyArtifact(a, s)
    \/ \E r \in Roots : StorageMoves /\ UpdateStorageRoot(r)
    \/ StorageMoves /\ Crash
    \/ \E j \in Jobs : StorageMoves /\ CrashInCommit(j)
    \/ \E a \in Artifacts, s \in Snapshots, new \in Snapshots :
         StorageMoves /\ DeleteSnapshotBreaks(a, s, new)
    \/ \E a \in Artifacts : StorageMoves /\ DeleteArtifactBreaks(a)
    \/ \E p \in PlannedProfiles, d \in Drafts, bound \in Occupations :
         PlansMove /\ CreateProfile(p, d, bound)
    \/ \E p \in PlannedProfiles, d \in Drafts, bound \in Occupations :
         PlansMove /\ UpdateProfile(p, d, bound)
    \/ \E p \in PlannedProfiles, force \in BOOLEAN : PlansMove /\ DeleteProfile(p, force)
    \/ \E p \in PlannedProfiles, set \in BOOLEAN, bound \in Occupations :
         PlansMove /\ ChangeKey(p, set, bound)
    \/ \E p \in PlannedProfiles, state \in {"running", "stopped"} :
         PlansMove /\ RecordState(p, state)

FilesSpec ==
    /\ FilesInit
    /\ [][FilesNext]_<<vars, planVars, part>>
    /\ \A j \in Jobs : WF_vars(TaskStep(j))

\* Every variable of these parts has values of its kind.
FilesTypeOK == TypeOK /\ PlansTypeOK
=============================================================================
