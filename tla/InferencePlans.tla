--------------------------- MODULE InferencePlans ---------------------------
(***************************************************************************)
(* Saving inference profiles: the plan of ports, GPUs and units            *)
(* (inference_planner.py), and the three kinds of files that have to agree *)
(* afterwards, the registries of profiles and of secrets and the unit      *)
(* files (inference_profiles.py).  Each file is replaced in one step; a    *)
(* write may fail, and what was written before is then put back.           *)
(***************************************************************************)
EXTENDS Naturals, Sequences, FiniteSets, SequencesExt

CONSTANTS
    PlannedProfiles,
    PortFrom, PortTo,  \* the range of inference ports
    ServicePorts,      \* ports in it that services hold
    GpuCount,          \* the GPUs of the machine, numbered from 0
    MaxReplicas,
    Drafts,            \* what the operator may ask of a profile, a subset of DraftRecords
    Occupations,       \* sets of ports that other processes may hold while a plan is made
    KeyWritesFail,     \* whether a write may fail in a change of an engine API key
    NoProfile, NoUnit

DraftRecords ==
    [replicas : 1..MaxReplicas, exposure : {"local", "lan", "cloudflare"},
     portMode : {"auto", "contiguous", "explicit"}, ports : Seq(Nat),
     gpuMode : {"profile", "one_per_instance", "contiguous_groups", "explicit"},
     gpus : Seq(Nat), lists : Seq(Seq(Nat)), group : Nat \ {0}, claim : {"exclusive", "shared"}]

Gpus == 0..(GpuCount - 1)
InstanceRecords == [port : Nat, gpus : Seq(Gpus)]
ProfileRecords ==
    [draft : Drafts, instances : Seq(InstanceRecords), state : {"running", "stopped"},
     key : BOOLEAN]

ASSUME PlansAssumption ==
    /\ {PortFrom, PortTo, GpuCount} \subseteq Nat
    /\ MaxReplicas \in Nat \ {0}
    /\ KeyWritesFail \in BOOLEAN
    /\ Drafts \subseteq DraftRecords
    /\ NoProfile \notin ProfileRecords

VARIABLES
    plans,      \* inference_profiles.json
    secrets,    \* the profiles with an engine API key in inference_secrets.json
    unitFiles   \* the unit files

planVars == <<plans, secrets, unitFiles>>

\* _unit_name: a profile with one instance has a name without an index.
UnitName(p, i, n) == <<p, IF n = 1 THEN 0 ELSE i>>
UnitNames == PlannedProfiles \X (0..MaxReplicas)

PlansInit ==
    /\ plans = [p \in PlannedProfiles |-> NoProfile]
    /\ secrets = {}
    /\ unitFiles = [u \in UnitNames |-> NoUnit]

Saved(p) == plans[p] # NoProfile
InstancesOf(p) == IF Saved(p) THEN plans[p].instances ELSE <<>>
PortsOf(p) == {InstancesOf(p)[i].port : i \in DOMAIN InstancesOf(p)}
GpusOf(p) == UNION {ToSet(InstancesOf(p)[i].gpus) : i \in DOMAIN InstancesOf(p)}

\* At most n elements of a sequence, the first of them at `from`.
Slice(s, from, n) == SubSeq(s, from, IF from + n - 1 < Len(s) THEN from + n - 1 ELSE Len(s))

\* The instances that go on as they are when there will be n of them.
Preserved(p, n) == Slice(InstancesOf(p), 1, n)

\* The numbers of a finite set in ascending order.
Ascending(S) ==
    [i \in 1..Cardinality(S) |-> CHOOSE x \in S : Cardinality({y \in S : y < x}) = i - 1]

-----------------------------------------------------------------------------
(* Ports.                                                                  *)

\* Variant of TakenPorts: the ports of other profiles are forgotten.
TakenByServices(p) == ServicePorts

\* _used_ports.
TakenPorts(p) == ServicePorts \cup UNION {PortsOf(q) : q \in PlannedProfiles \ {p}}

\* _allocate_ports: the lowest n that are free, or the lowest n in a row.
AllocatedPorts(n, used, contiguous) ==
    LET free == (PortFrom..PortTo) \ used
        starts == {s \in free : s..(s + n - 1) \subseteq free} IN
    IF ~contiguous THEN Slice(Ascending(free), 1, n)
    ELSE IF n = 0 \/ starts = {} THEN <<>>
    ELSE [i \in 1..n |-> Min(starts) + i - 1]

PlannedPorts(p, d, bound) ==
    LET kept == [i \in DOMAIN Preserved(p, d.replicas) |-> Preserved(p, d.replicas)[i].port]
        used == TakenPorts(p) \cup ToSet(kept) \cup bound IN
    IF d.portMode = "explicit" THEN d.ports
    ELSE kept \o AllocatedPorts(d.replicas - Len(kept), used, d.portMode = "contiguous")

\* A port that the profile has may be bound, by its own unit.
PortsFit(p, d, ports, bound) ==
    /\ Len(ports) = d.replicas
    /\ \A i \in DOMAIN ports :
         ports[i] \notin TakenPorts(p) /\ (ports[i] \in PortsOf(p) \/ ports[i] \notin bound)

-----------------------------------------------------------------------------
(* GPUs.                                                                   *)

OrElse(s, t) == IF s = <<>> THEN t ELSE s

\* Variant of Remaining: taken GPUs are offered again.
RemainingAll(taken) == Ascending(Gpus)

Remaining(taken) == Ascending(Gpus \ taken)

\* The instances' GPUs in each mode, and whether they are enough (_plan_gpus).
SameForAll(p, d) ==
    LET kept == Preserved(p, d.replicas)
        gpus == OrElse(d.gpus, IF kept = <<>> THEN <<>> ELSE kept[1].gpus) IN
    [enough |-> TRUE, gpus |-> [i \in 1..d.replicas |-> gpus]]

\* The GPUs of the instances that go on and have one each, before those not taken.
KeptSingles(p, n) ==
    LET preserved == Preserved(p, n)
        single == Ascending({i \in DOMAIN preserved : Len(preserved[i].gpus) = 1}) IN
    [k \in DOMAIN single |-> preserved[single[k]].gpus[1]]

Candidates(p, d) ==
    LET kept == KeptSingles(p, d.replicas) IN OrElse(d.gpus, kept \o Remaining(ToSet(kept)))

OnePerInstance(p, d) ==
    [enough |-> Len(Candidates(p, d)) >= d.replicas,
     gpus |-> [i \in 1..d.replicas |-> Slice(Candidates(p, d), i, 1)]]

GroupCandidates(p, d) ==
    LET kept == Preserved(p, d.replicas) IN
    OrElse(d.gpus, Remaining(UNION {ToSet(kept[i].gpus) : i \in DOMAIN kept}))

ContiguousGroups(p, d) ==
    LET kept == Preserved(p, d.replicas)
        candidates == GroupCandidates(p, d) IN
    [enough |-> Len(kept) * d.group + Len(candidates) >= d.replicas * d.group,
     gpus |-> [i \in 1..d.replicas |->
                 IF i <= Len(kept) THEN kept[i].gpus
                 ELSE Slice(candidates, (i - Len(kept) - 1) * d.group + 1, d.group)]]

ListedGpus(d) == [enough |-> Len(d.lists) = d.replicas, gpus |-> d.lists]

PlannedGpus(p, d) ==
    CASE d.gpuMode = "profile" -> SameForAll(p, d)
      [] d.gpuMode = "one_per_instance" -> OnePerInstance(p, d)
      [] d.gpuMode = "contiguous_groups" -> ContiguousGroups(p, d)
      [] d.gpuMode = "explicit" -> ListedGpus(d)

\* _check_gpu_conflicts: with the profiles that are recorded as running.
GpuConflict(p, d, wanted) ==
    \E q \in PlannedProfiles \ {p} :
        /\ Saved(q)
        /\ plans[q].state = "running"
        /\ wanted \cap GpusOf(q) # {}
        /\ d.claim = "exclusive" \/ plans[q].draft.claim = "exclusive"

GpusFit(p, d, plan) ==
    LET wanted == UNION {ToSet(plan.gpus[i]) : i \in DOMAIN plan.gpus} IN
    plan.enough /\ wanted \subseteq Gpus /\ ~GpuConflict(p, d, wanted)

-----------------------------------------------------------------------------
(* The plan as a whole.                                                    *)

\* _plan_exposure: a tunnel leads to one instance, on the machine itself.
ExposureFits(d) == d.exposure = "cloudflare" => d.replicas = 1
ListenHost(d) == IF d.exposure = "lan" THEN "0.0.0.0" ELSE "127.0.0.1"

\* The blocking problems are absent, and these are the instances.
Plannable(p, d, bound) ==
    /\ ExposureFits(d)
    /\ PortsFit(p, d, PlannedPorts(p, d, bound), bound)
    /\ GpusFit(p, d, PlannedGpus(p, d))

PlannedInstances(p, d, bound) ==
    LET ports == PlannedPorts(p, d, bound)
        gpus == PlannedGpus(p, d).gpus IN
    [i \in 1..d.replicas |-> [port |-> ports[i], gpus |-> gpus[i]]]

\* _render_command, _render_unit: what the unit of an instance is started with.
UnitOf(d, instance, key) ==
    [host |-> ListenHost(d), port |-> instance.port, gpus |-> instance.gpus, key |-> key]

NamesOf(p, instances) == {UnitName(p, i, Len(instances)) : i \in DOMAIN instances}

ContentOf(p, d, instances, key) ==
    [u \in NamesOf(p, instances) |-> UnitOf(d, instances[IF u[2] = 0 THEN 1 ELSE u[2]], key)]

-----------------------------------------------------------------------------
(* Writing: a change is a sequence of writes; those done when one fails    *)
(* are followed by the writes that undo them.                              *)

Files == [plans |-> plans, secrets |-> secrets, units |-> unitFiles]
ToRegistry(r) == <<[to |-> "plans", is |-> r]>>
ToSecrets(s) == <<[to |-> "secrets", is |-> s]>>
ToUnits(p, names, content) ==
    LET order == Ascending({n \in 0..MaxReplicas : <<p, n>> \in names}) IN
    [i \in DOMAIN order |->
        [to |-> "units", name |-> <<p, order[i]>>, is |-> content[<<p, order[i]>>]]]

\* What a file holds in the end: what the last of the writes `to` it was, or what it held.
Latest(writes, to, old) == IF to = {} THEN old ELSE writes[Max(to)].is

WrittenAll(files, writes) ==
    LET to(kind) == {i \in DOMAIN writes : writes[i].to = kind} IN
    [plans |-> Latest(writes, to("plans"), files.plans),
     secrets |-> Latest(writes, to("secrets"), files.secrets),
     units |-> [u \in UnitNames |->
                  Latest(writes, {i \in to("units") : writes[i].name = u}, files.units[u])]]

\* _sync_unit_files: the units of the plan, then those the profile no longer has.
SyncUnits(p, content, old) ==
    ToUnits(p, DOMAIN content, content)
      \o ToUnits(p, old \ DOMAIN content, [u \in UnitNames |-> NoUnit])

\* Variant of RestoreUnits: the unit files stay as they are.
RestoreNoUnits(p, names) == <<>>

\* _restore_unit_backups.
RestoreUnits(p, names) == ToUnits(p, names, unitFiles)

\* What the files may hold after the saves and then the sync of the unit files `names`:
\* all of the writes are done, or n of them and then what undoes them.
Outcomes(p, saves, sync, names, undo, mayFail) ==
    LET writes == saves \o sync
        Outcome(n) ==
            LET done == WrittenAll(Files, SubSeq(writes, 1, n))
                back == IF n < Len(saves) THEN undo ELSE RestoreUnits(p, names) \o undo IN
            IF n = Len(writes) THEN done ELSE WrittenAll(done, back) IN
    {Outcome(n) : n \in IF mayFail THEN 0..Len(writes) ELSE {Len(writes)}}

Change(p, saves, sync, names, undo, mayFail) ==
    \E files \in Outcomes(p, saves, sync, names, undo, mayFail) :
        plans' = files.plans /\ secrets' = files.secrets /\ unitFiles' = files.units

-----------------------------------------------------------------------------
(* The operations.                                                         *)

Profile(d, instances, state, key) ==
    [draft |-> d, instances |-> instances, state |-> state, key |-> key]

CreateProfile(p, d, bound) ==
    LET instances == PlannedInstances(p, d, bound)
        content == ContentOf(p, d, instances, FALSE) IN
    /\ ~Saved(p)
    /\ Plannable(p, d, bound)
    /\ Change(p, ToRegistry([plans EXCEPT ![p] = Profile(d, instances, "stopped", FALSE)]),
              SyncUnits(p, content, {}), DOMAIN content,
              ToRegistry(plans) \o ToUnits(p, DOMAIN content, [u \in UnitNames |-> NoUnit]), TRUE)

\* The key is the one the profile refers to, if the secrets still have it.
UpdateProfile(p, d, bound) ==
    LET old == plans[p]
        instances == PlannedInstances(p, d, bound)
        content == ContentOf(p, d, instances, old.key /\ p \in secrets) IN
    /\ Saved(p)
    /\ Plannable(p, d, bound)
    /\ Change(p, ToRegistry([plans EXCEPT ![p] = Profile(d, instances, old.state, old.key)]),
              SyncUnits(p, content, NamesOf(p, old.instances)),
              DOMAIN content \cup NamesOf(p, old.instances),
              ToRegistry(plans), TRUE)

\* delete_profile takes the units' contents before it removes them.
DeleteProfile(p, force) ==
    LET names == NamesOf(p, plans[p].instances) IN
    /\ Saved(p)
    /\ plans[p].state = "running" => force
    /\ Change(p, ToSecrets(secrets \ {p}) \o ToRegistry([plans EXCEPT ![p] = NoProfile]),
              ToUnits(p, names, [u \in UnitNames |-> NoUnit]), names,
              ToSecrets(secrets) \o ToRegistry(plans), TRUE)

\* set_engine_api_key, disable_engine_api_key.  The profile is planned again, for its
\* unit files only: its instances stay as recorded.  What is written back after a failure
\* is a copy made after the change, of the profiles in one case and of both in the other.
ChangeKey(p, set, bound) ==
    LET d == plans[p].draft
        changed == [plans EXCEPT ![p].key = set]
        kept == IF set THEN secrets \cup {p} ELSE secrets \ {p} IN
    /\ Saved(p)
    /\ Plannable(p, d, bound)
    /\ LET content == ContentOf(p, d, PlannedInstances(p, d, bound), set) IN
       Change(p, ToSecrets(kept) \o ToRegistry(changed),
              SyncUnits(p, content, NamesOf(p, plans[p].instances)),
              DOMAIN content \cup NamesOf(p, plans[p].instances),
              ToSecrets(IF set THEN kept ELSE secrets) \o ToRegistry(changed), KeyWritesFail)

\* update_profile_runtime_state, as operations start and stop the units.
RecordState(p, state) ==
    /\ Saved(p)
    /\ plans' = [plans EXCEPT ![p].state = state]
    /\ UNCHANGED <<secrets, unitFiles>>

PlansNext ==
    \E p \in PlannedProfiles :
        \/ \E d \in Drafts, bound \in Occupations : CreateProfile(p, d, bound) \/ UpdateProfile(p, d, bound)
        \/ \E force \in BOOLEAN : DeleteProfile(p, force)
        \/ \E set \in BOOLEAN, bound \in Occupations : ChangeKey(p, set, bound)
        \/ \E state \in {"running", "stopped"} : RecordState(p, state)

PlansSpec == PlansInit /\ [][PlansNext]_planVars

-----------------------------------------------------------------------------
(* Properties.                                                             *)

UnitRecords ==
    [host : {"0.0.0.0", "127.0.0.1"}, port : Nat, gpus : Seq(Gpus), key : BOOLEAN]

PlansTypeOK ==
    /\ plans \in [PlannedProfiles -> ProfileRecords \cup {NoProfile}]
    /\ secrets \subseteq PlannedProfiles
    /\ unitFiles \in [UnitNames -> UnitRecords \cup {NoUnit}]

\* The unit files are those of the saved profiles, with the ports, GPUs and key the
\* registries say, whatever was edited and whichever write has failed on the way: a
\* failed change leaves no unit of the new layout, and a changed key moves no instance.
UnitsMatchProfiles ==
    /\ secrets = {p \in PlannedProfiles : Saved(p) /\ plans[p].key}
    /\ \A p \in PlannedProfiles, n \in 0..MaxReplicas :
         LET names == IF Saved(p) THEN NamesOf(p, plans[p].instances) ELSE {} IN
         unitFiles[<<p, n>>] =
           IF <<p, n>> \notin names THEN NoUnit
           ELSE UnitOf(plans[p].draft,
                       plans[p].instances[IF n = 0 THEN 1 ELSE n], plans[p].key)

\* No port is given twice, to two profiles or to a profile and a service, in whatever
\* order profiles grow, shrink, stop and change from automatic to chosen ports.
PlannedPortsDistinct ==
    \A p, q \in PlannedProfiles :
        /\ PortsOf(p) \cap ServicePorts = {}
        /\ p # q => PortsOf(p) \cap PortsOf(q) = {}
        /\ Cardinality(PortsOf(p)) = Len(InstancesOf(p))

\* Instances that are placed on GPUs of their own have them for themselves, also those
\* added to a profile that already has some.
InstancesApart ==
    \A p \in PlannedProfiles : Saved(p) =>
        LET is == plans[p].instances IN
        plans[p].draft.gpuMode \in {"one_per_instance", "contiguous_groups"} =>
            \A i, j \in DOMAIN is : i # j => ToSet(is[i].gpus) \cap ToSet(is[j].gpus) = {}

\* What is planned is what runs: the units, ports and GPUs of the profiles are sound.
ProfilesSound == UnitsMatchProfiles /\ PlannedPortsDistinct /\ InstancesApart
=============================================================================
