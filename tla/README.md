# Verification of inframatik

inframatik is a server that runs on every machine of a small cluster: it
registers services with ports, unit files and Cloudflare routes, stores model
files, and starts and stops inference engines under systemd. This directory
holds TLA+ modules of its stateful parts, the TLC instances that check them, and
theorems proved with TLAPS. Line numbers are those of the Python files in the repository
root; `PROJECT.json` maps every definition to the lines it stands for.

All HTTP handlers are coroutines of **one** event loop, so the unit of
interleaving is the stretch between two `await`s. What makes the system hard is
what happens across them: copies loaded before an await and saved after it,
calls to systemd and Cloudflare that fail half-way, worker threads that outlive
a canceled task, the process dying between two files, systemd restarting units
on its own, and, between a master and its workers, requests and answers that are
lost or late.

## Inventory

| Component | State | Operations | Hard behaviour | What makes it correct |
|---|---|---|---|---|
| Service manager (`services.py`) | `services.json`, its `.bak`, `ports.env`, unit files | register, deregister, start/stop/restart, list | copies kept across awaits; non-atomic writes with recovery; Cloudflare cleanup that fails | one port per service, one readable copy, units/routes/ports.env follow the registry |
| Tunnel, DNS, Access (`tunnel.py`) | kept by Cloudflare | add/remove route, record, app; tokens, policies, tunnels | read-modify-write of the whole route table | no route lost, none to a stranger's port |
| Inference operations (`inference_operations.py`) | `inference_operations.json`, one task per operation | start, stop, restart, cancel, prune, restart recovery | rollback, readiness, failing writes, crashes | one operation per profile, all-or-nothing start, every operation ends |
| Inference profiles (`inference_profiles.py`) | profiles, secrets, unit files | create, edit, delete, runtime state, API keys | edits under running operations; several files per change | recorded state and units agree |
| Inference planner, launchers (`inference_planner.py`, `inference_launchers.py`) | none / a table | plan ports, GPUs, units, commands | conflicts judged by recorded state | no two instances share a port or GPU |
| Cloudflare exposure (`inference_connect.py`) | the profile's `cloudflare` record, `inference_cleanup.json` | provision, remove, generate, rotate and retire tokens, retry and forget cleanups | reverse cleanup, retries, stale records | nothing is left behind unrecorded; what is shown can be reached |
| Model storage (`model_storage.py`) | `models.json`, `model_jobs.json`, staging and snapshot directories, the root | import, download, cancel, clean, commit, delete, verify, move | threads that outlive their task, two jobs with one destination, deletions during commits | what is registered is complete and came from a job that went through |
| Node registry (`nodes.py`, `node_snapshots.py`) | the master's table and snapshots, in memory | register, heartbeat, stale check, collect | restarts, reused ids, late requests and answers | a worker has one entry, a silent one goes offline, a running one comes back |
| Configuration, enrollment (`node_config.py`, `cluster_routes.py`) | `node.json` and its cache, tokens | init, enroll, reset, service and agent tokens, dashboard access | lost answers across two nodes, cache changed before it is saved | a token enrolls one worker, which both sides know; a token gives the rights reported |
| Cloudflare setup and cleanup (`cf_routes.py`, `cloudflared.py`, `cf_cleanup.py`) | the account in `node.json`, the connector | setup, tunnels of workers, uninstallation | no rollback; later requests work with what they find | what is recorded is reached, what was made is found again |
| Event stream (`ws_routes.py`) | open connections | broadcast, forward to the master | set changes under iteration, unordered posts | last state shown is the last state |
| Authentication (`auth.py`, `main.py`) | attempts, sessions, the password's hash | login, throttle, logout; admission of bearer tokens | limits of windows and pools | guessing is throttled, a lockout ends, sessions last |
| Agent interface, request proxy, routes | none of their own | dispatch, admission | | a token is admitted to what it was made for |
| Updater, system facts, CLI, front end | none of their own, or I/O | installation, rendering | | |

Interactions: the services call the tunnel functions; operations read profiles,
write their runtime state and command the units the profiles generate; a
deletion of a model asks the profiles whether one refers to it; model jobs and
operations publish to the event stream; planning reads the services' ports; the
dashboard's tunnel carries the services' routes; at start, `main.py` first closes
interrupted jobs and operations. `PROJECT.json` lists the hazards, each at its
line, with the properties that would catch it or the reason why none does.

## Modules

| Module | Models |
|---|---|
| `ServiceRegistry` | `services.py` and the part of `tunnel.py` it uses |
| `PortAllocator` | abstract: what the service manager promises about ports |
| `MCServiceRegistry` | instances of the above |
| `ServiceRegistryProofs` | theorems about `ServiceRegistry` |
| `InferenceOperations` | operations, their tasks, profiles, unit files, systemd units |
| `MCInferenceOperations` | instances |
| `InferenceOperationsProofs` | theorems about `InferenceOperations` |
| `ModelStorage` | jobs, tasks, commit threads, store files, registry, root |
| `MCModelStorage` | instances |
| `CloudflareExposure` | `inference_connect.py` and the objects its calls make at Cloudflare |
| `CloudflareExposureProofs` | theorems about `CloudflareExposure`, for all requests and faults |
| `CloudflareAccountingProofs` | theorems about `CloudflareExposure`, for one request at a time |
| `DashboardAccess` | the account's setup, the dashboard's access, the cleanup at uninstallation |
| `DashboardAccessProofs` | theorems about `DashboardAccess`, and about both parts that `MCCloudflareExposure` puts side by side |
| `MCCloudflareExposure` | instances of both, side by side |
| `NodeCluster` | a master and its workers: enrollment, heartbeats, the network between them, tunnels |
| `NodeClusterProofs` | theorems about `NodeCluster` |
| `AccessTokens` | service and agent tokens, memory against file, and what is admitted with them |
| `Logins` | throttle, sessions, first password |
| `AdministrationProofs` | theorems about `AccessTokens` and `Logins`, and about the three parts of `MCAdministration` |
| `MCNodeCluster`, `MCAdministration` | instances of `NodeCluster`; of the cluster, the tokens and the sign-ins side by side |
| `InferencePlans` | the planner, and the registries and unit files a saved profile writes |
| `MCInferenceFiles` | instances of `ModelStorage` and `InferencePlans` side by side |
| `InferenceFilesProofs` | theorems about `ModelStorage`, about `InferencePlans`, and about both together |

Parts that share no state are checked side by side: a variable `part`, chosen at
the start, says which one moves, and the others rest. An interleaving of them
would multiply the states and show nothing, since no action of one reads what
another writes. Where a part reads a fact of another (`ServicePorts`,
`ServiceHosts`), the fact is a constant of the instance.

### ServiceRegistry

`file`, `backup` and `portsEnv` are the three files `_save_registry` writes one
after the other; a JSON file is readable, damaged or absent. `units` and
`active` are the unit files and processes with their ports; `ingress`, `dns`,
`apps` are Cloudflare's objects. A request has a position `pc`, and its local
variables: the service's `name`, its `copy` of the registry, the routes it has
`seen`. `Reserve` is `register_service` up to its first await; the four
`reg_*` steps are the Cloudflare calls at its end, where an error is swallowed.
`BeginDeregister` ... `SaveDeregistered` follow `deregister_service` await by
await; `Unlink` takes the service out of the *copy*, `SaveDeregistered` saves
the copy over whatever the registry has become. `Crash*` actions die inside
`_save_registry` (`TornSave`) and inside the recovery of `_load_registry`.
`abandoned` and `reported` are history variables.

`ImplementsAllocator` is the refinement of `PortAllocator` with
`alloc <- Loaded`: what the next load finds, not what is in a file, is the
abstract state.

### InferenceOperations

`op` holds the records, `task` the coroutine behind each: where it waits, the
profile as it read it (`known`), the instances still to treat, those started.
An action is a stretch between two awaits, so `StartUnit` ends in the next
`systemctl`. `End` writes the profile, then the record, each of which may fail.
Units fail and are restarted by systemd (`UnitFails`, `AutoRestart`; external,
from the unit files the planner renders). Readiness is an open port: `Answers`
is true for the unit itself, for a unit of an earlier layout of the profile
(whose port an edit preserves), and, with `ForeignListeners`, for any process.
Time stamps are whole seconds, so pruning may keep any of the terminal records.

### ModelStorage

A job has a record (`job`), a `task` at one of its awaits and a `thread`, which
a cancel does not end. `staging` is absent, partial or holds the whole payload;
`files` gives every snapshot directory below every root its payload and
manifest, and the job they came from. `CommitCheck`, `CommitReplace`,
`CommitManifest` are the lines of `_commit_payload`, which runs in the thread
and fails at any of them; `Commit` is what the task does after it. Deletion,
verification and change of root have no await and are one action each, or break
off (`DeletionBreaks`) between the files and the registry. `torn` remembers
such artifacts. Hashes and lengths are not modelled: verification finds a
snapshot damaged iff part of it is missing.

### CloudflareExposure

`route`, `dns`, `app`, `include`, `tokens` are the five kinds of objects at
Cloudflare; `cf` and `wish` the records of the profiles, `cleanup` the file of
deletions that are still owed. A request in `req` has a position and its local
variables, among them the record it read before its awaits (`cf`) and the
objects it has made (`made`), which `Raised` turns into the reverse cleanup
`todo`. A call is answered, fails, is applied but its answer lost, or is refused
(`Faults`); `DeleteObject` is `_run_cleanup_action`, used alike by the undoing,
by removals and by retries. Deletions whose call answers `False` count as done,
as they do in the code; a cleanup record replaces one of the same key.
`Careless` lets the operator name hostnames and tokens of other profiles.

### DashboardAccess

`node` is `node.json`, `tunnelOf`, `routesOf`, `records`, `accessApps`,
`policies` the account. `BeginEnable` ... `MakeApp` follow
`config_enable_dashboard_access` call by call: the tunnel id is saved first, and
nothing is undone on failure (`BreakOff`), so that a later request has to work
with what is there. `BeginDisable`, `BeginUninstall` and their steps follow the
disabling and `cf_cleanup.py`, which collects hostnames from the services, the
dashboard and the routes of the tunnel. One request at a time; an operator who
was told that a disabling broke off repeats it before enabling another hostname.

### NodeCluster

`machine` is a machine's `node.json`, `loop` its `heartbeat_sender_loop`,
which works with what it read when the process started. `workers` is the
master's file, `nodes` and `realId` its memory, lost by `RestartMaster`. A
worker's request travels in `net`: `Handle` may answer it, answer it too late
(the loop has given up) or never. `enroll` is the exchange that takes two nodes
and three awaits: `MasterEnrolls` consumes the token before the answer is on its
way. `setup` is the master's own installation of a worker's tunnel
(`cf_routes.py`), from which the record on the worker and on the master may
diverge. The master is configured from the beginning; one entry of `workers` per
key, as `add_worker` has it; the allowlist of addresses, addresses that change,
the opt-out of Cloudflare and the role standalone are left out.

### AccessTokens

`mem` and `disk` are the tokens of the cached configuration and of `node.json`.
Every change purges what has expired, changes `mem`, then writes; when the write
fails the answer is an error and the two differ until the next write or restart.
`ledger` notes what the operator was told. `Accepts` is the admission of a
request: by route and capability for services, by scopes and profiles, tool by
tool, for agents (`mcp_routes.py`). A revocation that finds nothing is not noted
as a revocation: after a failed write it is answered "revoked", since memory has
no such token, while a restart brings it back from the file.

### Logins

Time stamps are ages, which `LoginsTick` advances, so that the instance is
finite; sessions have equal durations (the route that would set another is
unreachable: `session_duration_hours` is read, but nothing sets it). `failures`
and `sessions` are the two tables with their limits; `wrong` and `given` are what
happened, for the properties to compare with. The back-off that `auth.py:136`
doubles never doubles: a refused attempt is not counted, so the attempts counted
never exceed the limit.

### InferencePlans

`plans`, `secrets` and `unitFiles` are the three kinds of files a saved profile
is made of. Planning is a set of operators: `Preserved` instances keep their
ports and GPUs, the others get the lowest free ports or GPUs. A change writes
registry, secrets and units in the order of the code, and after a failing write
what the handler puts back. A list of writes acts on each file as its last write to
that file does (`WrittenAll`), since nothing reads a file between two of them. Between two writes of one handler the process does
not die here.

## Runs

| Run | Instance | Shows |
|---|---|---|
| `ServicesSerial` | 2 services wanting one hostname, 2 requests, Cloudflare failing, no crash, no request overlapping a deregistration | `UnitsMatchRegistry`, `RunningIsRegistered`, `RoutesLeadHome`, `PortsEnvCurrent` and the refinement `ImplementsAllocator` hold |
| `ServicesOverlap` | 2 services, every overlap of 2 requests, 2 crashes | `TypeOK`, `PortsReservedOnce`, `OneGoodCopy`, `CrashLosesOneChange` hold |
| `ServicesPortReuse` | 3 services, 2 requests | **violated** `UnitPortsDistinct`: a registration is forgotten by an overlapping deregistration and its port is given away |
| `ServicesLostRoute` | 2 services with a hostname each | **violated** `ReportedRouteExists`: one of two routes added at once is lost |
| `OperationsCareful` | 1 profile of up to 2 instances, 2 operations, strangers on the ports, profile edited or deleted only while idle | `StoppedMeansStopped`, `AllOrNothing`, `OperationsEnd` hold |
| `OperationsFaults` | 2 profiles, restart operations, 1 crash, 1 failing write, a registry of 1 record | `TypeOK`, `OneTaskPerProfile`, `NoAbandonedOperation`, `TerminalIsFinal` hold |
| `OperationsDelete` | 1 profile, no restrictions | **violated** `DeletedWereStopped`: a profile recorded as failed is deleted without force while its unit runs |
| `OperationsStaleUnit` | as above | **violated** `ReadyUnitsAreUp`: the old layout's unit answers for the new unit, which is down |
| `ModelsFaults` | 2 jobs, 2 snapshots of 1 artifact, 2 roots, 1 crash, 1 failing write; beside them 2 profiles, 5 drafts, ports 1 to 4 of which a service holds one, 3 GPUs, any write failing | `FilesTypeOK`, `RegisteredIsComplete`, `RegisteredByItsJob`, `ActiveIsRegistered`, `StagedBelowRoot`, `NoAbandonedJob`, `NeverOverwritten`, `JobsEnd` and `ProfilesSound` (`UnitsMatchProfiles`, `PlannedPortsDistinct`, `InstancesApart`) hold |
| `ModelsDelete` | 2 jobs, 1 root, artifact deleted at any time | **violated** `RegisteredIsComplete`: the job registers a snapshot whose directory was deleted under it |
| `ExposureFailures` | 2 profiles, 1 hostname, 2 policy ids, 1 token of inframatik and 1 external, one request after another, every call may fail, 1 record forgotten; beside it a dashboard with 2 hostnames, or one and a service's or another node's, in one zone or two | `ShownTypeOK`, `Accounted`, `PendingNotInUse`, `ExposureWorks`, `ExternalTokensKept` and `DashboardSound` hold |
| `ClusterNodes` | 1 machine, and in turn: 2 enrollments of it, lost and late messages, a restart of the master, the setup of tunnels; beside it 3 bearer tokens, 3 grants, failing writes, restarts, expiry; 3 clients, 2 attempts, 2 sessions | `AdministrationTypeOK`, `TokenEnrollsOnce`, `NodesAreWorkers`, `TunnelsAreReal`, `TokensAsReported`, `LoginsSound`, `WorkerComesBack`, `SilentGoesOffline`, `TunnelIsReported` hold |

The violated properties quote what the documentation promises; the findings in
`PROJECT.json` give the lines. Three constants separate what holds from what
does not: `SerialDeregister`, `Careful` and `SerialDeletes` exclude exactly the
overlaps that the violated runs allow, so the passing runs say what the code
guarantees *apart* from those, and the violated ones show the exclusion is
needed. `Requests`, `Faults` and `Careless` of `CloudflareExposure`, and
`KeyWritesFail` of `InferencePlans`, do the same without a run of their own:
with two requests in flight, with lost answers, or with a hostname of another
profile, the properties of the exposure fail in the ways the hazards list.

### Bounds, and why they are enough

* Services: `Reqs` is what can be in flight together. Every hazard here is
  between two requests; a third service is needed only to receive a port twice
  (`ServicesPortReuse`). Two ports make "lowest free" differ from "free" and
  let the range run out. The second crash hits the recovery from the first.
  Most safety properties are proved for any number of all of these.
* Operations: two instances distinguish first, last and rest of a rollback, and
  single from replica unit names. Two operation ids, used again after pruning,
  give one active and one terminal record; `MaxRecords = 1` makes pruning
  happen with the active records alone at the limit (100 in the code).
* Models: two jobs can have one destination or two snapshots of one artifact,
  which is all `_assert_artifact_snapshot_available` and `os.replace`
  distinguish. Two roots let the store move between staging and commit. Three
  jobs with one crash give the same result (two million states) without
  liveness.
* Exposure: one request in flight with every call failing makes every cleanup
  record and retry happen; two profiles contend for the one hostname; one of the
  two tokens is not inframatik's own. Two policy ids allow a second provisioning
  after the first has left one behind.
* Dashboard: its three sets of hostnames are the three ways hostnames can be
  related: two of the dashboard, one of them outside the configured zone; a
  service's in the same tunnel; another node's in the same account.
* Cluster: `Scenarios` spends the bounds where they combine: keys made, requests
  lost, restarts, enrollments with and without a tunnel, setups. A machine that
  is reset and enrolled again is the second worker the master sees; what one
  worker does is independent of the others but for the table's key.
* Tokens: three suffice for a rotation of a rotated token; a lifetime of two
  ticks lets one expire beside one that does not. Profiles: ports 1 to 4 with
  two profiles of up to two instances run out; five drafts, one per mode of
  ports and GPUs. Explicit ports of a draft are distinct, GPUs are requested for
  one instance only, and no draft puts several instances on the same GPUs.
* Logins: three clients over a table of two evict one; two attempts and two
  sessions are limit and limit reached; the windows of two ticks overlap.
* `MaxCrashes` and `MaxDiskFailures` bound faults, not anything the code counts.

Symmetry is over request, operation or profile ids, never in a run with liveness;
no `CHOOSE` ranges over the permuted sets.

### Fairness

Users and faults are never fair. `OperationsEnd` and `JobsEnd` assume weak
fairness of the steps of each operation's or job's task: the event loop runs
whatever is ready, and everything awaited ends. Readiness has a deadline and a
restart limit (`wait_instance_ready`), the probe a timeout, `systemctl` returns;
downloads have read timeouts and a size limit, copying and hashing are finite.
The weak fairness is of the disjunction of a task's steps, failures included: no
particular outcome is assumed. `JobsEnd` excepts the case that the end could not
be written to disk. The service manager has no liveness claim: `systemctl` is
awaited there, but nothing depends on the answer.

In the cluster, a loop takes its next step, a request that is waiting is handled
(the bound on losses ends the losses), time passes for a silent node and the
stale checker runs again and again: `asyncio` tasks that sleep and wake. The
claims are conditional on a machine that keeps working, or keeps silent, from
some time on (`<>[]`), so that no operator or crash is assumed to stop.

## Proofs

`ServiceRegistryProofs` proves, for all constants that satisfy
`ConstantsAssumption`:

* `TypeCorrect` (`TypeOK`). `TypeOK` alone is not inductive: the Cloudflare
  steps index `ingress` by `HostOf[name[r]]`, which is a hostname only because
  a request without one never gets there. `TypeInv == TypeOK /\ HostKnown` is.
* `OneGoodCopyHolds` (`OneGoodCopy`). `FilesInv` strengthens it: a damaged
  backup implies a readable registry, and a request that will save without
  loading again does so over a readable one. The second part is needed since
  `SaveDeregistered` copies the file to the backup without looking at it; it
  holds because every handler has loaded, and so repaired, the file before its
  first await, and a crash ends all requests. `FilesChange` lists once what any
  step does to the files.
* `PortsReservedOnceHolds` (`PortsReservedOnce`). The property is itself
  inductive: whatever is written to a file is the loaded registry with a port
  that is free in it, or a copy with a service less. `PortsInFiles` and
  `CopiesChange` treat the files and the copies.
* `CrashLosesOneChangeHolds`, an action property, from `FilesInv`.

and, from `SerialDeregister` and `MaxCrashes = 0` (`Orderly`), which is the setting
of the run `ServicesSerial`, for any number of services, ports, hostnames and
requests:

* `PortsEnvCurrentHolds`, `UnitsMatchRegistryHolds`, `RunningIsRegisteredHolds`,
  `RoutesLeadHomeHolds` from `OrderlyInv`. `RegistryInv` says that file, backup and
  `ports.env` agree, that a deregistration is alone, and hence that its copy still
  is the registry, but for the service it has taken out. That is what an
  overlapping registration would break. The three others compare with the
  registry what follows it: the unit files (`UnitsFollow`), processes
  (`ServicesFollow`) and routes (`RoutesFollow`, which includes the routes a
  request has read and is about to write back).
* `ImplementsAllocatorHolds`: the registry implements `PortAllocator`, initial states
  and step by step. Only two handlers change what the next load finds
  (`OrderlyRegistry`): `Reserve` takes the lowest free port, which is one the
  abstract allocator may give, and `SaveDeregistered` takes one back; everything
  else is a stutter.

Without the two assumptions all five are false, as `ServicesPortReuse` shows and
`ServicesOverlap` allows.

`InferenceOperationsProofs` proves every property of the runs `OperationsFaults`
and `OperationsCareful` but liveness, from `ConstantsAssumption`:

* `TypeCorrect` (`TypeOK`). The types need `TodoLeft`: a task that treats one
  instance after the other has one left, or the least of those left would not
  be an instance. That a set of numbers has a least member follows from the
  library's theorem that `<` is well-founded.
* `OneTaskPerProfileHolds`, `TerminalIsFinalHolds`, `NoAbandonedOperationHolds`
  from `RecordsInv`. It adds `Begun`, that a task after its first turn has a
  running record: what `cancel_operation` meets queued then has no task, and
  cancellation needs no other guard. `TaskSteps` shows once that a step of a
  task goes on with a running record (`GoesOn`) or ends with a terminal one,
  unless a write failed (`Ends`).
* `AllOrNothingHolds` assumes `Careful` (or the profile could be gone when the
  last instance is ready, and the operation fail with its units running) and
  that writes succeed. `RollbackOf` says that what a rollback has dealt with is
  down or reported; another task cannot start it again since two tasks have
  different profiles, and systemd only restarts a unit that failed by itself.
* `StoppedMeansStoppedHolds` also assumes that the process does not die.
  `StopInv`: what runs belongs to the current plan (`UnitsNamed`); what runs
  although recorded as stopped was started by a task that is still there
  (`StartedUnits`), so that every end of a task has to account for what it has
  started (`TaskEnds`, `EndRecords`); and what a single stop aggregates is the
  profile as it still is (`Known`), though it was read before the stop.

The runs `OperationsStaleUnit`, `OperationsDelete` show what happens without
`Careful`. `StoppedMeansStopped` with crashes is not claimed.

`InferenceFilesProofs` proves every safety property that `ModelsFaults` checks. Of
`ModelStorage`, from `ConstantsAssumption`:

* `TypeCorrect` (`TypeOK`), inductive as it stands.
* `StagedBelowRootHolds`, `NoAbandonedJobHolds` from `JobsInv`: both properties
  and `TaskActive`, that a task belongs to an active job. It is needed since
  the steps of a task record a state without asking whether the job still is
  active; cancellation ends the task, so it is. `JobsChange` lists once what any
  step does to jobs, tasks and the root.
* `ActiveIsRegisteredHolds` (`ActiveIsRegistered`), inductive with the types.
* `RegisteredIsCompleteHolds`, `RegisteredByItsJobHolds`, `NeverOverwrittenHolds`
  from `Inv == TypeOK /\ JobsInv /\ StoreInv`. `StoreInv` says of a registered
  snapshot that the job that moved it there is settled, with neither a task nor
  a thread left that could touch it again; and of a thread behind its rename
  that what it moved is still in place (`InPlace`), so that what `Commit`
  registers is complete. The step that matters is a second job for the same
  snapshot: it has found the destination free, and the check in
  `_commit_payload` must refuse it. A job that was never started must have no
  thread, or starting it would revive one.

The last three assume `SerialDeletes`: without it they are false, as
`ModelsDelete` shows. Artifacts in `torn`, whose deletion broke off half way,
are excepted by the properties themselves.

Of `InferencePlans`, from `PlansAssumption`, for any profiles, drafts, ports and GPUs:

* `PlansTypeCorrect` (`PlansTypeOK`) and `PlansInvariant`. `PlansInv` says of the
  recorded profiles that each is as its draft asks (`Drafted`: as many instances as
  replicas, on the ports and GPUs the draft names, if it names any) and that no two
  profiles, nor a profile and a service, share a port. `Drafted` is what a change of a
  key needs, which plans again but for the unit files only: planned again, the
  instances are those recorded.
  Of unit files it knows only the types: every operation records a profile that was
  `Plannable`, removes one, changes no more than its state or key, or, after a failed
  write, changes nothing (`PlansStep`).
* `ProfilePortsApartHolds` (`ProfilePortsApart`, the part of `PlannedPortsDistinct`
  between profiles), without a condition: what a plan uses is checked against what
  is taken, also where the operator chose the ports.
* `PlannedPortsDistinctHolds` (`PlannedPortsDistinct`) if `PortsChosenOnce`: no list
  of explicit ports names a port twice. Nothing in the code checks that
  (`inference_planner.py:334-349`). For the other modes the kept ports are those of the
  recorded profile, so they differ by the invariant, and `AllocatedPorts` are the lowest
  free ones, in ascending order or in a row.
* `InstancesApartHolds` (`InstancesApart`) if `GpusChosenOnce`: a draft for several
  instances asks for GPUs of their own. Kept GPUs are not checked for repetitions
  (`inference_planner.py:539`), so two instances that once shared one keep it in every
  mode; the invariant (`SeparateGpus`) therefore has to be about all modes, the property
  is about two of them.
* `UnitsMatchProfilesHolds` (`UnitsMatchProfiles`) if `KeyWritesFail = FALSE`, the
  setting of the run: a change of an engine API key copies what it would roll back to
  after the change (`inference_profiles.py:251`), and with a failing write the property
  is false. Any write of a creation, an edit or a deletion may fail.
  `ChangeAllOrNothing` is the heart: a change that writes the registries and then
  units, and restores what it has touched, ends with all of it written or none,
  wherever the writes are cut off. `RestoreUnits` names the units of both layouts,
  or a file of the new one would be left.
* `ProfilesSoundHolds` (`ProfilesSound`): the three results under their conditions, which
  the drafts of `ModelsFaults` (`SomeDrafts`) and its `KeyWritesFail` satisfy.

`FilesAreParts`, with `ShownAreParts` (`DashboardAccessProofs`) and
`AdministrationIsParts` (`AdministrationProofs`), says that a behaviour of the parts
side by side is a behaviour of each: so every theorem about a part holds of the
specification the run checks, and `FilesTypeCorrect`, `ShownTypeCorrect` and
`AdministrationTypeCorrect` follow.

`AdministrationProofs` proves, from `BearerAssumption`, for any number of tokens
and any grants:

* `TokensTypeCorrect` (`TokensTypeOK`).
* `TokensAsReportedHolds` (`TokensAsReported`). `TokensInv` follows each token
  through memory, file and ledger: a live one is in both, as it was granted, as
  long as it has time to live; a revoked one is in neither. What has been made
  but not yet reported, or only half withdrawn, is `unsure` and claims nothing.
  `ServiceRights` and `AgentRights` compare the admission, with its tables of
  tools, capabilities and implied scopes, with what a grant says, once for all
  grants.

and, from `LoginsAssumption` (limits are numbers; one attempt is allowed, and a
session lasts a while), for any clients, window and limits:

* `LoginsTypeCorrect` (`LoginsTypeOK`).
* `LoginsSoundHolds` (`LoginsSound`). `LoginsInv` says client by client (`Counted`)
  that the attempts still in the window are exactly the wrong passwords compared
  in it, that none is younger than the last one, and that a block ends before the
  window after that has passed. So a seventh attempt is never counted, and the
  block is always the base. Of the sessions (`SessionsKept`) it says that those
  not expired are those given out, and that an id is of one session: or forgetting
  an expired session could take a live one with it. Both rest on what filtering a
  list does to it (`FilteredAppend`, `FilteredTwice`, `FilteredMapped`: filtering
  before or after the clock moves makes no difference), which is proved by
  induction on the list. The principle, `SequenceInduction`, is stated for sets, not
  for predicates, and follows from the well-foundedness of `<`.

`CloudflareExposureProofs` proves, from `ExposureAssumption`, for any number of
requests in flight, any faults of the calls and any choice of hostnames and tokens
by the operator:

* `TypeCorrect` (`TypeOK`).
* `ExternalTokensKeptHolds` (`ExternalTokensKept`): `Inv` says that whatever may
  be deleted, in the copy of a record a request works on (`owned`), in what it has
  made or has to delete, and in the cleanup records, is no token of somebody else
  (`Harmless`), and what a request knows at each position (`Prepared`).

`CloudflareAccountingProofs` proves more under `Careful(r)`: one request `r` at a time,
calls that fail without effect, and an operator who gives each profile a hostname
of its own and names no token of another profile. It is the setting of
`ExposureFailures`, for any number of profiles, hostnames, policies and tokens:

* `AccountedHolds` (`Accounted`), `PendingNotInUseHolds` (`PendingNotInUse`),
  `ExposureWorksHolds` (`ExposureWorks`). None is inductive: `Sound` says what
  holds between any two calls. `RecordsWhole` and `RecordsApart` are about the
  records: whole or empty, and no two share a hostname, policy or token. `LiveWorks`
  is `ExposureWorks` also for the profile the request is about, unless it is being
  taken down, and with equality where the property only asks for one token, since
  retiring a token must leave another. `PendingApart`, `HeldApart` and
  `AllAccounted` divide the objects into those in use, owed, held by the request
  and given up; an object held is not owed, or a retry could delete what the
  request has just made. `RequestSound` says where the request is: what
  a provisioning has made when it comes to a position (`MadeAt`), that the routes it
  writes are those it has read, and that the copy of the record a token request
  works on differs from the record by its own token only. That is what a second
  request in flight would break. The text follows the requests: `ProvisionSound`,
  `RemovalSound`, `TokenSound`, with one lemma per call and answer.

`DashboardAccessProofs` proves, from the assumptions of `DashboardAccess` (that
`Nothing` is none of the hostnames, tunnels, policies, names and no configuration),
for any of these:

* `AccessTypeCorrect` (`AccessTypeOK`).
* `DashboardSoundHolds` (`DashboardSound`) from `AccessInv`. A tunnel is recorded before
  a dashboard is (`TunnelFirst`), so a request that breaks off leaves a tunnel the next
  one works with. `ConnectorServes`: while no enabling was cut off the connector
  serves the recorded tunnel, unless the first enabling has yet to install it.
  `AllFound` is the property `ObjectsFound` also between the steps of a removal, and
  `PlanSound` says that the plan an uninstallation has made still covers what is
  left, though it was made before the first deletion.

`NodeClusterProofs` proves, from `ClusterAssumption` and `NoneAssumption` (that the
sentinel is no record), for any number of machines, tokens, enrollments in
progress, lost messages and restarts:

* `TypeCorrect` (`TypeOK`), `TokenEnrollsOnceHolds`, `NodesAreWorkersHolds`,
  `TunnelsAreRealHolds`. One invariant serves all: a node id and a key are paired
  once and for good (`Pairs`), no two machines have the same (`Holders`), and what
  works with a pair, a loop that has read a former configuration (`Loops`), an
  enrollment between its awaits (`Enrolling`) or a request on its way
  (`Travelling`), knows of a tunnel only if the machine that has the key now, if
  any, has saved one (`Real`). Steps that configure no machine anew are `Quiet`
  and take nothing of this back; those that do use a new key (`ConfiguredFrame`).

Only model-checked, and why:

* `OperationsEnd`, `JobsEnd`, `WorkerComesBack`, `SilentGoesOffline`,
  `TunnelIsReported`: liveness under fairness, out of the prover's reach. Every
  invariant and action property of a passing run is proved.

Three theorems about `InferencePlans` have a condition on the drafts or on writes
that the code does not enforce. Each is stated with the condition in full, so that
it says where the promise ends; `ProfilePortsApartHolds` is what remains without one.

## Not modelled, and why

* Secrets, command rendering, address and path checks, archive unpacking, formats:
  data without protocol; nothing in the properties depends on them.
* `ports.env` is a function from services to ports; that two names may share one
  variable (`a-b`, `a_b`) is a listed hazard.
* The event stream and the cache of snapshots: posts without retry or order, a
  table that only grows. There is no promise in the code to check against; both
  are listed hazards.
* Other roles and addresses of `node_config.py`: the role standalone, the
  allowlist, `cf_opt_out`.
* Choosing hostnames, zones and policies in the setup dialogs, client bundles,
  status pages: reading only. Proxy, routes, CLI, front end: stateless dispatch
  and rendering. Updater, installer, system facts: I/O.
* `update_storage_root` changes the cached configuration before saving it; a
  failing save is modelled for tokens (`AccessTokens`), not for the root.

## Where code and expectation differ

Behaviours met while modelling that no violated run stands for, because no
documentation promises otherwise, or because the promise is too vague to quote:

* `enable dashboard access` saves the tunnel id before it installs the connector
  (`cf_routes.py`, `cluster_routes.py`) and undoes nothing on failure; the
  cleanup at uninstallation ignores the dashboard's own zone, and deletes the
  tunnel while the connector still runs.
* A service token whose revocation could not be saved is reported "revoked" by
  the repeated request and revived by a restart (`node_config.py:261-272`).
* Cleanup records of one profile and kind replace each other
  (`inference_connect.py:107`), a deletion answered with `False` counts as done
  (`:144`), a late retry acts on whatever carries the name by then (`:160`), a
  token shared by two profiles is deleted with the first (`:320`), a generation
  that fails leaves its token behind (`:360`).
* A profile that asks for one `contiguous` block of ports keeps the ports it has, and
  only those added adjoin each other (`inference_planner.py:352-357`): on port 1 it grows,
  while port 2 is taken, to 1 and 3. `docs/spec/inference.md:645` would have the plan
  refused. No run is kept for it.
* Explicit ports may repeat within a draft; `next_available_port` of the services
  does not look at the profiles' ports; a start does not check that GPUs are
  exclusive, though `docs/spec/inference.md:661` speaks of such a check;
  `restart_required` is never cleared; `set_engine_api_key` takes its rollback
  copies after the change (`inference_profiles.py:251`).
* A worker initialised again with a key in use leaves its former id behind as a
  node of its own (`nodes.py:68`); two enrollments of one machine at once both
  succeed (`cluster_routes.py:546`); an allowlist emptied entry by entry admits
  every address; snapshots of removed nodes stay in memory.
* The exponential part of the login back-off is never reached (`auth.py:136`).

## Plan

Done: the modules above. Next, in order of importance:

1. The event stream composed with the states of `InferenceOperations`: whether
   the last state shown is the last state.
2. Deletion of a model against the profiles that refer to it; operations as an
   abstract lock per profile.
3. Crashes between two writes of `InferencePlans`.
