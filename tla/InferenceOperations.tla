------------------------- MODULE InferenceOperations -------------------------
(***************************************************************************)
(* The lifecycle of inference profiles on one node: the operation records  *)
(* of inference_operations.py and the tasks that carry them out, the       *)
(* profile registry and unit files of inference_profiles.py, and the       *)
(* systemd units, which fail and restart on their own.                     *)
(*                                                                         *)
(* An operation is a record (queued, running, then a terminal state) and   *)
(* an asyncio task that awaits systemctl, the launcher probe and the model *)
(* server.  Between two awaits a task is one action.  The process may die  *)
(* at any time and writes may fail; the units outlive both.                *)
(***************************************************************************)
EXTENDS Naturals, FiniteSets

CONSTANTS
    Profiles,          \* profile ids
    Kinds,             \* kinds of operations, of start, stop and restart (bound)
    OpIds,             \* operation ids; one is used again only after pruning
    MaxReplicas,       \* instances of a profile (bound; 128 in the code)
    MaxRecords,        \* MAX_OPERATION_RECORDS
    Careful,           \* TRUE: profiles are edited or deleted only while idle
                       \* and stopped, and keep their number of instances
    ForeignListeners,  \* TRUE: other processes may listen on a profile's port
    MaxCrashes,        \* how often the process dies (bound)
    MaxDiskFailures    \* how often a registry cannot be written (bound)

ASSUME ConstantsAssumption ==
    /\ Kinds \subseteq {"start", "stop", "restart"} /\ Kinds # {} /\ Profiles # {}
    /\ MaxReplicas \in Nat \ {0} /\ MaxRecords \in Nat \ {0}
    /\ Careful \in BOOLEAN /\ ForeignListeners \in BOOLEAN
    /\ MaxCrashes \in Nat /\ MaxDiskFailures \in Nat

VARIABLES
    profile,      \* inference_profiles.json
    unitFiles,    \* the generated unit files
    unit,         \* what systemd does with each unit
    op,           \* inference_operations.json
    task,         \* the task behind each operation
    crashes, diskFailures

vars == <<profile, unitFiles, unit, op, task, crashes, diskFailures>>

Indices == 0 .. MaxReplicas - 1

ActiveStates   == {"queued", "running"}
TerminalStates == {"succeeded", "failed", "failed_interrupted", "canceled"}
ProfileStates  == {"stopped", "running", "failed", "degraded"}

(* A profile with count instances; "unset" is an instance without a state. *)
Profile == [state: ProfileStates \cup {"none"}, count: 0 .. MaxReplicas,
            inst: [Indices -> {"unset", "stopped", "running", "failed"}]]
Unset     == [i \in Indices |-> "unset"]
NoProfile == [state |-> "none", count |-> 0, inst |-> Unset]
Exists(p) == profile[p].state # "none"
Instances(pr) == 0 .. pr.count - 1

(* _unit_name: a single instance has a unit name of its own.               *)
Units         == Profiles \X {"single", "replica"} \X Indices
UnitOf(p, pr, i) == <<p, IF pr.count = 1 THEN "single" ELSE "replica", i>>
UnitsOf(p, pr)   == {UnitOf(p, pr, i) : i \in Instances(pr)}
Up(u)         == unit[u] # "down"

(* An operation on a whole profile, or on the instance with one index.     *)
(* left: the instances whose rollback stop was reported as failed.         *)
Operation == [kind: Kinds, profile: Profiles, whole: BOOLEAN, index: Indices,
              state: ActiveStates \cup TerminalStates \cup {"none"},
              left: SUBSET Indices]
NoOperation == [kind |-> CHOOSE k \in Kinds : TRUE,
                profile |-> CHOOSE p \in Profiles : TRUE,
                whole |-> TRUE, index |-> 0, state |-> "none", left |-> {}]

Selected(o, pr) ==
    IF op[o].whole THEN Instances(pr) ELSE Instances(pr) \cap {op[o].index}

(* A task: where it waits, the profile it has read, the instances it still *)
(* has to treat, those it has started and those its rollback has left.     *)
Task   == [at: {"none", "begin", "validate", "start", "ready", "rollback", "stop"},
           known: Profile, todo: SUBSET Indices,
           started: SUBSET Indices, left: SUBSET Indices]
NoTask == [at |-> "none", known |-> NoProfile, todo |-> {}, started |-> {}, left |-> {}]
Live   == {o \in OpIds : task[o].at # "none"}
Least(S) == CHOOSE i \in S : \A j \in S : i <= j

ActiveOf(p) == {o \in OpIds : op[o].profile = p /\ op[o].state \in ActiveStates}

Busy(p) == ActiveOf(p) # {}

Init ==
    /\ profile = [p \in Profiles |-> NoProfile]
    /\ unitFiles = {}
    /\ unit = [u \in Units |-> "down"]
    /\ op = [o \in OpIds |-> NoOperation]
    /\ task = [o \in OpIds |-> NoTask]
    /\ crashes = 0 /\ diskFailures = 0

faults == <<crashes, diskFailures>>

-----------------------------------------------------------------------------
(* Creating, editing and deleting profiles                                 *)

Idle(p) == ~Busy(p) /\ \A u \in UnitsOf(p, profile[p]) : ~Up(u)

(* Variant: a new profile gets a state of its own.                         *)
CreatedUnstarted(n) == [state |-> "created", count |-> n, inst |-> Unset]

Created(n) == [state |-> "stopped", count |-> n, inst |-> Unset]

CreateProfile(p, n) ==
    /\ ~Exists(p)
    /\ profile' = [profile EXCEPT ![p] = Created(n)]
    /\ unitFiles' = unitFiles \cup UnitsOf(p, Created(n))
    /\ UNCHANGED <<unit, op, task, faults>>

(* The plan's instances replace the old ones, without their states.        *)
Edited(p, n) == [profile[p] EXCEPT !.count = n, !.inst = Unset]

MayEdit(p, n) ==
    /\ Exists(p)
    /\ Careful => Idle(p) /\ n = profile[p].count

(* Unit files that the new plan does not name are deleted, nothing stops.  *)
UpdateProfile(p, n) ==
    /\ MayEdit(p, n)
    /\ profile' = [profile EXCEPT ![p] = Edited(p, n)]
    /\ unitFiles' = (unitFiles \ UnitsOf(p, profile[p])) \cup UnitsOf(p, Edited(p, n))
    /\ UNCHANGED <<unit, op, task, faults>>

(* Only the recorded state stands in the way of a deletion.                *)
MayDelete(p, force) ==
    /\ Exists(p)
    /\ profile[p].state # "running" \/ force
    /\ Careful => Idle(p)

DeleteProfile(p, force) ==
    /\ MayDelete(p, force)
    /\ profile' = [profile EXCEPT ![p] = NoProfile]
    /\ unitFiles' = unitFiles \ UnitsOf(p, profile[p])
    /\ UNCHANGED <<unit, op, task, faults>>

(* update_profile_runtime_state; it raises if the profile is gone.         *)
RuntimeState(p, state, S, instState) ==
    IF ~Exists(p) THEN profile
    ELSE [profile EXCEPT
            ![p].state = state,
            ![p].inst = [i \in Indices |->
                IF i \in S \cap Instances(profile[p]) THEN instState ELSE @[i]]]

-----------------------------------------------------------------------------
(* Operation records                                                       *)

InState(ops, S) == {o \in OpIds : ops[o].state \in S}

Room(ops) ==
    LET active == Cardinality(InState(ops, ActiveStates))
    IN IF active < MaxRecords THEN MaxRecords - active ELSE 0

(* Variant: active records are pruned like the others.                     *)
PrunedAny(ops) ==
    LET records == InState(ops, ActiveStates \cup TerminalStates)
        kept    == {K \in SUBSET records : Cardinality(K) = MaxRecords}
    IN IF Cardinality(records) <= MaxRecords THEN {ops}
       ELSE {[o \in OpIds |-> IF o \in K THEN ops[o] ELSE NoOperation] : K \in kept}

(* _prune_registry: over the limit, the active records stay and as many of *)
(* the latest terminal ones as fit; time stamps are whole seconds, so any  *)
(* of them may count as the latest.                                        *)
Pruned(ops) ==
    LET active   == InState(ops, ActiveStates)
        terminal == InState(ops, TerminalStates)
        kept     == {K \in SUBSET terminal : Cardinality(K) = Room(ops)}
    IN IF Cardinality(active \cup terminal) <= MaxRecords THEN {ops}
       ELSE {[o \in OpIds |-> IF o \in active \cup K THEN ops[o] ELSE NoOperation] :
               K \in kept}

(* _create_operation and create_task: one active operation per profile.    *)
CreateOperation(o, p, kind, whole, i) ==
    /\ op[o].state = "none" /\ task[o].at = "none"
    /\ Exists(p) /\ ~Busy(p)
    /\ IF whole THEN i = 0 ELSE i \in Instances(profile[p])
    /\ op' \in Pruned([op EXCEPT ![o] =
                  [kind |-> kind, profile |-> p, whole |-> whole, index |-> i,
                   state |-> "queued", left |-> {}]])
    /\ task' = [task EXCEPT ![o].at = "begin"]
    /\ UNCHANGED <<profile, unitFiles, unit, faults>>

(* Variant: a running operation is canceled, too.                          *)
MayCancelActive(o) == op[o].state \in ActiveStates /\ task[o].at # "begin"

(* The id of a queued operation reaches a client after the operation's     *)
(* task has had its first turn, so what a cancellation meets queued is an  *)
(* operation whose task could not record its start.                        *)
MayCancel(o) == op[o].state = "queued" /\ task[o].at # "begin"

CancelOperation(o) ==
    /\ MayCancel(o)
    /\ op' = [op EXCEPT ![o].state = "canceled"]
    /\ UNCHANGED <<profile, unitFiles, unit, task, faults>>

DiskFails ==
    /\ diskFailures < MaxDiskFailures
    /\ diskFailures' = diskFailures + 1
    /\ UNCHANGED crashes

(* A task ends: the profile is updated, then the record.  If a write fails *)
(* the operation is recorded as failed; if that fails, too, its record     *)
(* stays as it was.                                                        *)
Close(o, state, left) ==
    /\ op' = [op EXCEPT ![o].state = state, ![o].left = left]
    /\ task' = [task EXCEPT ![o] = NoTask]

End(o, state, profiles, left) ==
    \/ /\ profile' = profiles
       /\ Close(o, state, left)
       /\ UNCHANGED faults
    \/ /\ DiskFails
       /\ profile' \in {profile, profiles}
       /\ Close(o, "failed", left) \/ Close(o, "running", {})

(* Variant: the error is not caught, and the record stays as it is.        *)
FailUncaught(o) ==
    task' = [task EXCEPT ![o] = NoTask] /\ UNCHANGED <<profile, op, faults>>

Fail(o) == End(o, "failed", profile, {})

-----------------------------------------------------------------------------
(* _run_operation                                                          *)

(* What a task uses of the profile it reads: the number of instances, and  *)
(* their states for the stop of a single one.                              *)
Read(o) ==
    LET pr == profile[op[o].profile] IN
    IF op[o].kind = "stop" /\ ~op[o].whole THEN pr
    ELSE [NoProfile EXCEPT !.count = pr.count]

(* The first turn: the record becomes running, and the profile is read.    *)
BeginStart(o) ==
    /\ op' = [op EXCEPT ![o].state = "running"]
    /\ task' = [task EXCEPT ![o].at = "validate", ![o].known = Read(o)]
    /\ UNCHANGED <<profile, faults>>

BeginStop(o) ==
    /\ op' = [op EXCEPT ![o].state = "running"]
    /\ task' = [task EXCEPT ![o].at = "stop", ![o].known = Read(o),
                            ![o].todo = Selected(o, Read(o))]
    /\ UNCHANGED <<profile, faults>>

Begin(o) ==
    LET p == op[o].profile IN
    /\ task[o].at = "begin"
    /\ UNCHANGED <<unitFiles, unit>>
    /\ \/ Exists(p) /\ op[o].kind = "start" /\ BeginStart(o)
       \/ op[o].kind # "start" /\ Selected(o, profile[p]) # {} /\ BeginStop(o)
       \/ /\ IF op[o].kind = "start" THEN ~Exists(p) ELSE Selected(o, profile[p]) = {}
          /\ Fail(o)

(* The record cannot be written: the task dies, the record stays queued.   *)
BeginFails(o) ==
    /\ task[o].at = "begin"
    /\ DiskFails
    /\ task' = [task EXCEPT ![o] = NoTask]
    /\ UNCHANGED <<profile, unitFiles, unit, op>>

(* _validate_launcher_runtime has answered.                                *)
Validated(o) ==
    LET S == Selected(o, task[o].known) IN
    /\ task[o].at = "validate"
    /\ UNCHANGED <<unitFiles, unit>>
    /\ \/ /\ S # {}
          /\ task' = [task EXCEPT ![o].at = "start", ![o].todo = S]
          /\ UNCHANGED <<profile, op, faults>>
       \/ Fail(o)

(* Variant: the instances that were found ready are not stopped.           *)
ToRollBackUnready(o, started) == task[o].todo

ToRollBack(o, started) == started

(* A start fails.  An operation on a whole profile first stops what it has *)
(* started; one on an instance only records the failure.                   *)
StartFailed(o, started) ==
    IF op[o].whole /\ ToRollBack(o, started) # {}
    THEN /\ task' = [task EXCEPT ![o].at = "rollback",
                                 ![o].todo = ToRollBack(o, started),
                                 ![o].started = started]
         /\ UNCHANGED <<profile, op, faults>>
    ELSE End(o, "failed",
             RuntimeState(op[o].profile, "failed", Selected(o, task[o].known), "failed"),
             {})

Current(o) == Least(task[o].todo)
Target(o)  == UnitOf(op[o].profile, task[o].known, Current(o))

(* systemctl start succeeds on a unit that systemd knows.                  *)
StartUnit(o) ==
    /\ task[o].at = "start"
    /\ Target(o) \in unitFiles \/ Up(Target(o))
    /\ unit' = [unit EXCEPT ![Target(o)] = "up"]
    /\ LET started == task[o].started \cup {Current(o)}
           todo    == task[o].todo \ {Current(o)}
       IN task' = [task EXCEPT
                     ![o].started = started,
                     ![o].at = IF todo = {} THEN "ready" ELSE "start",
                     ![o].todo = IF todo = {} THEN started ELSE todo]
    /\ UNCHANGED <<profile, unitFiles, op, faults>>

StartUnitFails(o) ==
    /\ task[o].at = "start"
    /\ StartFailed(o, task[o].started)
    /\ UNCHANGED <<unitFiles, unit>>

(* wait_instance_ready: an instance is ready when its port answers, and    *)
(* the port answers when any process listens there: the unit, a unit of an *)
(* earlier layout of the profile, which had the same port, or a stranger.  *)
Answers(p, i) ==
    \/ ForeignListeners
    \/ \E layout \in {"single", "replica"} : unit[<<p, layout, i>>] = "up"

AwaitReady(o) ==
    LET p    == op[o].profile
        todo == task[o].todo \ {Current(o)}
    IN
    /\ task[o].at = "ready"
    /\ Answers(p, Current(o))
    /\ IF todo # {}
       THEN /\ task' = [task EXCEPT ![o].todo = todo]
            /\ UNCHANGED <<profile, op, faults>>
       ELSE End(o, IF Exists(p) THEN "succeeded" ELSE "failed",
                RuntimeState(p, "running", task[o].started, "running"), {})
    /\ UNCHANGED <<unitFiles, unit>>

(* The unit is failed or inactive, restarts too often, or the deadline has *)
(* passed.                                                                 *)
NeverReady(o) ==
    /\ task[o].at = "ready"
    /\ StartFailed(o, task[o].started)
    /\ UNCHANGED <<unitFiles, unit>>

(* systemctl stop; a failed call may have stopped the unit nevertheless.   *)
Stopping(u, ok) ==
    \/ unit' = [unit EXCEPT ![u] = "down"]
    \/ ~ok /\ UNCHANGED unit

RollbackUnit(o, ok) ==
    LET todo == task[o].todo \ {Current(o)}
        left == IF ok THEN task[o].left ELSE task[o].left \cup {Current(o)}
    IN
    /\ task[o].at = "rollback"
    /\ Stopping(Target(o), ok)
    /\ IF todo # {}
       THEN /\ task' = [task EXCEPT ![o].todo = todo, ![o].left = left]
            /\ UNCHANGED <<profile, op, faults>>
       ELSE End(o, "failed",
                RuntimeState(op[o].profile, "failed", task[o].started, "failed"), left)
    /\ UNCHANGED unitFiles

(* Variant: an instance recorded as failed counts as stopped.              *)
AggregateOfFailed(pr, i) ==
    LET states == {IF pr.inst[j] = "unset" THEN pr.state ELSE pr.inst[j] :
                     j \in Instances(pr) \ {i}}
    IN IF states \subseteq {"stopped", "failed"} THEN "stopped"
       ELSE IF "running" \in states THEN "running" ELSE "degraded"

(* _aggregate_state_after_instance_stop, of the profile as it was read     *)
(* before the unit was stopped.                                            *)
AggregateState(pr, i) ==
    LET states == {IF pr.inst[j] = "unset" THEN pr.state ELSE pr.inst[j] :
                     j \in Instances(pr) \ {i}}
    IN IF states \subseteq {"stopped"} THEN "stopped"
       ELSE IF "running" \in states THEN "running" ELSE "degraded"

(* After the last unit a stop is recorded, a restart reads the profile     *)
(* again and starts.                                                       *)
AfterStops(o) ==
    LET p == op[o].profile IN
    \/ /\ op[o].kind = "stop"
       /\ End(o, IF Exists(p) THEN "succeeded" ELSE "failed",
              RuntimeState(p,
                           IF op[o].whole THEN "stopped"
                           ELSE AggregateState(task[o].known, op[o].index),
                           Selected(o, task[o].known), "stopped"),
              {})
    \/ op[o].kind = "restart" /\ ~Exists(p) /\ Fail(o)
    \/ /\ op[o].kind = "restart" /\ Exists(p)
       /\ task' = [task EXCEPT ![o].at = "validate", ![o].known = Read(o),
                               ![o].todo = {}]
       /\ UNCHANGED <<profile, op, faults>>

(* A failed stop ends a stop operation; a restart goes on.                 *)
StopUnit(o, ok) ==
    LET todo == task[o].todo \ {Current(o)} IN
    /\ task[o].at = "stop"
    /\ Stopping(Target(o), ok)
    /\ UNCHANGED unitFiles
    /\ \/ ~ok /\ op[o].kind = "stop" /\ Fail(o)
       \/ /\ ok \/ op[o].kind = "restart"
          /\ IF todo # {}
             THEN /\ task' = [task EXCEPT ![o].todo = todo]
                  /\ UNCHANGED <<profile, op, faults>>
             ELSE AfterStops(o)

-----------------------------------------------------------------------------
(* systemd: Restart=on-failure                                             *)

UnitFails(u) ==
    /\ unit[u] = "up"
    /\ \E s \in {"down", "restarting"} : unit' = [unit EXCEPT ![u] = s]
    /\ UNCHANGED <<profile, unitFiles, op, task, faults>>

AutoRestart(u) ==
    /\ unit[u] = "restarting"
    /\ unit' = [unit EXCEPT ![u] = "up"]
    /\ UNCHANGED <<profile, unitFiles, op, task, faults>>

-----------------------------------------------------------------------------
(* The process dies and starts again.                                      *)

(* Variant: only the running operations are closed.                        *)
InterruptedIfRunning(o) ==
    IF op[o].state = "running" THEN [op[o] EXCEPT !.state = "failed_interrupted"]
    ELSE op[o]

(* mark_interrupted_operations closes the operations that were active.     *)
Interrupted(o) ==
    IF op[o].state \in ActiveStates THEN [op[o] EXCEPT !.state = "failed_interrupted"]
    ELSE op[o]

Restart ==
    /\ crashes < MaxCrashes
    /\ crashes' = crashes + 1
    /\ op' = [o \in OpIds |-> Interrupted(o)]
    /\ task' = [o \in OpIds |-> NoTask]
    /\ UNCHANGED diskFailures

(* A systemctl command that was under way may still take effect.           *)
Commanded(o) == task[o].at \in {"start", "stop", "rollback"}

Crash ==
    /\ Restart
    /\ \E S \in SUBSET {o \in Live : Commanded(o)} :
          unit' = [u \in Units |->
              IF \E o \in S : Target(o) = u /\ task[o].at # "start" THEN "down"
              ELSE IF u \in unitFiles /\ \E o \in S : Target(o) = u /\ task[o].at = "start"
              THEN "up" ELSE unit[u]]
    /\ UNCHANGED <<profile, unitFiles>>

(* It dies between the profile registry and the unit files.                *)
CrashInCreate(p, n) ==
    /\ Restart
    /\ ~Exists(p)
    /\ profile' = [profile EXCEPT ![p] = Created(n)]
    /\ UNCHANGED <<unitFiles, unit>>

CrashInUpdate(p, n) ==
    /\ Restart
    /\ MayEdit(p, n)
    /\ profile' = [profile EXCEPT ![p] = Edited(p, n)]
    /\ unitFiles' \in {unitFiles, unitFiles \cup UnitsOf(p, Edited(p, n))}
    /\ UNCHANGED unit

CrashInDelete(p, force) ==
    /\ Restart
    /\ MayDelete(p, force)
    /\ profile' = [profile EXCEPT ![p] = NoProfile]
    /\ UNCHANGED <<unitFiles, unit>>

-----------------------------------------------------------------------------
TaskStep(o) ==
    \/ Begin(o)
    \/ BeginFails(o)
    \/ Validated(o)
    \/ StartUnit(o)
    \/ StartUnitFails(o)
    \/ AwaitReady(o)
    \/ NeverReady(o)
    \/ \E ok \in BOOLEAN : RollbackUnit(o, ok)
    \/ \E ok \in BOOLEAN : StopUnit(o, ok)

Next ==
    \/ \E p \in Profiles, n \in 1 .. MaxReplicas : CreateProfile(p, n)
    \/ \E p \in Profiles, n \in 1 .. MaxReplicas : UpdateProfile(p, n)
    \/ \E p \in Profiles, force \in BOOLEAN : DeleteProfile(p, force)
    \/ \E o \in OpIds, p \in Profiles, kind \in Kinds, whole \in BOOLEAN, i \in Indices :
          CreateOperation(o, p, kind, whole, i)
    \/ \E o \in OpIds : CancelOperation(o)
    \/ \E o \in OpIds : TaskStep(o)
    \/ \E u \in Units : UnitFails(u)
    \/ \E u \in Units : AutoRestart(u)
    \/ Crash
    \/ \E p \in Profiles, n \in 1 .. MaxReplicas : CrashInCreate(p, n)
    \/ \E p \in Profiles, n \in 1 .. MaxReplicas : CrashInUpdate(p, n)
    \/ \E p \in Profiles, force \in BOOLEAN : CrashInDelete(p, force)

Spec == Init /\ [][Next]_vars

(* The event loop runs every task that can go on, and everything a task    *)
(* awaits ends: the launcher probe and wait_instance_ready have deadlines, *)
(* systemctl returns.                                                      *)
FairSpec == Spec /\ \A o \in OpIds : WF_vars(TaskStep(o))

-----------------------------------------------------------------------------
(* Properties                                                              *)

(* Every record, task and unit is one the code can produce.                *)
TypeOK ==
    /\ profile \in [Profiles -> Profile]
    /\ unitFiles \subseteq Units
    /\ unit \in [Units -> {"down", "up", "restarting"}]
    /\ op \in [OpIds -> Operation]
    /\ task \in [OpIds -> Task]
    /\ crashes \in Nat /\ diskFailures \in Nat

(* At most one task acts on a profile, and its record is active, so that   *)
(* no second operation is accepted before it ends (_create_operation,      *)
(* _prune_registry, mark_interrupted_operations).                          *)
OneTaskPerProfile ==
    /\ \A o \in Live : op[o].state \in ActiveStates
    /\ \A o1, o2 \in Live : o1 # o2 => op[o1].profile # op[o2].profile

(* A profile is never occupied by an operation that nobody carries out,    *)
(* unless a registry could not be written.                                 *)
NoAbandonedOperation ==
    diskFailures = 0 =>
        \A o \in OpIds : op[o].state \in ActiveStates => o \in Live

(* A terminal record is never changed, only pruned: no task comes back to  *)
(* an operation that was canceled, interrupted or finished.                *)
TerminalIsFinal ==
    [][\A o \in OpIds : op[o].state \in TerminalStates
         => op'[o] = op[o] \/ op'[o] = NoOperation]_vars

(* When the start of a whole profile fails, the units it had started are   *)
(* down, but for those its record reports as not stopped (_run_start).     *)
AllOrNothing ==
    [][\A o \in OpIds :
         /\ op[o].state = "running" /\ op'[o].state = "failed"
         /\ op[o].whole /\ op[o].kind # "stop"
         => \A i \in task[o].started \ op'[o].left :
               unit'[UnitOf(op[o].profile, task[o].known, i)] = "down"]_vars

(* A profile that is recorded as stopped, and that no operation is working *)
(* on, has no running unit.                                                *)
StoppedMeansStopped ==
    \A p \in Profiles : profile[p].state = "stopped" /\ ~Busy(p)
        => \A u \in UnitsOf(p, profile[p]) : ~Up(u)

(* Every operation ends, and its profile can be operated on again.         *)
OperationsEnd ==
    \A o \in OpIds : op[o].state \in ActiveStates ~> op[o].state \notin ActiveStates

(* A profile that no operation is working on, and that is not recorded as  *)
(* running, so that no force is needed, is deleted only when none of its   *)
(* units runs (delete_profile).                                            *)
DeletedWereStopped ==
    [][\A p \in Profiles :
         Exists(p) /\ ~Exists(p)' /\ ~Busy(p) /\ profile[p].state # "running"
         => \A u \in UnitsOf(p, profile[p]) : ~Up(u)]_vars

(* An instance is taken for ready only while its own unit runs.            *)
ReadyUnitsAreUp ==
    [][\A o \in OpIds : AwaitReady(o) => Up(Target(o))]_vars
=============================================================================
