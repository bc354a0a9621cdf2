----------------------- MODULE InferenceOperationsProofs -----------------------
(* Theorems about InferenceOperations, for any number of profiles,          *)
(* instances, operations, records, crashes and failing writes.              *)
EXTENDS InferenceOperations, WellFoundedInduction, TLAPS

(* A set of numbers has a least one.                                        *)
LEMMA LeastMember ==
    ASSUME NEW S \in SUBSET Nat, S # {} PROVE Least(S) \in S
<1>1. IsWellFoundedOn({ss \in Nat \X Nat : ss[1] < ss[2]}, Nat)
    BY NatLessThanWellFounded, Zenon DEF OpToRel
<1>2. PICK i \in S : \A j \in S : <<j, i>> \notin {ss \in Nat \X Nat : ss[1] < ss[2]}
    BY <1>1, WFMin
<1>3. ASSUME NEW j \in S PROVE i <= j
  <2>1. i \in Nat /\ j \in Nat
      OBVIOUS
  <2>2. <<j, i>> \notin {ss \in Nat \X Nat : ss[1] < ss[2]}
      BY <1>2
  <2>3. ~(j < i)
      BY <2>1, <2>2
  <2>4. QED
      BY <2>1, <2>3
<1>4. QED
    BY <1>3 DEF Least

(* The values before the first step are of their types.                     *)
LEMMA Defaults ==
    /\ 0 \in Indices
    /\ Unset \in [Indices -> {"unset", "stopped", "running", "failed"}]
    /\ NoProfile \in Profile /\ NoOperation \in Operation /\ NoTask \in Task
<1>1. 0 \in Indices
    BY ConstantsAssumption DEF Indices
<1>2. Unset \in [Indices -> {"unset", "stopped", "running", "failed"}]
    BY DEF Unset
<1>3. NoProfile \in Profile
    BY <1>2, ConstantsAssumption DEF NoProfile, Profile
<1>4. /\ (CHOOSE k \in Kinds : TRUE) \in Kinds
      /\ (CHOOSE p \in Profiles : TRUE) \in Profiles
    BY ConstantsAssumption
<1>5. NoOperation \in Operation
    BY <1>1, <1>4 DEF NoOperation, Operation
<1>6. NoTask \in Task
    BY <1>3 DEF NoTask, Task
<1>7. QED
    BY <1>1, <1>2, <1>3, <1>5, <1>6

(* TypeOK is not inductive by itself: a task that treats one instance after *)
(* the other has one left to treat.                                         *)
TodoLeft ==
    \A o \in OpIds : task[o].at \in {"start", "ready", "rollback", "stop"}
        => task[o].todo # {}

TypeInv == TypeOK /\ TodoLeft

(* The instances of a profile have indices.                                 *)
LEMMA InstanceTypes ==
    ASSUME NEW pr \in Profile PROVE Instances(pr) \subseteq Indices
    BY ConstantsAssumption DEF Instances, Indices, Profile

(* ... and so have those that an operation is about.                        *)
LEMMA SelectedTypes ==
    ASSUME NEW o \in OpIds, NEW pr \in Profile PROVE Selected(o, pr) \subseteq Indices
    BY InstanceTypes DEF Selected

(* What a task reads is a profile.                                          *)
LEMMA ReadType ==
    ASSUME TypeOK, NEW o \in OpIds PROVE Read(o) \in Profile
<1> DEFINE pr == profile[op[o].profile]
<1>1. pr \in Profile
    BY DEF TypeOK, Operation
<1>2. [NoProfile EXCEPT !.count = pr.count] \in Profile
    BY <1>1, Defaults DEF Profile
<1>3. QED
    BY <1>1, <1>2 DEF Read

(* The instance a task is about is one of those left to treat.              *)
LEMMA CurrentTypes ==
    ASSUME TypeInv, NEW o \in OpIds,
           task[o].at \in {"start", "ready", "rollback", "stop"}
    PROVE  /\ Current(o) \in task[o].todo /\ Current(o) \in Indices
           /\ Target(o) \in Units
<1>1. task[o].todo \in SUBSET Indices /\ task[o].todo # {}
    BY DEF TypeInv, TypeOK, TodoLeft, Task
<1>2. task[o].todo \in SUBSET Nat
    BY <1>1 DEF Indices
<1>3. Current(o) \in task[o].todo
    BY <1>1, <1>2, LeastMember DEF Current
<1>4. op[o].profile \in Profiles
    BY DEF TypeInv, TypeOK, Operation
<1>5. QED
    BY <1>1, <1>3, <1>4 DEF Target, UnitOf, Units

(* The profiles with a new runtime state are profiles.                      *)
LEMMA RuntimeStateType ==
    ASSUME TypeOK, NEW p \in Profiles, NEW state \in ProfileStates, NEW S,
           NEW instState \in {"stopped", "running", "failed"}
    PROVE  RuntimeState(p, state, S, instState) \in [Profiles -> Profile]
<1> DEFINE inst == [i \in Indices |->
               IF i \in S \cap Instances(profile[p]) THEN instState
               ELSE profile[p].inst[i]]
<1>1. profile[p] \in Profile
    BY DEF TypeOK
<1>2. inst \in [Indices -> {"unset", "stopped", "running", "failed"}]
    BY <1>1 DEF Profile
<1>3. [profile[p] EXCEPT !.state = state, !.inst = inst] \in Profile
    BY <1>1, <1>2 DEF Profile
<1>4. CASE Exists(p)
    BY <1>3, <1>4 DEF RuntimeState, TypeOK
<1>5. CASE ~Exists(p)
    BY <1>5 DEF RuntimeState, TypeOK
<1>6. QED
    BY <1>4, <1>5

(* The state of the rest of a profile is one a profile can have.            *)
LEMMA AggregateType ==
    ASSUME NEW pr, NEW i PROVE AggregateState(pr, i) \in ProfileStates
    BY DEF AggregateState, ProfileStates

-----------------------------------------------------------------------------
(* What a step of a task does to its record and to itself: it goes on, with *)
(* a running record, or it ends, with a terminal record unless a write has  *)
(* failed.                                                                  *)
GoesOn(o) ==
    /\ task[o].at # "none"
    /\ \/ task[o].at # "begin" /\ op' = op
       \/ op' = [op EXCEPT ![o].state = "running"]
    /\ \E t \in Task :
          /\ t.at \notin {"none", "begin"}
          /\ t.at \in {"start", "ready", "rollback", "stop"} => t.todo # {}
          /\ task' = [task EXCEPT ![o] = t]
    /\ UNCHANGED <<profile, faults>>

Unrecorded(o) ==
    /\ DiskFails
    /\ op' \in {op, [op EXCEPT ![o].state = "running", ![o].left = {}]}

Ends(o) ==
    /\ task[o].at # "none"
    /\ task' = [task EXCEPT ![o] = NoTask]
    /\ profile' \in [Profiles -> Profile]
    /\ \/ \E state \in TerminalStates, left \in SUBSET Indices :
             /\ op' = [op EXCEPT ![o].state = state, ![o].left = left]
             /\ UNCHANGED faults \/ DiskFails
       \/ Unrecorded(o)

(* The end of a task.                                                       *)
LEMMA EndEnds ==
    ASSUME TypeOK, NEW o \in OpIds, task[o].at # "none",
           NEW state \in TerminalStates, NEW profiles \in [Profiles -> Profile],
           NEW left \in SUBSET Indices, End(o, state, profiles, left)
    PROVE  Ends(o)
    BY DEF End, Close, Ends, Unrecorded, TerminalStates, TypeOK

(* An exception ends a task.                                                *)
LEMMA FailEnds ==
    ASSUME TypeOK, NEW o \in OpIds, task[o].at # "none", Fail(o) PROVE Ends(o)
    BY EndEnds DEF Fail, TerminalStates, TypeOK

(* A failing start goes on with the rollback, or ends.                      *)
LEMMA StartFailedSteps ==
    ASSUME TypeOK, NEW o \in OpIds, task[o].at \in {"start", "ready"},
           NEW started \in SUBSET Indices, StartFailed(o, started)
    PROVE  GoesOn(o) \/ Ends(o)
<1>1. CASE op[o].whole /\ ToRollBack(o, started) # {}
  <2> DEFINE t == [task[o] EXCEPT !.at = "rollback", !.todo = started, !.started = started]
  <2>1. t \in Task /\ t.at = "rollback" /\ t.todo = started
      BY DEF TypeOK, Task
  <2>2. task' = [task EXCEPT ![o] = t] /\ UNCHANGED <<profile, op, faults>>
      BY <1>1 DEF StartFailed, ToRollBack, TypeOK, Task
  <2>3. QED
      BY <1>1, <2>1, <2>2 DEF GoesOn, ToRollBack
<1>2. CASE ~(op[o].whole /\ ToRollBack(o, started) # {})
  <2>1. op[o].profile \in Profiles
      BY DEF TypeOK, Operation
  <2>2. RuntimeState(op[o].profile, "failed", Selected(o, task[o].known), "failed")
           \in [Profiles -> Profile]
      BY <2>1, RuntimeStateType DEF ProfileStates
  <2>3. QED
      BY <1>2, <2>2, EndEnds DEF StartFailed, TerminalStates
<1>3. QED
    BY <1>1, <1>2

(* Any other step that goes on gives the task a new state.                  *)
LEMMA TaskGoes ==
    ASSUME TypeOK, NEW o \in OpIds, task[o].at \notin {"none", "begin"}, NEW t \in Task,
           t.at \notin {"none", "begin"},
           t.at \in {"start", "ready", "rollback", "stop"} => t.todo # {},
           task' = [task EXCEPT ![o] = t], UNCHANGED <<profile, op, faults>>
    PROVE  GoesOn(o)
    BY DEF GoesOn

(* The first turn of a task.                                                *)
LEMMA BeginSteps ==
    ASSUME TypeOK, NEW o \in OpIds, Begin(o) PROVE GoesOn(o) \/ Ends(o)
<1>1. task[o].at # "none" /\ op[o].profile \in Profiles
    BY DEF Begin, TypeOK, Operation
<1>2. CASE BeginStart(o)
  <2> DEFINE t == [task[o] EXCEPT !.at = "validate", !.known = Read(o)]
  <2>1. t \in Task /\ t.at = "validate"
      BY ReadType DEF TypeOK, Task
  <2>2. task' = [task EXCEPT ![o] = t]
      BY <1>2, <2>1 DEF BeginStart, TypeOK, Task
  <2>3. QED
      BY <1>1, <1>2, <2>1, <2>2 DEF BeginStart, GoesOn
<1>3. CASE Selected(o, profile[op[o].profile]) # {} /\ BeginStop(o)
  <2> DEFINE t == [task[o] EXCEPT !.at = "stop", !.known = Read(o),
                                  !.todo = Selected(o, Read(o))]
  <2>1. Read(o).count = profile[op[o].profile].count
      BY <1>1, Defaults DEF Read, NoProfile
  <2>2. Selected(o, Read(o)) # {}
      BY <1>3, <2>1 DEF Selected, Instances
  <2>3. t \in Task /\ t.at = "stop" /\ t.todo # {}
      BY <2>2, ReadType, SelectedTypes DEF TypeOK, Task
  <2>4. task' = [task EXCEPT ![o] = t]
      BY <1>3, <2>3 DEF BeginStop, TypeOK, Task
  <2>5. QED
      BY <1>1, <1>3, <2>3, <2>4 DEF BeginStop, GoesOn
<1>4. CASE Fail(o)
    BY <1>1, <1>4, FailEnds
<1>5. QED
    BY <1>2, <1>3, <1>4 DEF Begin

(* The launcher's runtime is validated.                                     *)
LEMMA ValidatedSteps ==
    ASSUME TypeOK, NEW o \in OpIds, Validated(o) PROVE GoesOn(o) \/ Ends(o)
<1> DEFINE S == Selected(o, task[o].known)
           t == [task[o] EXCEPT !.at = "start", !.todo = S]
<1>1. task[o].known \in Profile
    BY DEF TypeOK, Task
<1>2. S \subseteq Indices
    BY <1>1, SelectedTypes
<1>3. CASE S # {} /\ task' = [task EXCEPT ![o].at = "start", ![o].todo = S]
           /\ UNCHANGED <<profile, op, faults>>
  <2>1. t \in Task /\ t.at = "start" /\ t.todo = S
      BY <1>2 DEF TypeOK, Task
  <2>2. task' = [task EXCEPT ![o] = t]
      BY <1>3, <2>1 DEF TypeOK, Task
  <2>3. QED
      BY <1>3, <2>1, <2>2, TaskGoes DEF Validated
<1>4. CASE Fail(o)
    BY <1>4, FailEnds DEF Validated
<1>5. QED
    BY <1>3, <1>4 DEF Validated

(* A unit is started.                                                       *)
LEMMA StartUnitSteps ==
    ASSUME TypeInv, NEW o \in OpIds, StartUnit(o) PROVE GoesOn(o)
<1> DEFINE started == task[o].started \cup {Current(o)}
           todo    == task[o].todo \ {Current(o)}
           t == [task[o] EXCEPT !.started = started,
                    !.at = IF todo = {} THEN "ready" ELSE "start",
                    !.todo = IF todo = {} THEN started ELSE todo]
<1>1. Current(o) \in Indices
    BY CurrentTypes DEF StartUnit
<1>2. t \in Task /\ t.at \in {"start", "ready"} /\ t.todo # {}
    BY <1>1 DEF TypeInv, TypeOK, Task
<1>3. task' = [task EXCEPT ![o] = t]
    BY <1>2 DEF StartUnit, TypeInv, TypeOK, Task
<1>4. QED
    BY <1>2, <1>3, TaskGoes DEF StartUnit, TypeInv

(* An instance answers.                                                     *)
LEMMA AwaitReadySteps ==
    ASSUME TypeOK, NEW o \in OpIds, AwaitReady(o) PROVE GoesOn(o) \/ Ends(o)
<1> DEFINE p == op[o].profile  todo == task[o].todo \ {Current(o)}
           t == [task[o] EXCEPT !.todo = todo]
<1>1. CASE todo # {}
  <2>1. t \in Task /\ t.at = "ready" /\ t.todo = todo
      BY DEF AwaitReady, TypeOK, Task
  <2>2. task' = [task EXCEPT ![o] = t] /\ UNCHANGED <<profile, op, faults>>
      BY <1>1, <2>1 DEF AwaitReady, TypeOK, Task
  <2>3. QED
      BY <1>1, <2>1, <2>2, TaskGoes DEF AwaitReady
<1>2. CASE todo = {}
  <2>1. p \in Profiles
      BY DEF TypeOK, Operation
  <2>2. RuntimeState(p, "running", task[o].started, "running") \in [Profiles -> Profile]
      BY <2>1, RuntimeStateType DEF ProfileStates
  <2>3. QED
      BY <1>2, <2>2, EndEnds DEF AwaitReady, TerminalStates
<1>3. QED
    BY <1>1, <1>2

(* A rollback stops a unit.                                                 *)
LEMMA RollbackUnitSteps ==
    ASSUME TypeInv, NEW o \in OpIds, NEW ok \in BOOLEAN, RollbackUnit(o, ok)
    PROVE  GoesOn(o) \/ Ends(o)
<1> DEFINE todo == task[o].todo \ {Current(o)}
           left == IF ok THEN task[o].left ELSE task[o].left \cup {Current(o)}
           t    == [task[o] EXCEPT !.todo = todo, !.left = left]
<1>1. task[o].at = "rollback" /\ left \in SUBSET Indices
    BY CurrentTypes DEF RollbackUnit, TypeInv, TypeOK, Task
<1>2. CASE todo # {}
  <2>1. t \in Task /\ t.at = "rollback" /\ t.todo = todo
      BY <1>1 DEF TypeInv, TypeOK, Task
  <2>2. task' = [task EXCEPT ![o] = t] /\ UNCHANGED <<profile, op, faults>>
      BY <1>2, <2>1 DEF RollbackUnit, TypeInv, TypeOK, Task
  <2>3. QED
      BY <1>1, <1>2, <2>1, <2>2, TaskGoes DEF TypeInv
<1>3. CASE todo = {}
  <2>1. op[o].profile \in Profiles
      BY DEF TypeInv, TypeOK, Operation
  <2>2. RuntimeState(op[o].profile, "failed", task[o].started, "failed")
           \in [Profiles -> Profile]
      BY <2>1, RuntimeStateType DEF ProfileStates, TypeInv
  <2>3. End(o, "failed", RuntimeState(op[o].profile, "failed", task[o].started, "failed"), left)
      BY <1>3 DEF RollbackUnit
  <2>4. QED
      BY <1>1, <2>2, <2>3, EndEnds DEF TerminalStates, TypeInv
<1>4. QED
    BY <1>2, <1>3

(* A stop or restart stops a unit.                                          *)
LEMMA StopUnitSteps ==
    ASSUME TypeOK, NEW o \in OpIds, NEW ok \in BOOLEAN, StopUnit(o, ok)
    PROVE  GoesOn(o) \/ Ends(o)
<1> DEFINE p == op[o].profile  todo == task[o].todo \ {Current(o)}
<1>1. task[o].at = "stop" /\ p \in Profiles
    BY DEF StopUnit, TypeOK, Operation
<1>2. CASE Fail(o)
    BY <1>1, <1>2, FailEnds
<1>3. CASE todo # {} /\ task' = [task EXCEPT ![o].todo = todo]
           /\ UNCHANGED <<profile, op, faults>>
  <2> DEFINE t == [task[o] EXCEPT !.todo = todo]
  <2>1. t \in Task /\ t.at = "stop" /\ t.todo = todo
      BY <1>1 DEF TypeOK, Task
  <2>2. task' = [task EXCEPT ![o] = t]
      BY <1>3, <2>1 DEF TypeOK, Task
  <2>3. QED
      BY <1>1, <1>3, <2>1, <2>2, TaskGoes
<1>4. CASE AfterStops(o)
  <2>1. CASE op[o].kind = "stop"
    <3> DEFINE state == IF op[o].whole THEN "stopped"
                        ELSE AggregateState(task[o].known, op[o].index)
    <3>1. state \in ProfileStates
        BY AggregateType DEF ProfileStates
    <3>2. RuntimeState(p, state, Selected(o, task[o].known), "stopped")
             \in [Profiles -> Profile]
        BY <1>1, <3>1, RuntimeStateType
    <3>3. QED
        BY <1>1, <1>4, <2>1, <3>2, EndEnds DEF AfterStops, TerminalStates
  <2>2. CASE op[o].kind = "restart" /\ ~Exists(p)
      BY <1>1, <1>4, <2>2, FailEnds DEF AfterStops
  <2>3. CASE op[o].kind = "restart" /\ Exists(p)
    <3> DEFINE t == [task[o] EXCEPT !.at = "validate", !.known = Read(o), !.todo = {}]
    <3>1. t \in Task /\ t.at = "validate"
        BY ReadType DEF TypeOK, Task
    <3>2. task' = [task EXCEPT ![o] = t] /\ UNCHANGED <<profile, op, faults>>
        BY <1>4, <2>3, <3>1 DEF AfterStops, TypeOK, Task
    <3>3. QED
        BY <1>1, <3>1, <3>2, TaskGoes
  <2>4. QED
      BY <1>4, <2>1, <2>2, <2>3 DEF AfterStops
<1>5. QED
    BY <1>2, <1>3, <1>4 DEF StopUnit

(* Every step of a task is of one of the two kinds.                         *)
LEMMA TaskSteps ==
    ASSUME TypeInv, NEW o \in OpIds, TaskStep(o) PROVE GoesOn(o) \/ Ends(o)
<1>1. CASE Begin(o)
    BY <1>1, BeginSteps DEF TypeInv
<1>2. CASE BeginFails(o)
    BY <1>2 DEF BeginFails, Ends, Unrecorded, TypeInv, TypeOK
<1>3. CASE StartUnitFails(o) \/ NeverReady(o)
    BY <1>3, StartFailedSteps DEF StartUnitFails, NeverReady, TypeInv, TypeOK, Task
<1>4. QED
    BY <1>1, <1>2, <1>3, ValidatedSteps, StartUnitSteps, AwaitReadySteps,
       RollbackUnitSteps, StopUnitSteps DEF TaskStep, TypeInv

(* A task changes units one at a time, and no unit files.                   *)
LEMMA TaskUnits ==
    ASSUME TypeInv, NEW o \in OpIds, TaskStep(o)
    PROVE  /\ UNCHANGED unitFiles
           /\ unit' \in [Units -> {"down", "up", "restarting"}]
<1>1. CASE StartUnit(o)
    BY <1>1, CurrentTypes DEF StartUnit, TypeInv, TypeOK
<1>2. ASSUME NEW ok \in BOOLEAN, RollbackUnit(o, ok) \/ StopUnit(o, ok)
      PROVE  /\ UNCHANGED unitFiles
             /\ unit' \in [Units -> {"down", "up", "restarting"}]
    BY <1>2, CurrentTypes DEF RollbackUnit, StopUnit, Stopping, TypeInv, TypeOK
<1>3. CASE Begin(o) \/ BeginFails(o) \/ Validated(o) \/ StartUnitFails(o)
           \/ AwaitReady(o) \/ NeverReady(o)
    BY <1>3 DEF Begin, BeginFails, Validated, StartUnitFails, AwaitReady,
                NeverReady, TypeInv, TypeOK
<1>4. QED
    BY <1>1, <1>2, <1>3 DEF TaskStep

(* A step of a task keeps the types.                                        *)
LEMMA TaskTypes ==
    ASSUME TypeInv, NEW o \in OpIds, TaskStep(o) PROVE TypeInv'
<1>1. UNCHANGED unitFiles /\ unit' \in [Units -> {"down", "up", "restarting"}]
    BY TaskUnits
<1>2. CASE GoesOn(o)
  <2>1. op' \in [OpIds -> Operation]
      BY <1>2 DEF GoesOn, TypeInv, TypeOK, Operation, ActiveStates
  <2>2. PICK t \in Task : /\ t.at \in {"start", "ready", "rollback", "stop"} => t.todo # {}
                          /\ task' = [task EXCEPT ![o] = t]
      BY <1>2 DEF GoesOn
  <2>3. task' \in [OpIds -> Task] /\ TodoLeft'
      BY <2>2 DEF TypeInv, TypeOK, TodoLeft
  <2>4. QED
      BY <1>1, <1>2, <2>1, <2>3 DEF GoesOn, TypeInv, TypeOK, faults
<1>3. CASE Ends(o)
  <2>1. op' \in [OpIds -> Operation] /\ crashes' \in Nat /\ diskFailures' \in Nat
    <3>1. CASE Unrecorded(o)
        BY <3>1 DEF Unrecorded, DiskFails, TypeInv, TypeOK, Operation, ActiveStates
    <3>2. ASSUME NEW state \in TerminalStates, NEW left \in SUBSET Indices,
                 op' = [op EXCEPT ![o].state = state, ![o].left = left],
                 UNCHANGED faults \/ DiskFails
          PROVE  op' \in [OpIds -> Operation] /\ crashes' \in Nat /\ diskFailures' \in Nat
      <4>1. op' \in [OpIds -> Operation]
          BY <3>2, ZenonT(120) DEF TypeInv, TypeOK, Operation
      <4>2. crashes' \in Nat /\ diskFailures' \in Nat
          BY <3>2 DEF DiskFails, faults, TypeInv, TypeOK
      <4>3. QED
          BY <4>1, <4>2
    <3>3. QED
        BY <1>3, <3>1, <3>2 DEF Ends
  <2>2. task' \in [OpIds -> Task] /\ TodoLeft'
      BY <1>3, Defaults DEF Ends, TypeInv, TypeOK, TodoLeft, NoTask
  <2>3. QED
      BY <1>1, <1>3, <2>1, <2>2 DEF Ends, TypeInv, TypeOK
<1>4. QED
    BY <1>2, <1>3, TaskSteps

(* Pruning keeps records or drops them, and never drops an active one.      *)
LEMMA PrunedKeeps ==
    ASSUME NEW ops \in [OpIds -> Operation], NEW pruned \in Pruned(ops)
    PROVE  /\ pruned \in [OpIds -> Operation]
           /\ \A o \in OpIds : \/ pruned[o] = ops[o]
                               \/ pruned[o] = NoOperation /\ ops[o].state \notin ActiveStates
<1>1. CASE pruned = ops
    BY <1>1
<1>2. CASE pruned # ops
  <2>1. PICK K \in SUBSET InState(ops, TerminalStates) :
             pruned = [o \in OpIds |-> IF o \in InState(ops, ActiveStates) \cup K
                                       THEN ops[o] ELSE NoOperation]
      BY <1>2 DEF Pruned
  <2>2. QED
      BY <2>1, Defaults DEF InState
<1>3. QED
    BY <1>1, <1>2

(* A restart leaves records and no tasks.                                   *)
LEMMA RestartTypes ==
    ASSUME TypeInv, Restart
    PROVE  /\ op' \in [OpIds -> Operation]
           /\ task' \in [OpIds -> Task] /\ TodoLeft'
           /\ crashes' \in Nat /\ diskFailures' \in Nat
<1>1. ASSUME NEW o \in OpIds PROVE Interrupted(o) \in Operation
    BY DEF Interrupted, TypeInv, TypeOK, Operation, TerminalStates
<1>2. op' \in [OpIds -> Operation]
    BY <1>1 DEF Restart
<1>3. QED
    BY <1>2, Defaults DEF Restart, NoTask, TodoLeft, TypeInv, TypeOK

(* New and edited profiles are profiles, with units.                        *)
LEMMA ProfileTypes ==
    ASSUME TypeInv, NEW p \in Profiles, NEW n \in 1 .. MaxReplicas
    PROVE  /\ Created(n) \in Profile /\ Edited(p, n) \in Profile
           /\ UnitsOf(p, Created(n)) \subseteq Units
           /\ UnitsOf(p, Edited(p, n)) \subseteq Units
<1>1. n \in 0 .. MaxReplicas
    BY ConstantsAssumption
<1>2. Created(n) \in Profile
    BY <1>1, Defaults DEF Created, Profile, ProfileStates
<1>3. Edited(p, n) \in Profile
    BY <1>1, Defaults, ZenonT(120) DEF Edited, Profile, TypeInv, TypeOK
<1>4. ASSUME NEW pr \in Profile PROVE UnitsOf(p, pr) \subseteq Units
    BY <1>4, InstanceTypes DEF UnitsOf, UnitOf, Units
<1>5. QED
    BY <1>2, <1>3, <1>4

(* At first there are no profiles and no operations.                        *)
LEMMA TypeInit == Init => TypeInv
    BY Defaults DEF Init, TypeInv, TypeOK, TodoLeft, NoTask

(* Every step keeps the types.                                              *)
LEMMA TypeNext == TypeInv /\ [Next]_vars => TypeInv'
<1> SUFFICES ASSUME TypeInv, [Next]_vars PROVE TypeInv'
    OBVIOUS
<1>1. ASSUME NEW p \in Profiles, NEW n \in 1 .. MaxReplicas,
             CreateProfile(p, n) \/ UpdateProfile(p, n)
      PROVE  TypeInv'
  <2>1. profile' \in [Profiles -> Profile] /\ unitFiles' \subseteq Units
      BY <1>1, ProfileTypes DEF CreateProfile, UpdateProfile, TypeInv, TypeOK
  <2>2. QED
      BY <1>1, <2>1 DEF CreateProfile, UpdateProfile, TypeInv, TypeOK, TodoLeft, faults
<1>2. ASSUME NEW p \in Profiles, NEW force \in BOOLEAN, DeleteProfile(p, force)
      PROVE  TypeInv'
    BY <1>2, Defaults DEF DeleteProfile, TypeInv, TypeOK, TodoLeft, faults
<1>3. ASSUME NEW o \in OpIds, NEW p \in Profiles, NEW kind \in Kinds,
             NEW whole \in BOOLEAN, NEW i \in Indices,
             CreateOperation(o, p, kind, whole, i)
      PROVE  TypeInv'
  <2> DEFINE record == [kind |-> kind, profile |-> p, whole |-> whole, index |-> i,
                        state |-> "queued", left |-> {}]
             ops == [op EXCEPT ![o] = record]
  <2>1. record \in Operation
      BY DEF Operation, ActiveStates
  <2>2. ops \in [OpIds -> Operation] /\ op' \in Pruned(ops)
      BY <1>3, <2>1 DEF CreateOperation, TypeInv, TypeOK
  <2>3. op' \in [OpIds -> Operation]
      BY <2>2, PrunedKeeps
  <2>4. task' \in [OpIds -> Task] /\ TodoLeft'
      BY <1>3, SMTT(60) DEF CreateOperation, TypeInv, TypeOK, Task, TodoLeft
  <2>5. QED
      BY <1>3, <2>3, <2>4 DEF CreateOperation, TypeInv, TypeOK, faults
<1>4. ASSUME NEW o \in OpIds, CancelOperation(o) PROVE TypeInv'
  <2>1. op' \in [OpIds -> Operation]
      BY <1>4 DEF CancelOperation, TypeInv, TypeOK, Operation, TerminalStates
  <2>2. QED
      BY <1>4, <2>1 DEF CancelOperation, TypeInv, TypeOK, TodoLeft, faults
<1>5. ASSUME NEW o \in OpIds, TaskStep(o) PROVE TypeInv'
    BY <1>5, TaskTypes
<1>6. ASSUME NEW u \in Units, UnitFails(u) \/ AutoRestart(u) PROVE TypeInv'
    BY <1>6 DEF UnitFails, AutoRestart, TypeInv, TypeOK, TodoLeft, faults
<1>7. CASE Crash
  <2>1. unit' \in [Units -> {"down", "up", "restarting"}]
      BY <1>7 DEF Crash, TypeInv, TypeOK
  <2>2. QED
      BY <1>7, <2>1, RestartTypes DEF Crash, TypeInv, TypeOK
<1>8. ASSUME NEW p \in Profiles, NEW n \in 1 .. MaxReplicas,
             CrashInCreate(p, n) \/ CrashInUpdate(p, n)
      PROVE  TypeInv'
  <2>1. profile' \in [Profiles -> Profile] /\ unitFiles' \subseteq Units
      BY <1>8, ProfileTypes DEF CrashInCreate, CrashInUpdate, TypeInv, TypeOK
  <2>2. QED
      BY <1>8, <2>1, RestartTypes DEF CrashInCreate, CrashInUpdate, TypeInv, TypeOK
<1>9. ASSUME NEW p \in Profiles, NEW force \in BOOLEAN, CrashInDelete(p, force)
      PROVE  TypeInv'
    BY <1>9, Defaults, RestartTypes DEF CrashInDelete, TypeInv, TypeOK
<1>10. CASE UNCHANGED vars
    BY <1>10 DEF vars, TypeInv, TypeOK, TodoLeft
<1>11. QED
    BY <1>1, <1>2, <1>3, <1>4, <1>5, <1>6, <1>7, <1>8, <1>9, <1>10 DEF Next

(* TypeOK: profiles, units, records and tasks are always of their types.    *)
THEOREM TypeCorrect == Spec => []TypeOK
<1>1. TypeInv => TypeOK
    BY DEF TypeInv
<1>2. QED
    BY <1>1, TypeInit, TypeNext, PTL DEF Spec

-----------------------------------------------------------------------------
(* Records and tasks.  A task that has had its first turn has a running     *)
(* record, so what can be canceled, a queued one, is not its.               *)
Begun ==
    \A o \in OpIds : task[o].at \notin {"none", "begin"} => op[o].state = "running"

RecordsInv == OneTaskPerProfile /\ Begun

(* What any step does to records and tasks.                                 *)
RecordsChange ==
    \/ UNCHANGED <<op, task, diskFailures>>
    \/ \E o \in OpIds, p \in Profiles, kind \in Kinds, whole \in BOOLEAN, i \in Indices :
          CreateOperation(o, p, kind, whole, i)
    \/ \E o \in OpIds : CancelOperation(o)
    \/ \E o \in OpIds : GoesOn(o) \/ Ends(o)
    \/ Restart

(* Every step is one of those.                                              *)
LEMMA RecordsStep ==
    ASSUME TypeInv, [Next]_vars PROVE RecordsChange
    BY TaskSteps
       DEF RecordsChange, Next, CreateProfile, UpdateProfile, DeleteProfile,
           UnitFails, AutoRestart, Crash, CrashInCreate, CrashInUpdate,
           CrashInDelete, vars, faults

(* An operation is accepted for a profile that no active operation is on,   *)
(* and drops no active record.                                              *)
LEMMA CreateOperationChange ==
    ASSUME TypeInv, RecordsInv, NEW o \in OpIds, NEW p \in Profiles, NEW kind \in Kinds,
           NEW whole \in BOOLEAN, NEW i \in Indices,
           CreateOperation(o, p, kind, whole, i)
    PROVE  /\ op[o].state = "none" /\ task[o].at = "none"
           /\ op'[o].state = "queued" /\ op'[o].profile = p
           /\ task'[o].at = "begin"
           /\ \A x \in OpIds \ {o} :
                 /\ task'[x] = task[x]
                 /\ op[x].state \in ActiveStates => op[x].profile # p
                 /\ \/ op'[x] = op[x]
                    \/ op'[x] = NoOperation /\ op[x].state \notin ActiveStates
<1> DEFINE record == [kind |-> kind, profile |-> p, whole |-> whole, index |-> i,
                      state |-> "queued", left |-> {}]
           ops == [op EXCEPT ![o] = record]
<1>1. record \in Operation /\ record.state \in ActiveStates
    BY DEF Operation, ActiveStates
<1>2. ops \in [OpIds -> Operation] /\ op' \in Pruned(ops)
    BY <1>1 DEF CreateOperation, TypeInv, TypeOK
<1>3. \A x \in OpIds : \/ op'[x] = ops[x]
                       \/ op'[x] = NoOperation /\ ops[x].state \notin ActiveStates
    BY <1>2, PrunedKeeps
<1>4. ops[o] = record /\ \A x \in OpIds \ {o} : ops[x] = op[x]
    BY DEF TypeInv, TypeOK
<1>5. op'[o] = record
    BY <1>1, <1>3, <1>4
<1>6. \A x \in OpIds \ {o} : op[x].state \in ActiveStates => op[x].profile # p
    BY DEF CreateOperation, Busy, ActiveOf
<1>7. task'[o].at = "begin" /\ \A x \in OpIds \ {o} : task'[x] = task[x]
    BY DEF CreateOperation, TypeInv, TypeOK, Task
<1>8. QED
    BY <1>3, <1>4, <1>5, <1>6, <1>7 DEF CreateOperation

(* The records and the tasks stay in step.                                  *)
LEMMA RecordsNext == TypeInv /\ RecordsInv /\ [Next]_vars => RecordsInv'
<1> SUFFICES ASSUME TypeInv, RecordsInv, RecordsChange PROVE RecordsInv'
    BY RecordsStep
<1> USE DEF RecordsInv, OneTaskPerProfile, Begun, Live
<1>1. CASE UNCHANGED <<op, task, diskFailures>>
    BY <1>1
<1>2. ASSUME NEW o \in OpIds, NEW p \in Profiles, NEW kind \in Kinds,
             NEW whole \in BOOLEAN, NEW i \in Indices,
             CreateOperation(o, p, kind, whole, i)
      PROVE  RecordsInv'
    BY <1>2, CreateOperationChange DEF ActiveStates
<1>3. ASSUME NEW o \in OpIds, CancelOperation(o) PROVE RecordsInv'
  <2>1. task[o].at = "none"
      BY <1>3 DEF CancelOperation, MayCancel
  <2>2. QED
      BY <1>3, <2>1 DEF CancelOperation, TypeInv, TypeOK
<1>4. ASSUME NEW o \in OpIds, GoesOn(o) PROVE RecordsInv'
  <2>1. /\ op'[o].state = "running" /\ op'[o].profile = op[o].profile
        /\ \A x \in OpIds \ {o} : op'[x] = op[x] /\ task'[x] = task[x]
      BY <1>4 DEF GoesOn, TypeInv, TypeOK, Operation
  <2>2. QED
      BY <1>4, <2>1 DEF GoesOn, ActiveStates
<1>5. ASSUME NEW o \in OpIds, Ends(o) PROVE RecordsInv'
  <2>1. /\ task'[o].at = "none"
        /\ \A x \in OpIds \ {o} : op'[x] = op[x] /\ task'[x] = task[x]
      BY <1>5 DEF Ends, Unrecorded, NoTask, TypeInv, TypeOK
  <2>2. QED
      BY <2>1
<1>6. CASE Restart
    BY <1>6 DEF Restart, NoTask
<1>7. QED
    BY <1>1, <1>2, <1>3, <1>4, <1>5, <1>6 DEF RecordsChange

(* Without operations there are no tasks.                                   *)
LEMMA RecordsInit == Init => RecordsInv
    BY DEF Init, RecordsInv, OneTaskPerProfile, Begun, Live, NoTask

(* OneTaskPerProfile: however operations are requested, canceled, pruned    *)
(* and interrupted, no two tasks act on one profile, and the record of a    *)
(* task keeps a second operation out until it ends.                         *)
THEOREM OneTaskPerProfileHolds == Spec => []OneTaskPerProfile
<1>1. RecordsInv => OneTaskPerProfile
    BY DEF RecordsInv
<1>2. QED
    BY <1>1, TypeInit, TypeNext, RecordsInit, RecordsNext, PTL DEF Spec

(* A step leaves a terminal record, or prunes it.                           *)
LEMMA TerminalStays ==
    ASSUME TypeInv, RecordsInv, [Next]_vars, NEW x \in OpIds,
           op[x].state \in TerminalStates
    PROVE  op'[x] = op[x] \/ op'[x] = NoOperation
<1>1. op[x].state \notin ActiveStates \cup {"none"} /\ task[x].at = "none"
    BY DEF RecordsInv, OneTaskPerProfile, Live, TerminalStates, ActiveStates
<1>2. ASSUME NEW o \in OpIds, NEW p \in Profiles, NEW kind \in Kinds,
             NEW whole \in BOOLEAN, NEW i \in Indices,
             CreateOperation(o, p, kind, whole, i)
      PROVE  op'[x] = op[x] \/ op'[x] = NoOperation
    BY <1>1, <1>2, CreateOperationChange
<1>3. ASSUME NEW o \in OpIds, CancelOperation(o) PROVE op'[x] = op[x]
    BY <1>1, <1>3 DEF CancelOperation, MayCancel, ActiveStates, TypeInv, TypeOK
<1>4. ASSUME NEW o \in OpIds, GoesOn(o) \/ Ends(o) PROVE op'[x] = op[x]
    BY <1>1, <1>4 DEF GoesOn, Ends, Unrecorded, TypeInv, TypeOK
<1>5. CASE Restart
    BY <1>1, <1>5 DEF Restart, Interrupted
<1>6. QED
    BY <1>2, <1>3, <1>4, <1>5, RecordsStep DEF RecordsChange

(* TerminalIsFinal: no task, cancellation or restart changes a record that  *)
(* is closed.                                                               *)
THEOREM TerminalIsFinalHolds == Spec => TerminalIsFinal
<1> DEFINE Final ==
        \A o \in OpIds : op[o].state \in TerminalStates
            => op'[o] = op[o] \/ op'[o] = NoOperation
<1>1. TypeInv /\ RecordsInv /\ [Next]_vars => [Final]_vars
    BY TerminalStays
<1>2. QED
    BY <1>1, TypeInit, TypeNext, RecordsInit, RecordsNext, PTL
       DEF Spec, TerminalIsFinal

(* An active record that no write has failed for has a task.                *)
LEMMA NoAbandonedNext ==
    TypeInv /\ RecordsInv /\ NoAbandonedOperation /\ [Next]_vars => NoAbandonedOperation'
<1> SUFFICES ASSUME TypeInv, RecordsInv, NoAbandonedOperation, RecordsChange
             PROVE  NoAbandonedOperation'
    BY RecordsStep
<1> USE DEF NoAbandonedOperation, Live
<1>1. CASE UNCHANGED <<op, task, diskFailures>>
    BY <1>1
<1>2. ASSUME NEW o \in OpIds, NEW p \in Profiles, NEW kind \in Kinds,
             NEW whole \in BOOLEAN, NEW i \in Indices,
             CreateOperation(o, p, kind, whole, i)
      PROVE  NoAbandonedOperation'
  <2>1. UNCHANGED diskFailures
      BY <1>2 DEF CreateOperation, faults
  <2>2. NoOperation.state \notin ActiveStates
      BY DEF NoOperation, ActiveStates
  <2>3. QED
      BY <1>2, <2>1, <2>2, CreateOperationChange
<1>3. ASSUME NEW o \in OpIds, CancelOperation(o) PROVE NoAbandonedOperation'
    BY <1>3 DEF CancelOperation, ActiveStates, TypeInv, TypeOK, Operation, faults
<1>4. ASSUME NEW o \in OpIds, GoesOn(o) PROVE NoAbandonedOperation'
    BY <1>4 DEF GoesOn, TypeInv, TypeOK, faults
<1>5. ASSUME NEW o \in OpIds, Ends(o) PROVE NoAbandonedOperation'
  <2>1. CASE DiskFails
      BY <2>1 DEF DiskFails, TypeInv, TypeOK
  <2>2. CASE ~DiskFails
    <3>1. PICK state \in TerminalStates, left \in SUBSET Indices :
               /\ op' = [op EXCEPT ![o].state = state, ![o].left = left]
               /\ UNCHANGED faults
        BY <1>5, <2>2 DEF Ends, Unrecorded
    <3>2. op'[o].state \notin ActiveStates /\ UNCHANGED diskFailures
        BY <3>1 DEF TerminalStates, ActiveStates, TypeInv, TypeOK, Operation, faults
    <3>3. \A x \in OpIds \ {o} : op'[x] = op[x] /\ task'[x] = task[x]
        BY <1>5, <3>1 DEF Ends, TypeInv, TypeOK
    <3>4. QED
        BY <3>2, <3>3
  <2>3. QED
      BY <2>1, <2>2
<1>6. CASE Restart
  <2>1. ASSUME NEW o \in OpIds PROVE op'[o].state \notin ActiveStates
      BY <1>6 DEF Restart, Interrupted, ActiveStates, TypeInv, TypeOK, Operation
  <2>2. QED
      BY <2>1
<1>7. QED
    BY <1>1, <1>2, <1>3, <1>4, <1>5, <1>6 DEF RecordsChange

(* NoAbandonedOperation: as long as the registries can be written, no       *)
(* profile is occupied by an operation that nobody carries out.             *)
THEOREM NoAbandonedOperationHolds == Spec => []NoAbandonedOperation
<1>1. Init => NoAbandonedOperation
    BY DEF Init, NoAbandonedOperation, NoOperation, ActiveStates
<1>2. QED
    BY <1>1, TypeInit, TypeNext, RecordsInit, RecordsNext, NoAbandonedNext, PTL
       DEF Spec

-----------------------------------------------------------------------------
(* Profiles under operations.                                               *)

(* A task gives its profile a runtime state, or leaves it.                  *)
RuntimeChange(p) ==
    \/ UNCHANGED profile
    \/ \E state \in ProfileStates, S \in SUBSET Indices,
          instState \in {"stopped", "running", "failed"} :
             profile' = RuntimeState(p, state, S, instState)

(* ... whatever it does.                                                    *)
LEMMA TaskProfiles ==
    ASSUME TypeInv, NEW o \in OpIds, TaskStep(o)
    PROVE  RuntimeChange(op[o].profile)
<1> DEFINE p == op[o].profile
<1>1. task[o].known \in Profile /\ task[o].started \in SUBSET Indices
    BY DEF TypeInv, TypeOK, Task
<1>2. Selected(o, task[o].known) \in SUBSET Indices
    BY <1>1, SelectedTypes
<1>3. ASSUME NEW started, StartFailed(o, started) PROVE RuntimeChange(p)
    BY <1>2, <1>3 DEF StartFailed, End, RuntimeChange, ProfileStates
<1>4. ASSUME NEW ok \in BOOLEAN, RollbackUnit(o, ok) PROVE RuntimeChange(p)
    BY <1>1, <1>4 DEF RollbackUnit, End, RuntimeChange, ProfileStates
<1>5. CASE AwaitReady(o)
    BY <1>1, <1>5 DEF AwaitReady, End, RuntimeChange, ProfileStates
<1>6. ASSUME Fail(o) PROVE UNCHANGED profile
    BY <1>6 DEF Fail, End
<1>7. ASSUME NEW ok \in BOOLEAN, StopUnit(o, ok) PROVE RuntimeChange(p)
  <2>1. CASE AfterStops(o)
    <3> DEFINE state == IF op[o].whole THEN "stopped"
                        ELSE AggregateState(task[o].known, op[o].index)
    <3>1. state \in ProfileStates
        BY AggregateType DEF ProfileStates
    <3>2. \/ UNCHANGED profile
          \/ profile' = RuntimeState(p, state, Selected(o, task[o].known), "stopped")
        BY <1>6, <2>1 DEF AfterStops, End
    <3>3. QED
        BY <1>2, <3>1, <3>2 DEF RuntimeChange
  <2>2. CASE ~AfterStops(o)
      BY <1>6, <1>7, <2>2 DEF StopUnit, RuntimeChange
  <2>3. QED
      BY <2>1, <2>2
<1>8. CASE Begin(o) \/ BeginFails(o) \/ Validated(o) \/ StartUnit(o)
    BY <1>6, <1>8 DEF Begin, BeginStart, BeginStop, BeginFails, Validated,
                      StartUnit, RuntimeChange
<1>9. QED
    BY <1>3, <1>4, <1>5, <1>7, <1>8 DEF TaskStep, StartUnitFails, NeverReady

(* A runtime state neither creates nor deletes a profile, or changes its    *)
(* instances.                                                               *)
LEMMA TaskKeepsProfiles ==
    ASSUME TypeInv, NEW o \in OpIds, TaskStep(o), NEW p \in Profiles
    PROVE  /\ Exists(p)' = Exists(p) /\ profile'[p].count = profile[p].count
           /\ p # op[o].profile => profile'[p] = profile[p]
<1>1. op[o].profile \in Profiles
    BY DEF TypeInv, TypeOK, Operation
<1>2. CASE UNCHANGED profile
    BY <1>2 DEF Exists
<1>3. ASSUME NEW state \in ProfileStates, NEW S \in SUBSET Indices,
             NEW instState \in {"stopped", "running", "failed"},
             profile' = RuntimeState(op[o].profile, state, S, instState)
      PROVE  /\ Exists(p)' = Exists(p) /\ profile'[p].count = profile[p].count
             /\ p # op[o].profile => profile'[p] = profile[p]
  <2>1. CASE ~Exists(op[o].profile)
      BY <1>3, <2>1 DEF RuntimeState, Exists
  <2>2. CASE Exists(op[o].profile) /\ p # op[o].profile
      BY <1>1, <1>3, <2>2 DEF RuntimeState, Exists, TypeInv, TypeOK
  <2>3. CASE Exists(op[o].profile) /\ p = op[o].profile
    <3>1. profile'[p].state = state /\ profile'[p].count = profile[p].count
        BY <1>1, <1>3, <2>3 DEF RuntimeState, TypeInv, TypeOK, Profile
    <3>2. QED
        BY <2>3, <3>1 DEF Exists, ProfileStates
  <2>4. QED
      BY <2>1, <2>2, <2>3
<1>4. QED
    BY <1>2, <1>3, TaskProfiles DEF RuntimeChange

(* What is true of an operation and its task while profiles are edited and  *)
(* deleted only when idle: the profile is there; nothing is started before  *)
(* the first start; what a rollback has dealt with is down, or reported.    *)
RollbackOf(o) ==
    /\ task[o].at = "none" => task[o] = NoTask
    /\ task[o].at # "none" => Exists(op[o].profile)
    /\ task[o].at \in {"begin", "validate", "stop"} => task[o].started = {}
    /\ task[o].at = "rollback" =>
          \A i \in task[o].started \ (task[o].todo \cup task[o].left) :
             unit[UnitOf(op[o].profile, task[o].known, i)] = "down"

RollbackInv == \A o \in OpIds : RollbackOf(o)

Inv == TypeInv /\ RecordsInv /\ RollbackInv

(* Two tasks have different units.                                          *)
LEMMA TargetApart ==
    ASSUME Inv, NEW o \in Live, NEW x \in Live, o # x, NEW i
    PROVE  Target(o) # UnitOf(op[x].profile, task[x].known, i)
    BY DEF Inv, RecordsInv, OneTaskPerProfile, Target, UnitOf

(* A task that goes on does not end.                                        *)
LEMMA GoesOnOrEnds ==
    ASSUME TypeOK, NEW o \in OpIds, GoesOn(o), NEW state, NEW profiles, NEW left
    PROVE  ~End(o, state, profiles, left)
<1>1. task'[o].at # "none"
    BY DEF GoesOn, TypeOK
<1>2. ASSUME End(o, state, profiles, left) PROVE task'[o] = NoTask
    BY <1>2 DEF End, Close, TypeOK
<1>3. QED
    BY <1>1, <1>2 DEF NoTask

(* An operation is about one profile.                                       *)
LEMMA TaskKeepsSubject ==
    ASSUME TypeInv, NEW o \in OpIds, TaskStep(o)
    PROVE  op'[o].profile = op[o].profile
<1>1. CASE GoesOn(o)
    BY <1>1 DEF GoesOn, TypeInv, TypeOK, Operation
<1>2. CASE Unrecorded(o)
    BY <1>2 DEF Unrecorded, TypeInv, TypeOK, Operation
<1>3. CASE Ends(o) /\ ~Unrecorded(o)
    BY <1>3, ZenonT(120) DEF Ends, TypeInv, TypeOK, Operation
<1>4. QED
    BY <1>1, <1>2, <1>3, TaskSteps

(* A task keeps this of itself.                                             *)
LEMMA OwnRollback ==
    ASSUME Inv, MaxDiskFailures = 0, NEW o \in OpIds, TaskStep(o)
    PROVE  RollbackOf(o)'
<1>1. task[o].at # "none" /\ op[o].profile \in Profiles /\ RollbackOf(o)
    BY TaskSteps DEF Inv, RollbackInv, GoesOn, Ends, TypeInv, TypeOK, Operation
<1>2. Exists(op[o].profile)' /\ op'[o].profile = op[o].profile
  <2>1. op'[o].profile = op[o].profile
      BY TaskKeepsSubject DEF Inv
  <2>2. QED
      BY <1>1, <2>1, TaskKeepsProfiles DEF Inv, RollbackOf, Exists
<1>3. CASE Ends(o)
    BY <1>3 DEF Ends, RollbackOf, NoTask, Inv, TypeInv, TypeOK
<1>4. CASE GoesOn(o) /\ Begin(o)
  <2>1. task'[o].at \in {"validate", "stop"} /\ task'[o].started = {}
      BY <1>1, <1>4, GoesOnOrEnds
         DEF Begin, BeginStart, BeginStop, Fail, RollbackOf, Inv, TypeInv, TypeOK, Task
  <2>2. QED
      BY <1>2, <2>1 DEF RollbackOf
<1>5. CASE GoesOn(o) /\ Validated(o)
  <2>1. task'[o].at = "start"
      BY <1>5, GoesOnOrEnds DEF Validated, Fail, Inv, TypeInv, TypeOK, Task
  <2>2. QED
      BY <1>2, <2>1 DEF RollbackOf
<1>6. CASE StartUnit(o)
  <2>1. task'[o].at \in {"start", "ready"}
      BY <1>6 DEF StartUnit, Inv, TypeInv, TypeOK, Task
  <2>2. QED
      BY <1>2, <2>1 DEF RollbackOf
<1>7. CASE GoesOn(o) /\ StartFailed(o, task[o].started)
  <2>1. /\ task'[o].at = "rollback" /\ task'[o].todo = task[o].started
        /\ task'[o].started = task[o].started
      BY <1>7, GoesOnOrEnds DEF StartFailed, ToRollBack, Inv, TypeInv, TypeOK, Task
  <2>2. QED
      BY <1>2, <2>1 DEF RollbackOf
<1>8. CASE GoesOn(o) /\ AwaitReady(o)
  <2>1. task'[o].at = "ready"
      BY <1>8, GoesOnOrEnds DEF AwaitReady, Inv, TypeInv, TypeOK, Task
  <2>2. QED
      BY <1>2, <2>1 DEF RollbackOf
<1>9. ASSUME GoesOn(o), NEW ok \in BOOLEAN, RollbackUnit(o, ok) PROVE RollbackOf(o)'
  <2> DEFINE left == IF ok THEN task[o].left ELSE task[o].left \cup {Current(o)}
  <2>0. task' = [task EXCEPT ![o].todo = task[o].todo \ {Current(o)}, ![o].left = left]
      BY <1>9, GoesOnOrEnds DEF RollbackUnit, Inv, TypeInv
  <2>1. /\ task'[o].at = "rollback" /\ task'[o].started = task[o].started
        /\ task'[o].known = task[o].known
        /\ task'[o].todo = task[o].todo \ {Current(o)} /\ task'[o].left = left
      BY <1>9, <2>0 DEF RollbackUnit, Inv, TypeInv, TypeOK, Task
  <2>2. ASSUME NEW i \in task'[o].started \ (task'[o].todo \cup task'[o].left)
        PROVE  unit'[UnitOf(op[o].profile, task[o].known, i)] = "down"
    <3>1. task[o].at = "rollback" /\ task[o].known \in Profile /\ i \in Indices
        BY <1>9, <2>1 DEF RollbackUnit, Inv, TypeInv, TypeOK, Task
    <3>2. UnitOf(op[o].profile, task[o].known, i) \in Units
        BY <1>1, <3>1 DEF UnitOf, Units
    <3>3. CASE i = Current(o)
        BY <1>9, <2>1, <2>2, <3>2, <3>3
           DEF RollbackUnit, Stopping, Target, Inv, TypeInv, TypeOK
    <3>4. CASE i # Current(o)
      <4>1. unit[UnitOf(op[o].profile, task[o].known, i)] = "down"
          BY <1>1, <2>1, <2>2, <3>1, <3>4 DEF RollbackOf
      <4>2. QED
          BY <1>9, <3>2, <4>1 DEF RollbackUnit, Stopping, Inv, TypeInv, TypeOK
    <3>5. QED
        BY <3>3, <3>4
  <2>3. QED
      BY <1>2, <2>1, <2>2 DEF RollbackOf
<1>10. ASSUME GoesOn(o), NEW ok \in BOOLEAN, StopUnit(o, ok) PROVE RollbackOf(o)'
  <2>1. task[o].at = "stop" /\ task[o].started = {}
      BY <1>1, <1>10 DEF StopUnit, RollbackOf
  <2>2. task'[o].at \in {"stop", "validate"} /\ task'[o].started = {}
      BY <1>10, <2>1, GoesOnOrEnds
         DEF StopUnit, AfterStops, Fail, Inv, TypeInv, TypeOK, Task
  <2>3. QED
      BY <1>2, <2>2 DEF RollbackOf
<1>11. ~BeginFails(o)
    BY DEF BeginFails, DiskFails, Inv, TypeInv, TypeOK
<1>12. QED
    BY <1>3, <1>4, <1>5, <1>6, <1>7, <1>8, <1>9, <1>10, <1>11, TaskSteps
       DEF TaskStep, StartUnitFails, NeverReady, Inv

(* A task touches the unit it is about, and no other.                       *)
LEMMA TaskTouches ==
    ASSUME TypeInv, NEW x \in OpIds, TaskStep(x), NEW u \in Units, u # Target(x)
    PROVE  unit'[u] = unit[u]
    BY DEF TaskStep, Begin, BeginFails, Validated, StartUnit, StartUnitFails,
           AwaitReady, NeverReady, RollbackUnit, StopUnit, Stopping, TypeInv, TypeOK

(* ... and no other task, operation or profile.                             *)
LEMMA TaskAlone ==
    ASSUME TypeInv, NEW x \in OpIds, TaskStep(x), NEW o \in OpIds, o # x
    PROVE  task'[o] = task[o] /\ op'[o] = op[o]
<1>1. CASE GoesOn(x)
    BY <1>1 DEF GoesOn, TypeInv, TypeOK
<1>2. CASE Ends(x)
    BY <1>2 DEF Ends, Unrecorded, TypeInv, TypeOK
<1>3. QED
    BY <1>1, <1>2, TaskSteps

(* What is left of an operation whose task does not move.                   *)
LEMMA OtherRollback ==
    ASSUME Inv, NEW o \in OpIds,
           task'[o] = task[o], task[o].at # "none" => op'[o].profile = op[o].profile,
           task[o].at # "none" => Exists(op[o].profile)',
           \A i \in Indices :
              task[o].at = "rollback"
                 => LET u == UnitOf(op[o].profile, task[o].known, i)
                    IN unit[u] = "down" => unit'[u] = "down"
    PROVE  RollbackOf(o)'
<1>1. RollbackOf(o) /\ task[o].started \subseteq Indices
    BY DEF Inv, RollbackInv, TypeInv, TypeOK, Task
<1>2. QED
    BY <1>1 DEF RollbackOf, Exists

(* A unit of a profile is a unit.                                           *)
LEMMA UnitTypes ==
    ASSUME NEW p \in Profiles, NEW pr, NEW i \in Indices PROVE UnitOf(p, pr, i) \in Units
    BY DEF UnitOf, Units

(* If profiles are edited and deleted only when idle, and nothing fails to  *)
(* be written, every step keeps that.                                       *)
LEMMA InvNext ==
    ASSUME Careful, MaxDiskFailures = 0 PROVE Inv /\ [Next]_vars => Inv'
<1> SUFFICES ASSUME Inv, [Next]_vars PROVE Inv'
    OBVIOUS
<1>1. TypeInv' /\ RecordsInv'
    BY TypeNext, RecordsNext DEF Inv
<1> SUFFICES ASSUME NEW o \in OpIds PROVE RollbackOf(o)'
    BY <1>1 DEF Inv, RollbackInv
<1>2. op[o].profile \in Profiles /\ RollbackOf(o)
    BY DEF Inv, RollbackInv, TypeInv, TypeOK, Operation
<1>3. task[o].at # "none" => Exists(op[o].profile) /\ Busy(op[o].profile)
    BY <1>2 DEF Inv, RecordsInv, OneTaskPerProfile, Live, RollbackOf, Busy, ActiveOf
<1>4. ASSUME UNCHANGED <<op, task, unit>>,
             task[o].at # "none" => Exists(op[o].profile)'
      PROVE  RollbackOf(o)'
    BY <1>4, OtherRollback DEF Exists
<1>5. ASSUME NEW p \in Profiles, NEW n \in 1 .. MaxReplicas,
             CreateProfile(p, n) \/ UpdateProfile(p, n)
      PROVE  RollbackOf(o)'
  <2>1. task[o].at # "none" => Exists(op[o].profile)'
    <3>1. Created(n).state = "stopped" /\ Edited(p, n).state = profile[p].state
        BY DEF Created, Edited, Inv, TypeInv, TypeOK, Profile
    <3>2. CASE p # op[o].profile
        BY <1>2, <1>3, <1>5, <3>2
           DEF CreateProfile, UpdateProfile, Exists, Inv, TypeInv, TypeOK
    <3>3. CASE p = op[o].profile
      <4>1. profile'[p].state \in {"stopped", profile[p].state}
          BY <1>5, <3>1 DEF CreateProfile, UpdateProfile, Inv, TypeInv, TypeOK
      <4>2. QED
          BY <1>3, <1>5, <3>3, <4>1 DEF CreateProfile, UpdateProfile, Exists
    <3>4. QED
        BY <3>2, <3>3
  <2>2. QED
      BY <1>4, <1>5, <2>1 DEF CreateProfile, UpdateProfile
<1>6. ASSUME NEW p \in Profiles, NEW force \in BOOLEAN, DeleteProfile(p, force)
      PROVE  RollbackOf(o)'
  <2>1. task[o].at # "none" => op[o].profile # p
      BY <1>3, <1>6 DEF DeleteProfile, MayDelete, Idle
  <2>2. task[o].at # "none" => Exists(op[o].profile)'
      BY <1>2, <1>3, <1>6, <2>1 DEF DeleteProfile, Exists, Inv, TypeInv, TypeOK
  <2>3. QED
      BY <1>4, <1>6, <2>2 DEF DeleteProfile
<1>7. ASSUME NEW x \in OpIds, NEW p \in Profiles, NEW kind \in Kinds,
             NEW whole \in BOOLEAN, NEW i \in Indices,
             CreateOperation(x, p, kind, whole, i)
      PROVE  RollbackOf(o)'
  <2>1. UNCHANGED <<profile, unit>> /\ Exists(p)
      BY <1>7 DEF CreateOperation
  <2>2. CASE o = x
    <3>1. task[o] = NoTask
        BY <1>2, <1>7, <2>2 DEF CreateOperation, RollbackOf
    <3>2. task'[o].at = "begin" /\ task'[o].started = {}
        BY <1>7, <2>2, <3>1 DEF CreateOperation, NoTask, Inv, TypeInv, TypeOK
    <3>3. op'[o].profile = p
        BY <1>7, <2>2, CreateOperationChange DEF Inv
    <3>4. QED
        BY <2>1, <3>2, <3>3 DEF RollbackOf, Exists
  <2>3. CASE o # x
    <3>1. task'[o] = task[o] /\ (task[o].at # "none" => op'[o] = op[o])
        BY <1>7, <2>3, CreateOperationChange
           DEF Inv, RecordsInv, OneTaskPerProfile, Live
    <3>2. QED
        BY <1>3, <2>1, <3>1, OtherRollback DEF Exists
  <2>4. QED
      BY <2>2, <2>3
<1>8. ASSUME NEW x \in OpIds, CancelOperation(x) PROVE RollbackOf(o)'
  <2>1. UNCHANGED <<profile, unit, task>> /\ op'[o].profile = op[o].profile
      BY <1>8 DEF CancelOperation, Inv, TypeInv, TypeOK, Operation
  <2>2. QED
      BY <1>3, <2>1, OtherRollback DEF Exists
<1>9. ASSUME NEW x \in OpIds, TaskStep(x) PROVE RollbackOf(o)'
  <2>1. CASE o = x
      BY <1>9, <2>1, OwnRollback
  <2>2. CASE o # x
    <3>1. task'[o] = task[o] /\ op'[o] = op[o]
        BY <1>9, <2>2, TaskAlone DEF Inv
    <3>2. Exists(op[o].profile)' = Exists(op[o].profile)
        BY <1>2, <1>9, <3>1, TaskKeepsProfiles DEF Inv, Exists
    <3>3. ASSUME NEW i \in Indices, task[o].at = "rollback"
          PROVE  LET u == UnitOf(op[o].profile, task[o].known, i)
                 IN unit'[u] = unit[u]
      <4>1. x \in Live /\ o \in Live
          BY <1>9, <3>3, TaskSteps DEF Live, GoesOn, Ends, Inv
      <4>2. QED
          BY <1>2, <1>9, <2>2, <4>1, TargetApart, TaskTouches, UnitTypes DEF Inv
    <3>4. QED
        BY <1>3, <3>1, <3>2, <3>3, OtherRollback DEF Exists
  <2>3. QED
      BY <2>1, <2>2
<1>10. ASSUME NEW u \in Units, UnitFails(u) \/ AutoRestart(u) PROVE RollbackOf(o)'
  <2>1. UNCHANGED <<profile, op, task>>
      BY <1>10 DEF UnitFails, AutoRestart
  <2>2. \A v \in Units : unit[v] = "down" => unit'[v] = "down"
      BY <1>10 DEF UnitFails, AutoRestart, Inv, TypeInv, TypeOK
  <2>3. QED
      BY <1>2, <1>3, <2>1, <2>2, UnitTypes, OtherRollback DEF Exists
<1>11. CASE Restart
    BY <1>11 DEF Restart, RollbackOf, NoTask
<1>12. CASE UNCHANGED vars
    BY <1>3, <1>4, <1>12 DEF vars, Exists
<1>13. QED
    BY <1>5, <1>6, <1>7, <1>8, <1>9, <1>10, <1>11, <1>12
       DEF Next, Crash, CrashInCreate, CrashInUpdate, CrashInDelete

(* ... in every behaviour.                                                  *)
LEMMA InvHolds ==
    ASSUME Careful, MaxDiskFailures = 0 PROVE Spec => []Inv
<1>1. Init => Inv
    BY TypeInit, RecordsInit DEF Init, Inv, RollbackInv, RollbackOf, NoTask
<1>2. Inv /\ [Next]_vars => Inv'
    BY InvNext
<1>3. QED
    BY <1>1, <1>2, PTL DEF Spec

(* An operation on a whole profile fails with its units down.               *)
LEMMA FailsWithUnitsDown ==
    ASSUME Careful, MaxDiskFailures = 0, Inv, [Next]_vars, NEW o \in OpIds,
           op[o].state = "running", op'[o].state = "failed",
           op[o].whole, op[o].kind # "stop",
           NEW i \in task[o].started \ op'[o].left
    PROVE  unit'[UnitOf(op[o].profile, task[o].known, i)] = "down"
<1>1. /\ op[o].profile \in Profiles /\ RollbackOf(o)
      /\ task[o].started \subseteq Indices /\ i \in Indices
    BY DEF Inv, RollbackInv, TypeInv, TypeOK, Operation, Task
<1>2. UnitOf(op[o].profile, task[o].known, i) \in Units
    BY <1>1, UnitTypes
<1>3. ~DiskFails /\ ~BeginFails(o)
    BY DEF BeginFails, DiskFails, Inv, TypeInv, TypeOK
<1>4. TaskStep(o)
  <2>1. ASSUME NEW x \in OpIds, TaskStep(x) PROVE x = o
      BY <2>1, TaskAlone DEF Inv
  <2>2. ASSUME NEW x \in OpIds, NEW p \in Profiles, NEW kind \in Kinds,
               NEW whole \in BOOLEAN, NEW k \in Indices,
               CreateOperation(x, p, kind, whole, k)
        PROVE  FALSE
      BY <2>2, CreateOperationChange DEF Inv, ActiveStates, NoOperation
  <2>3. ASSUME NEW x \in OpIds, CancelOperation(x) PROVE FALSE
      BY <2>3 DEF CancelOperation, Inv, TypeInv, TypeOK, Operation
  <2>4. CASE Restart
      BY <2>4 DEF Restart, Interrupted
  <2>5. QED
      BY <2>1, <2>2, <2>3, <2>4
         DEF Next, CreateProfile, UpdateProfile, DeleteProfile, UnitFails,
             AutoRestart, Crash, CrashInCreate, CrashInUpdate, CrashInDelete, vars
<1>5. task[o].started # {} /\ task[o].at \in {"start", "ready", "rollback"}
    BY <1>1, <1>4, TaskSteps
       DEF RollbackOf, Inv, TypeInv, TypeOK, Task, GoesOn, Ends
<1>6. ~GoesOn(o)
    BY DEF GoesOn, Inv, TypeInv, TypeOK, Operation
<1>7. ASSUME StartFailed(o, task[o].started) PROVE FALSE
  <2>1. task'[o].at = "rollback"
      BY <1>5, <1>7 DEF StartFailed, ToRollBack, Inv, TypeInv, TypeOK, Task
  <2>2. QED
      BY <1>4, <1>6, <2>1, TaskSteps DEF Ends, NoTask, Inv, TypeInv, TypeOK
<1>8. ASSUME AwaitReady(o) PROVE FALSE
  <2>1. Exists(op[o].profile)
      BY <1>1, <1>5 DEF RollbackOf
  <2>2. UNCHANGED op \/ op' = [op EXCEPT ![o].state = "succeeded", ![o].left = {}]
      BY <1>3, <1>8, <2>1 DEF AwaitReady, End, Close
  <2>3. QED
      BY <2>2 DEF Inv, TypeInv, TypeOK, Operation
<1>9. ASSUME NEW ok \in BOOLEAN, RollbackUnit(o, ok)
      PROVE  unit'[UnitOf(op[o].profile, task[o].known, i)] = "down"
  <2> DEFINE left == IF ok THEN task[o].left ELSE task[o].left \cup {Current(o)}
  <2>1. task[o].at = "rollback" /\ task[o].todo \ {Current(o)} = {}
      BY <1>9 DEF RollbackUnit, Inv, TypeInv, TypeOK, Operation
  <2>2. op' = [op EXCEPT ![o].state = "failed", ![o].left = left]
      BY <1>3, <1>9, <2>1 DEF RollbackUnit, End, Close
  <2>3. op'[o].left = left
      BY <2>2 DEF Inv, TypeInv, TypeOK, Operation
  <2>4. CASE i = Current(o)
      BY <1>2, <1>9, <2>3, <2>4 DEF RollbackUnit, Stopping, Target, Inv, TypeInv, TypeOK
  <2>5. CASE i # Current(o)
    <3>1. unit[UnitOf(op[o].profile, task[o].known, i)] = "down"
        BY <1>1, <2>1, <2>3, <2>5 DEF RollbackOf
    <3>2. QED
        BY <1>2, <1>9, <3>1 DEF RollbackUnit, Stopping, Inv, TypeInv, TypeOK
  <2>6. QED
      BY <2>4, <2>5
<1>10. QED
    BY <1>3, <1>4, <1>5, <1>6, <1>7, <1>8, <1>9, StartUnitSteps
       DEF TaskStep, Begin, Validated, StartUnitFails, NeverReady, StopUnit, Inv

(* AllOrNothing: as long as profiles are edited and deleted only when idle  *)
(* and every write succeeds, a failing start of a whole profile leaves no   *)
(* unit behind that its record does not name, in spite of units that fail   *)
(* and restart, other operations and crashes.                               *)
THEOREM AllOrNothingHolds ==
    ASSUME Careful, MaxDiskFailures = 0 PROVE Spec => AllOrNothing
<1> DEFINE Down ==
        \A o \in OpIds :
           /\ op[o].state = "running" /\ op'[o].state = "failed"
           /\ op[o].whole /\ op[o].kind # "stop"
           => \A i \in task[o].started \ op'[o].left :
                 unit'[UnitOf(op[o].profile, task[o].known, i)] = "down"
<1>1. Inv /\ [Next]_vars => [Down]_vars
    BY FailsWithUnitsDown
<1>2. QED
    BY <1>1, InvHolds, PTL DEF Spec, AllOrNothing

-----------------------------------------------------------------------------
(* Profiles recorded as stopped.  An instance without a state of its own    *)
(* has the state of its profile.                                            *)
StateOf(p, i) ==
    IF profile[p].inst[i] = "unset" THEN profile[p].state ELSE profile[p].inst[i]

(* What runs is an instance of a profile's current plan.                    *)
UnitsNamed ==
    \A p \in Profiles, layout \in {"single", "replica"}, i \in Indices :
       Up(<<p, layout, i>>)
          => Exists(p) /\ i \in Instances(profile[p])
             /\ <<p, layout, i>> = UnitOf(p, profile[p], i)

(* What runs although it is recorded as stopped was started by a task that  *)
(* is still there to record it.                                             *)
StartedUnits ==
    \A p \in Profiles : \A i \in Instances(profile[p]) :
       Exists(p) /\ StateOf(p, i) = "stopped" /\ Up(UnitOf(p, profile[p], i))
          => \E o \in Live : op[o].profile = p /\ i \in task[o].started

StoppedThroughout ==
    \A p \in Profiles : profile[p].state = "stopped"
       => \A i \in Instances(profile[p]) : StateOf(p, i) = "stopped"

(* What a task has read of its profile is still so, what a stop has dealt   *)
(* with is down, and a start stays within the instances it is for.          *)
KnownOf(o) ==
    LET p == op[o].profile
        S == Selected(o, task[o].known)
    IN /\ task[o].at \notin {"none", "begin"} => task[o].known.count = profile[p].count
       /\ task[o].at = "stop" /\ op[o].kind = "stop" =>
             /\ ~op[o].whole => task[o].known = profile[p]
             /\ \A i \in S \ task[o].todo : unit[UnitOf(p, task[o].known, i)] = "down"
       /\ task[o].at \in {"start", "ready", "rollback"} => task[o].started \subseteq S
       /\ task[o].at = "start" => task[o].todo \subseteq S

Known == \A o \in OpIds : KnownOf(o)

StopInv == UnitsNamed /\ StartedUnits /\ StoppedThroughout /\ Known

(* What a runtime state makes of a profile.                                 *)
LEMMA RuntimeStateIs ==
    ASSUME TypeOK, NEW p \in Profiles, NEW state, NEW S, NEW instState, Exists(p),
           profile' = RuntimeState(p, state, S, instState)
    PROVE  /\ profile'[p].state = state /\ profile'[p].count = profile[p].count
           /\ \A i \in Indices : profile'[p].inst[i] =
                 IF i \in S \cap Instances(profile[p]) THEN instState
                 ELSE profile[p].inst[i]
    BY DEF RuntimeState, TypeOK, Profile

(* How a task can end when every write succeeds: with its profile as it was *)
(* and nothing started; with what it has started, or was to start, recorded *)
(* as failed or running; or with what it was to stop recorded as stopped,   *)
(* and down.                                                                *)
EndsWithoutTrace(o) == UNCHANGED profile /\ task[o].started = {}

EndsStart(o) ==
    \E state \in {"failed", "running"}, S \in SUBSET Indices :
       /\ task[o].started \subseteq S
       /\ profile' = RuntimeState(op[o].profile, state, S, state)

EndsStop(o) ==
    LET S == Selected(o, task[o].known) IN
    /\ task[o].at = "stop" /\ op[o].kind = "stop" /\ task[o].started = {}
    /\ ~op[o].whole => task[o].known = profile[op[o].profile]
    /\ profile' = RuntimeState(op[o].profile,
                               IF op[o].whole THEN "stopped"
                               ELSE AggregateState(task[o].known, op[o].index),
                               S, "stopped")
    /\ \A i \in S : unit'[UnitOf(op[o].profile, task[o].known, i)] = "down"

(* ... as it does.                                                          *)
LEMMA TaskEnds ==
    ASSUME MaxDiskFailures = 0, Inv, Known, NEW o \in OpIds, TaskStep(o), Ends(o)
    PROVE  EndsWithoutTrace(o) \/ EndsStart(o) \/ EndsStop(o)
<1> DEFINE p == op[o].profile  S == Selected(o, task[o].known)
<1>1. /\ p \in Profiles /\ RollbackOf(o) /\ KnownOf(o)
      /\ task[o].known \in Profile /\ task[o].started \in SUBSET Indices
    BY DEF Inv, RollbackInv, Known, TypeInv, TypeOK, Operation, Task
<1>2. S \in SUBSET Indices
    BY <1>1, SelectedTypes
<1>3. ~DiskFails /\ ~BeginFails(o) /\ ~GoesOn(o)
  <2>1. ~DiskFails
      BY DEF DiskFails, Inv, TypeInv, TypeOK
  <2>2. task'[o].at = "none"
      BY DEF Ends, NoTask, Inv, TypeInv, TypeOK
  <2>3. QED
      BY <2>1, <2>2 DEF BeginFails, GoesOn, Inv, TypeInv, TypeOK
<1>4. ASSUME Fail(o), task[o].at \in {"begin", "validate", "stop"}
      PROVE  EndsWithoutTrace(o)
    BY <1>1, <1>4 DEF Fail, End, RollbackOf, EndsWithoutTrace
<1>5. CASE Begin(o) \/ Validated(o)
  <2>1. task'[o].at = "none"
      BY DEF Ends, NoTask, Inv, TypeInv, TypeOK
  <2>2. Fail(o)
      BY <1>5, <2>1
         DEF Begin, BeginStart, BeginStop, Validated, Inv, TypeInv, TypeOK, Task
  <2>3. QED
      BY <1>4, <1>5, <2>2 DEF Begin, Validated
<1>6. ASSUME StartFailed(o, task[o].started), task[o].at \in {"start", "ready"}
      PROVE  EndsStart(o)
  <2>1. task'[o].at = "none"
      BY DEF Ends, NoTask, Inv, TypeInv, TypeOK
  <2>2. ~(op[o].whole /\ ToRollBack(o, task[o].started) # {})
      BY <1>6, <2>1 DEF StartFailed, Inv, TypeInv, TypeOK, Task
  <2>3. profile' = RuntimeState(p, "failed", S, "failed")
      BY <1>3, <1>6, <2>2 DEF StartFailed, End
  <2>4. task[o].started \subseteq S
      BY <1>1, <1>6 DEF KnownOf
  <2>5. QED
      BY <1>2, <2>3, <2>4 DEF EndsStart
<1>7. ASSUME AwaitReady(o) PROVE EndsStart(o)
  <2>1. task'[o].at = "none" /\ task[o].at = "ready"
      BY <1>7 DEF Ends, NoTask, AwaitReady, Inv, TypeInv, TypeOK
  <2>2. profile' = RuntimeState(p, "running", task[o].started, "running")
      BY <1>3, <1>7, <2>1 DEF AwaitReady, End, Inv, TypeInv, TypeOK, Task
  <2>3. QED
      BY <1>1, <2>2 DEF EndsStart
<1>8. ASSUME NEW ok \in BOOLEAN, RollbackUnit(o, ok) PROVE EndsStart(o)
  <2>1. task'[o].at = "none" /\ task[o].at = "rollback"
      BY <1>8 DEF Ends, NoTask, RollbackUnit, Inv, TypeInv, TypeOK
  <2>2. profile' = RuntimeState(p, "failed", task[o].started, "failed")
      BY <1>3, <1>8, <2>1 DEF RollbackUnit, End, Inv, TypeInv, TypeOK, Task
  <2>3. QED
      BY <1>1, <2>2 DEF EndsStart
<1>9. ASSUME NEW ok \in BOOLEAN, StopUnit(o, ok)
      PROVE  EndsWithoutTrace(o) \/ EndsStop(o)
  <2>1. task[o].at = "stop" /\ task[o].started = {} /\ task'[o].at = "none"
      BY <1>1, <1>9 DEF Ends, NoTask, StopUnit, RollbackOf, Inv, TypeInv, TypeOK
  <2>2. CASE Fail(o)
      BY <1>4, <2>1, <2>2
  <2>3. CASE ~Fail(o)
    <3>1. /\ ok \/ op[o].kind = "restart"
          /\ task[o].todo \ {Current(o)} = {} /\ AfterStops(o)
        BY <1>9, <2>1, <2>3 DEF StopUnit, Inv, TypeInv, TypeOK, Task
    <3>2. op[o].kind = "stop"
        BY <2>1, <2>3, <3>1 DEF AfterStops, Inv, TypeInv, TypeOK, Task
    <3>3. profile' = RuntimeState(p, IF op[o].whole THEN "stopped"
                                     ELSE AggregateState(task[o].known, op[o].index),
                                  S, "stopped")
        BY <1>3, <3>1, <3>2 DEF AfterStops, End
    <3>4. ASSUME NEW i \in S PROVE unit'[UnitOf(p, task[o].known, i)] = "down"
      <4>1. UnitOf(p, task[o].known, i) \in Units
          BY <1>1, <1>2, UnitTypes
      <4>2. CASE i = Current(o)
          BY <1>9, <3>1, <3>2, <4>1, <4>2
             DEF StopUnit, Stopping, Target, Inv, TypeInv, TypeOK
      <4>3. CASE i # Current(o)
        <5>1. unit[UnitOf(p, task[o].known, i)] = "down"
            BY <1>1, <2>1, <3>1, <3>2, <4>3 DEF KnownOf
        <5>2. QED
            BY <1>9, <4>1, <5>1 DEF StopUnit, Stopping, Inv, TypeInv, TypeOK
      <4>4. QED
          BY <4>2, <4>3
    <3>5. ~op[o].whole => task[o].known = profile[p]
        BY <1>1, <2>1, <3>2 DEF KnownOf
    <3>6. QED
        BY <2>1, <3>2, <3>3, <3>4, <3>5 DEF EndsStop
  <2>4. QED
      BY <2>2, <2>3
<1>10. QED
    BY <1>3, <1>5, <1>6, <1>7, <1>8, <1>9, StartUnitSteps
       DEF TaskStep, StartUnitFails, NeverReady, Inv

(* A unit that runs after a step of a task did so before, or is started.    *)
LEMMA TaskStarts ==
    ASSUME TypeInv, NEW o \in OpIds, TaskStep(o), NEW u \in Units, Up(u)'
    PROVE  Up(u) \/ (StartUnit(o) /\ u = Target(o))
<1>1. CASE StartUnit(o)
    BY <1>1, CurrentTypes DEF StartUnit, Up, TypeInv, TypeOK
<1>2. CASE ~StartUnit(o)
  <2>1. unit'[u] = unit[u] \/ unit'[u] = "down"
      BY <1>2 DEF TaskStep, Begin, BeginFails, Validated, StartUnitFails,
                  AwaitReady, NeverReady, RollbackUnit, StopUnit, Stopping,
                  TypeInv, TypeOK
  <2>2. QED
      BY <2>1 DEF Up
<1>3. QED
    BY <1>1, <1>2

(* The unit a task starts is one of its profile's.                          *)
LEMMA StartsOwnUnit ==
    ASSUME Inv, Known, NEW o \in OpIds, StartUnit(o)
    PROVE  LET p == op[o].profile IN
           /\ Current(o) \in Instances(profile[p]) /\ Exists(p)
           /\ Target(o) = UnitOf(p, profile[p], Current(o))
<1>1. RollbackOf(o) /\ KnownOf(o) /\ task[o].at = "start"
    BY DEF Inv, RollbackInv, Known, StartUnit
<1>2. task[o].known.count = profile[op[o].profile].count
    BY <1>1 DEF KnownOf
<1>3. Current(o) \in Selected(o, task[o].known)
    BY <1>1, CurrentTypes DEF KnownOf, Inv
<1>4. QED
    BY <1>1, <1>2, <1>3 DEF RollbackOf, Selected, Instances, Target, UnitOf

(* Only a profile's plan decides on its units.                              *)
LEMMA SamePlan ==
    ASSUME NEW p, NEW a, NEW b, NEW i, a.count = b.count
    PROVE  UnitOf(p, a, i) = UnitOf(p, b, i) /\ Instances(a) = Instances(b)
    BY DEF UnitOf, Instances

(* A task that goes on forgets nothing it has started.                      *)
LEMMA StartedKept ==
    ASSUME Inv, NEW o \in OpIds, TaskStep(o), GoesOn(o)
    PROVE  /\ task[o].started \subseteq task'[o].started
           /\ StartUnit(o) => Current(o) \in task'[o].started
<1>1. RollbackOf(o) /\ ~BeginFails(o)
    BY DEF Inv, RollbackInv, BeginFails, GoesOn, NoTask, TypeInv, TypeOK
<1>2. ASSUME Begin(o) \/ Validated(o)
      PROVE  task[o].started \subseteq task'[o].started
    BY <1>1, <1>2, GoesOnOrEnds
       DEF Begin, BeginStart, BeginStop, Validated, Fail, RollbackOf, Inv,
           TypeInv, TypeOK, Task
<1>3. CASE StartUnit(o)
    BY <1>3 DEF StartUnit, Inv, TypeInv, TypeOK, Task
<1>4. ASSUME StartFailed(o, task[o].started)
      PROVE  task[o].started \subseteq task'[o].started
    BY <1>4, GoesOnOrEnds DEF StartFailed, Inv, TypeInv, TypeOK, Task
<1>5. ASSUME AwaitReady(o)
      PROVE  task[o].started \subseteq task'[o].started
    BY <1>5, GoesOnOrEnds DEF AwaitReady, Inv, TypeInv, TypeOK, Task
<1>6. ASSUME NEW ok \in BOOLEAN, RollbackUnit(o, ok)
      PROVE  task[o].started \subseteq task'[o].started
  <2> DEFINE left == IF ok THEN task[o].left ELSE task[o].left \cup {Current(o)}
  <2>1. task' = [task EXCEPT ![o].todo = task[o].todo \ {Current(o)}, ![o].left = left]
      BY <1>6, GoesOnOrEnds DEF RollbackUnit, Inv, TypeInv
  <2>2. QED
      BY <2>1 DEF Inv, TypeInv, TypeOK, Task
<1>7. ASSUME NEW ok \in BOOLEAN, StopUnit(o, ok)
      PROVE  task[o].started \subseteq task'[o].started
    BY <1>1, <1>7 DEF StopUnit, RollbackOf
<1>8. CASE ~StartUnit(o)
    BY <1>1, <1>2, <1>4, <1>5, <1>6, <1>7, <1>8
       DEF TaskStep, StartUnitFails, NeverReady
<1>9. QED
    BY <1>3, <1>8

(* After the end of a task its profile has nothing running that is recorded *)
(* as stopped, and is stopped throughout if it is at all.                   *)
LEMMA EndRecords ==
    ASSUME MaxDiskFailures = 0, Inv, StopInv, NEW o \in OpIds, TaskStep(o), Ends(o),
           NEW p \in Profiles, p = op[o].profile,
           NEW i \in Instances(profile[p]), NEW u, u = UnitOf(p, profile[p], i)
    PROVE  /\ StateOf(p, i)' = "stopped" => unit'[u] = "down"
           /\ profile'[p].state = "stopped" => StateOf(p, i)' = "stopped"
<1>1. /\ profile[p] \in Profile /\ RollbackOf(o) /\ KnownOf(o) /\ task[o].at # "none"
    BY DEF Inv, RollbackInv, StopInv, Known, TypeInv, TypeOK, Ends
<1>2. i \in Indices /\ u \in Units /\ Exists(p)
    BY <1>1, InstanceTypes, UnitTypes DEF RollbackOf
<1>3. unit'[u] # "down" => Up(u)
  <2>1. ~StartUnit(o)
    <3>1. task'[o].at = "none"
        BY DEF Ends, NoTask, Inv, TypeInv, TypeOK
    <3>2. QED
        BY <3>1, StartUnitSteps DEF GoesOn, Inv, TypeInv, TypeOK
  <2>2. QED
      BY <1>2, <2>1, TaskStarts DEF Inv, Up
<1>4. ASSUME StateOf(p, i) = "stopped", Up(u) PROVE i \in task[o].started
  <2>1. PICK x \in Live : op[x].profile = p /\ i \in task[x].started
      BY <1>1, <1>2, <1>4 DEF StopInv, StartedUnits
  <2>2. x = o
      BY <1>1, <2>1 DEF Inv, RecordsInv, OneTaskPerProfile, Live
  <2>3. QED
      BY <2>1, <2>2
<1>5. CASE EndsWithoutTrace(o)
    BY <1>1, <1>3, <1>4, <1>5 DEF EndsWithoutTrace, StateOf, StopInv, StoppedThroughout
<1>6. CASE EndsStart(o)
  <2>1. PICK state \in {"failed", "running"}, S \in SUBSET Indices :
             /\ task[o].started \subseteq S
             /\ profile' = RuntimeState(p, state, S, state)
      BY <1>6 DEF EndsStart
  <2>2. /\ profile'[p].state = state
        /\ profile'[p].inst[i] = IF i \in S THEN state ELSE profile[p].inst[i]
      BY <1>1, <1>2, <2>1, RuntimeStateIs DEF Inv, TypeInv
  <2>3. StateOf(p, i)' = "stopped" => StateOf(p, i) = "stopped" /\ i \notin S
      BY <1>1, <2>2 DEF StateOf
  <2>4. QED
      BY <1>3, <1>4, <2>1, <2>2, <2>3
<1>7. CASE EndsStop(o)
  <2> DEFINE S == Selected(o, task[o].known)
             state == IF op[o].whole THEN "stopped"
                      ELSE AggregateState(task[o].known, op[o].index)
  <2>1. /\ profile'[p].state = state
        /\ profile'[p].inst[i] = IF i \in S THEN "stopped" ELSE profile[p].inst[i]
      BY <1>1, <1>2, <1>7, RuntimeStateIs DEF EndsStop, Inv, TypeInv
  <2>2. task[o].at = "stop" /\ task[o].known.count = profile[p].count
      BY <1>1, <1>7 DEF EndsStop, KnownOf
  <2>3. UnitOf(p, task[o].known, i) = u /\ Instances(task[o].known) = Instances(profile[p])
      BY <2>2, SamePlan
  <2>4. CASE i \in S
    <3>1. unit'[u] = "down"
        BY <1>7, <2>3, <2>4 DEF EndsStop
    <3>2. QED
        BY <2>1, <2>4, <3>1 DEF StateOf
  <2>5. CASE i \notin S
    <3>1. ~op[o].whole /\ i # op[o].index
        BY <2>3, <2>5 DEF Selected
    <3>2. task[o].known = profile[p] /\ state = AggregateState(profile[p], op[o].index)
        BY <1>7, <3>1, SMTT(60) DEF EndsStop
    <3>3. state = "stopped" => StateOf(p, i) = "stopped"
        BY <3>1, <3>2 DEF AggregateState, StateOf
    <3>4. StateOf(p, i)' = IF profile[p].inst[i] = "unset" THEN state ELSE profile[p].inst[i]
        BY <1>1, <2>1, <2>5 DEF StateOf
    <3>5. StateOf(p, i)' = "stopped" => StateOf(p, i) = "stopped"
        BY <3>3, <3>4 DEF StateOf
    <3>6. state = "stopped" => StateOf(p, i)' = "stopped"
        BY <3>3, <3>4 DEF StateOf
    <3>7. i \notin task[o].started
        BY <1>7 DEF EndsStop
    <3>8. QED
        BY <1>3, <1>4, <2>1, <3>5, <3>6, <3>7
  <2>6. QED
      BY <2>4, <2>5, SMTT(60)
<1>8. QED
    BY <1>5, <1>6, <1>7, TaskEnds DEF StopInv

(* A step that is not a task's does nothing to a profile that a task is at, *)
(* and starts no unit.                                                      *)
KeepsProfilesOfTasks ==
    /\ \A u \in Units : unit[u] = "down" => unit'[u] = "down"
    /\ \A o \in OpIds :
          \/ task'[o] = task[o]
             /\ (task[o].at # "none"
                   => /\ op'[o] = op[o]
                      /\ profile'[op[o].profile] = profile[op[o].profile])
          \/ task[o].at = "none" /\ task'[o].at = "begin"

(* So what a task knows of it remains true.                                 *)
LEMMA KnownStays ==
    ASSUME Inv, Known, KeepsProfilesOfTasks PROVE Known'
<1> SUFFICES ASSUME NEW o \in OpIds PROVE KnownOf(o)'
    BY DEF Known
<1>1. /\ KnownOf(o) /\ op[o].profile \in Profiles
      /\ task[o].known \in Profile
    BY DEF Known, Inv, TypeInv, TypeOK, Operation, Task
<1>2. CASE task'[o].at \in {"none", "begin"}
    BY <1>2 DEF KnownOf
<1>3. CASE task'[o].at \notin {"none", "begin"}
  <2>1. /\ task'[o] = task[o] /\ op'[o] = op[o]
        /\ profile'[op[o].profile] = profile[op[o].profile]
      BY <1>3 DEF KeepsProfilesOfTasks
  <2>2. Selected(o, task[o].known)' = Selected(o, task[o].known)
      BY <2>1 DEF Selected
  <2>3. ASSUME NEW i \in Selected(o, task[o].known) \ task[o].todo,
               unit[UnitOf(op[o].profile, task[o].known, i)] = "down"
        PROVE  unit'[UnitOf(op[o].profile, task[o].known, i)] = "down"
    <3>1. UnitOf(op[o].profile, task[o].known, i) \in Units
        BY <1>1, SelectedTypes, UnitTypes
    <3>2. QED
        BY <2>3, <3>1 DEF KeepsProfilesOfTasks
  <2>4. QED
      BY <1>1, <2>1, <2>2, <2>3 DEF KnownOf
<1>4. QED
    BY <1>2, <1>3

(* A task keeps what it knows of its own profile.                           *)
LEMMA OwnKnown ==
    ASSUME Inv, Known, MaxDiskFailures = 0, NEW o \in OpIds, TaskStep(o)
    PROVE  KnownOf(o)'
<1> DEFINE p == op[o].profile
<1>1. /\ p \in Profiles /\ KnownOf(o) /\ RollbackOf(o)
      /\ task[o].known \in Profile
    BY DEF Known, Inv, RollbackInv, TypeInv, TypeOK, Operation, Task
<1>2. CASE Ends(o)
    BY <1>2 DEF Ends, KnownOf, NoTask, Inv, TypeInv, TypeOK
<1>3. CASE GoesOn(o)
  <2>1. /\ UNCHANGED profile /\ op'[o].profile = p /\ op'[o].kind = op[o].kind
        /\ op'[o].whole = op[o].whole /\ op'[o].index = op[o].index
      BY <1>3 DEF GoesOn, Inv, TypeInv, TypeOK, Operation
  <2>2. ASSUME NEW pr PROVE Selected(o, pr)' = Selected(o, pr)
      BY <2>1 DEF Selected
  <2>3. Read(o).count = profile[p].count
      BY <1>1, Defaults DEF Read, NoProfile
  <2>4. CASE Begin(o)
    <3>1. BeginStart(o) \/ BeginStop(o)
        BY <1>3, <2>4, GoesOnOrEnds DEF Begin, Fail, Inv, TypeInv
    <3>2. task'[o].known = Read(o)
        BY <3>1 DEF BeginStart, BeginStop, Inv, TypeInv, TypeOK, Task
    <3>3. CASE BeginStart(o)
      <4>1. task'[o].at = "validate"
          BY <3>3 DEF BeginStart, Inv, TypeInv, TypeOK, Task
      <4>2. QED
          BY <2>1, <2>3, <3>2, <4>1 DEF KnownOf
    <3>4. CASE BeginStop(o)
      <4>1. task'[o].at = "stop" /\ task'[o].todo = Selected(o, Read(o))
          BY <3>4 DEF BeginStop, Inv, TypeInv, TypeOK, Task
      <4>2. op[o].kind = "stop" /\ ~op[o].whole => Read(o) = profile[p]
          BY DEF Read
      <4>3. QED
          BY <2>1, <2>2, <2>3, <3>2, <4>1, <4>2 DEF KnownOf
    <3>5. QED
        BY <3>1, <3>3, <3>4
  <2>5. CASE Validated(o)
    <3>1. /\ task'[o].at = "start" /\ task'[o].todo = Selected(o, task[o].known)
          /\ task'[o].known = task[o].known /\ task'[o].started = {}
        BY <1>1, <1>3, <2>5, GoesOnOrEnds
           DEF Validated, Fail, RollbackOf, Inv, TypeInv, TypeOK, Task
    <3>2. task[o].known.count = profile[p].count
        BY <1>1, <2>5 DEF Validated, KnownOf
    <3>3. QED
        BY <2>1, <2>2, <3>1, <3>2 DEF KnownOf
  <2>6. CASE StartUnit(o)
    <3>1. /\ task'[o].at \in {"start", "ready"} /\ task'[o].known = task[o].known
          /\ task'[o].started = task[o].started \cup {Current(o)}
          /\ task'[o].at = "start" => task'[o].todo = task[o].todo \ {Current(o)}
        BY <2>6 DEF StartUnit, Inv, TypeInv, TypeOK, Task
    <3>2. task[o].at = "start" /\ Current(o) \in task[o].todo
        BY <2>6, CurrentTypes DEF StartUnit, Inv
    <3>3. QED
        BY <1>1, <2>1, <2>2, <3>1, <3>2 DEF KnownOf
  <2>7. CASE StartFailed(o, task[o].started) /\ task[o].at \in {"start", "ready"}
    <3>1. /\ task'[o].at = "rollback" /\ task'[o].known = task[o].known
          /\ task'[o].started = task[o].started
        BY <1>3, <2>7, GoesOnOrEnds DEF StartFailed, Inv, TypeInv, TypeOK, Task
    <3>2. QED
        BY <1>1, <2>1, <2>2, <2>7, <3>1 DEF KnownOf
  <2>8. CASE AwaitReady(o)
    <3>1. /\ task[o].at = "ready" /\ task'[o].at = "ready"
          /\ task'[o].known = task[o].known /\ task'[o].started = task[o].started
        BY <1>3, <2>8, GoesOnOrEnds DEF AwaitReady, Inv, TypeInv, TypeOK, Task
    <3>2. QED
        BY <1>1, <2>1, <2>2, <3>1 DEF KnownOf
  <2>9. ASSUME NEW ok \in BOOLEAN, RollbackUnit(o, ok) PROVE KnownOf(o)'
    <3> DEFINE left == IF ok THEN task[o].left ELSE task[o].left \cup {Current(o)}
    <3>1. task' = [task EXCEPT ![o].todo = task[o].todo \ {Current(o)}, ![o].left = left]
        BY <1>3, <2>9, GoesOnOrEnds DEF RollbackUnit, Inv, TypeInv
    <3>2. /\ task[o].at = "rollback" /\ task'[o].at = "rollback"
          /\ task'[o].known = task[o].known /\ task'[o].started = task[o].started
        BY <2>9, <3>1 DEF RollbackUnit, Inv, TypeInv, TypeOK, Task
    <3>3. QED
        BY <1>1, <2>1, <2>2, <3>2 DEF KnownOf
  <2>10. ASSUME NEW ok \in BOOLEAN, StopUnit(o, ok) PROVE KnownOf(o)'
    <3>1. task[o].at = "stop"
        BY <2>10 DEF StopUnit
    <3>2. CASE AfterStops(o)
      <4>1. task' = [task EXCEPT ![o].at = "validate", ![o].known = Read(o), ![o].todo = {}]
          BY <1>3, <3>2, GoesOnOrEnds DEF AfterStops, Fail, Inv, TypeInv
      <4>2. task'[o].at = "validate" /\ task'[o].known = Read(o)
          BY <4>1 DEF Inv, TypeInv, TypeOK, Task
      <4>3. QED
          BY <2>1, <2>3, <4>2 DEF KnownOf
    <3>3. CASE ~AfterStops(o)
      <4>1. /\ ok \/ op[o].kind = "restart"
            /\ task' = [task EXCEPT ![o].todo = task[o].todo \ {Current(o)}]
          BY <1>3, <2>10, <3>3, GoesOnOrEnds DEF StopUnit, Fail, Inv, TypeInv
      <4>2. /\ task'[o].at = "stop" /\ task'[o].known = task[o].known
            /\ task'[o].todo = task[o].todo \ {Current(o)}
          BY <3>1, <4>1 DEF Inv, TypeInv, TypeOK, Task
      <4>3. ASSUME op[o].kind = "stop",
                   NEW i \in Selected(o, task[o].known) \ task'[o].todo
            PROVE  unit'[UnitOf(p, task[o].known, i)] = "down"
        <5>1. UnitOf(p, task[o].known, i) \in Units
            BY <1>1, SelectedTypes, UnitTypes
        <5>2. CASE i = Current(o)
            BY <2>10, <4>1, <4>3, <5>1, <5>2
               DEF StopUnit, Stopping, Target, Inv, TypeInv, TypeOK
        <5>3. CASE i # Current(o)
          <6>1. unit[UnitOf(p, task[o].known, i)] = "down"
              BY <1>1, <3>1, <4>2, <4>3, <5>3 DEF KnownOf
          <6>2. QED
              BY <2>10, <5>1, <6>1 DEF StopUnit, Stopping, Inv, TypeInv, TypeOK
        <5>4. QED
            BY <5>2, <5>3
      <4>4. QED
          BY <1>1, <2>1, <2>2, <3>1, <4>2, <4>3 DEF KnownOf
    <3>4. QED
        BY <3>2, <3>3
  <2>11. ~BeginFails(o)
      BY DEF BeginFails, DiskFails, Inv, TypeInv, TypeOK
  <2>12. QED
      BY <2>4, <2>5, <2>6, <2>7, <2>8, <2>9, <2>10, <2>11
         DEF TaskStep, StartUnitFails, NeverReady
<1>4. QED
    BY <1>2, <1>3, TaskSteps DEF Inv

(* ... and what other tasks know.                                           *)
LEMMA TaskKeepsKnown ==
    ASSUME MaxDiskFailures = 0, Inv, Known, NEW o \in OpIds, TaskStep(o) PROVE Known'
<1> SUFFICES ASSUME NEW x \in OpIds PROVE KnownOf(x)'
    BY DEF Known
<1>1. CASE x = o
    BY <1>1, OwnKnown
<1>2. CASE x # o
  <2>1. task'[x] = task[x] /\ op'[x] = op[x] /\ KnownOf(x)
      BY <1>2, TaskAlone DEF Inv, Known
  <2>2. CASE task[x].at = "none"
      BY <2>1, <2>2 DEF KnownOf
  <2>3. CASE task[x].at # "none"
    <3>1. /\ op[x].profile \in Profiles /\ op[x].profile # op[o].profile
          /\ o \in Live /\ x \in Live /\ task[x].known \in Profile
        BY <1>2, <2>3, TaskSteps
           DEF Inv, RecordsInv, OneTaskPerProfile, Live, GoesOn, Ends, TypeInv,
               TypeOK, Operation, Task
    <3>2. profile'[op[x].profile] = profile[op[x].profile]
        BY <3>1, TaskKeepsProfiles DEF Inv
    <3>3. Selected(x, task[x].known)' = Selected(x, task[x].known)
        BY <2>1 DEF Selected
    <3>4. ASSUME NEW i \in Selected(x, task[x].known)
          PROVE  LET u == UnitOf(op[x].profile, task[x].known, i)
                 IN unit'[u] = unit[u]
      <4>1. UnitOf(op[x].profile, task[x].known, i) \in Units
          BY <3>1, SelectedTypes, UnitTypes
      <4>2. Target(o) # UnitOf(op[x].profile, task[x].known, i)
          BY <1>2, <3>1, TargetApart
      <4>3. QED
          BY <4>1, <4>2, TaskTouches DEF Inv
    <3>5. QED
        BY <2>1, <3>2, <3>3, <3>4 DEF KnownOf
  <2>4. QED
      BY <2>2, <2>3
<1>3. QED
    BY <1>1, <1>2

(* A step of a task keeps the records and the units together.               *)
LEMMA TaskKeepsStopped ==
    ASSUME MaxDiskFailures = 0, Inv, StopInv, NEW o \in OpIds, TaskStep(o)
    PROVE  StopInv'
<1> DEFINE q == op[o].profile
<1>1. q \in Profiles /\ task[o].at # "none" /\ o \in Live
    BY TaskSteps DEF Inv, TypeInv, TypeOK, Operation, GoesOn, Ends, Live
<1>2. ASSUME NEW p \in Profiles, NEW layout \in {"single", "replica"}, NEW i \in Indices,
             Up(<<p, layout, i>>)'
      PROVE  Exists(p)' /\ i \in Instances(profile'[p])
             /\ <<p, layout, i>> = UnitOf(p, profile'[p], i)
  <2>1. /\ Exists(p)' = Exists(p)
        /\ UnitOf(p, profile'[p], i) = UnitOf(p, profile[p], i)
        /\ Instances(profile'[p]) = Instances(profile[p])
      BY TaskKeepsProfiles, SamePlan DEF Inv
  <2>2. <<p, layout, i>> \in Units
      BY DEF Units
  <2>3. CASE Up(<<p, layout, i>>)
      BY <2>1, <2>3 DEF StopInv, UnitsNamed
  <2>4. CASE StartUnit(o) /\ <<p, layout, i>> = Target(o)
    <3>1. /\ Current(o) \in Instances(profile[q]) /\ Exists(q)
          /\ Target(o) = UnitOf(q, profile[q], Current(o))
        BY <2>4, StartsOwnUnit DEF StopInv
    <3>2. p = q /\ i = Current(o)
        BY <2>4, <3>1 DEF UnitOf
    <3>3. QED
        BY <2>1, <2>4, <3>1, <3>2
  <2>5. QED
      BY <1>2, <2>2, <2>3, <2>4, TaskStarts DEF Inv
<1>3. ASSUME NEW p \in Profiles, p # q, NEW i \in Instances(profile'[p])
      PROVE  /\ (Exists(p) /\ StateOf(p, i) = "stopped" /\ Up(UnitOf(p, profile[p], i)))'
                  => \E x \in Live' : op'[x].profile = p /\ i \in task'[x].started
             /\ profile'[p].state = "stopped" => StateOf(p, i)' = "stopped"
  <2>1. profile'[p] = profile[p]
      BY <1>3, TaskKeepsProfiles DEF Inv
  <2>2. StateOf(p, i)' = StateOf(p, i) /\ Exists(p)' = Exists(p)
      BY <2>1 DEF StateOf, Exists
  <2>3. ASSUME Exists(p), StateOf(p, i) = "stopped", Up(UnitOf(p, profile[p], i))'
        PROVE  \E x \in Live' : op'[x].profile = p /\ i \in task'[x].started
    <3>1. UnitOf(p, profile[p], i) \in Units /\ UnitOf(p, profile[p], i) # Target(o)
        BY <1>3, <2>1, InstanceTypes, UnitTypes
           DEF Inv, TypeInv, TypeOK, UnitOf, Target
    <3>2. Up(UnitOf(p, profile[p], i))
        BY <2>1, <2>3, <3>1, TaskStarts DEF Inv, Up
    <3>3. PICK x \in Live : op[x].profile = p /\ i \in task[x].started
        BY <2>1, <2>3, <3>2 DEF StopInv, StartedUnits
    <3>4. x # o /\ task'[x] = task[x] /\ op'[x] = op[x]
        BY <1>3, <3>3, TaskAlone DEF Live, Inv
    <3>5. QED
        BY <3>3, <3>4 DEF Live
  <2>4. QED
      BY <2>1, <2>2, <2>3 DEF StopInv, StoppedThroughout
<1>4. CASE Ends(o)
  <2>1. ASSUME NEW i \in Instances(profile'[q])
        PROVE  /\ StateOf(q, i)' = "stopped" => unit'[UnitOf(q, profile'[q], i)] = "down"
               /\ profile'[q].state = "stopped" => StateOf(q, i)' = "stopped"
    <3>1. /\ Instances(profile'[q]) = Instances(profile[q])
          /\ UnitOf(q, profile'[q], i) = UnitOf(q, profile[q], i)
        BY <1>1, TaskKeepsProfiles, SamePlan DEF Inv
    <3>2. op'[o].profile = q
        BY TaskKeepsSubject DEF Inv
    <3>3. QED
        BY <1>1, <1>4, <3>1, <3>2, EndRecords DEF StateOf
  <2>2. op'[o].profile = q
      BY TaskKeepsSubject DEF Inv
  <2>3. StartedUnits'
      BY <1>3, <2>1, <2>2 DEF StartedUnits, Up
  <2>4. StoppedThroughout'
      BY <1>3, <2>1, <2>2 DEF StoppedThroughout
  <2>5. QED
      BY <1>2, <2>3, <2>4, TaskKeepsKnown DEF StopInv, UnitsNamed
<1>5. CASE GoesOn(o)
  <2>1. /\ UNCHANGED profile /\ o \in Live' /\ op'[o].profile = q
        /\ task[o].started \subseteq task'[o].started
        /\ StartUnit(o) => Current(o) \in task'[o].started
    <3>1. UNCHANGED profile /\ o \in Live'
        BY <1>5 DEF GoesOn, Live, Inv, TypeInv, TypeOK
    <3>2. QED
        BY <1>5, <3>1, StartedKept, TaskKeepsSubject DEF Inv
  <2>2. ASSUME NEW i \in Instances(profile[q]), StateOf(q, i) = "stopped", Exists(q),
               unit'[UnitOf(q, profile[q], i)] # "down"
        PROVE  i \in task'[o].started
    <3>1. UnitOf(q, profile[q], i) \in Units
        BY <1>1, InstanceTypes, UnitTypes DEF Inv, TypeInv, TypeOK
    <3>2. CASE Up(UnitOf(q, profile[q], i))
      <4>1. PICK x \in Live : op[x].profile = q /\ i \in task[x].started
          BY <1>1, <2>2, <3>2 DEF StopInv, StartedUnits
      <4>2. x = o
          BY <1>1, <4>1 DEF Inv, RecordsInv, OneTaskPerProfile
      <4>3. QED
          BY <2>1, <4>1, <4>2
    <3>3. CASE StartUnit(o) /\ UnitOf(q, profile[q], i) = Target(o)
      <4>1. Target(o) = UnitOf(q, profile[q], Current(o))
          BY <3>3, StartsOwnUnit DEF StopInv
      <4>2. i = Current(o)
          BY <3>3, <4>1 DEF UnitOf
      <4>3. QED
          BY <2>1, <3>3, <4>2
    <3>4. QED
        BY <2>2, <3>1, <3>2, <3>3, TaskStarts DEF Inv, Up
  <2>3. StartedUnits'
      BY <1>3, <2>1, <2>2 DEF StartedUnits, Up, StateOf, Exists
  <2>4. StoppedThroughout'
      BY <2>1 DEF StopInv, StoppedThroughout, StateOf
  <2>5. QED
      BY <1>2, <2>3, <2>4, TaskKeepsKnown DEF StopInv, UnitsNamed
<1>6. QED
    BY <1>4, <1>5, TaskSteps DEF Inv

(* Steps that change neither profiles nor tasks, and start no unit.         *)
LEMMA QuietStepKeepsStopped ==
    ASSUME Inv, StopInv, UNCHANGED profile, KeepsProfilesOfTasks, TypeInv'
    PROVE  StopInv'
<1>1. \A u \in Units : Up(u)' => Up(u)
    BY DEF KeepsProfilesOfTasks, Up
<1>2. UnitsNamed'
    BY <1>1 DEF StopInv, UnitsNamed, Units, Exists
<1>3. StoppedThroughout'
    BY DEF StopInv, StoppedThroughout, StateOf
<1>4. ASSUME NEW p \in Profiles, NEW i \in Instances(profile[p]), Exists(p),
             StateOf(p, i) = "stopped", Up(UnitOf(p, profile[p], i))'
      PROVE  \E x \in Live' : op'[x].profile = p /\ i \in task'[x].started
  <2>1. UnitOf(p, profile[p], i) \in Units
      BY InstanceTypes, UnitTypes DEF Inv, TypeInv, TypeOK
  <2>2. Up(UnitOf(p, profile[p], i))
      BY <1>1, <1>4, <2>1 DEF Up
  <2>3. PICK x \in Live : op[x].profile = p /\ i \in task[x].started
      BY <1>4, <2>2 DEF StopInv, StartedUnits
  <2>4. task'[x] = task[x] /\ op'[x] = op[x]
      BY <2>3 DEF KeepsProfilesOfTasks, Live
  <2>5. QED
      BY <2>3, <2>4 DEF Live
<1>5. StartedUnits'
    BY <1>4 DEF StartedUnits, Exists, StateOf, Up
<1>6. QED
    BY <1>2, <1>3, <1>5, KnownStays DEF StopInv

(* A profile that no task is at can be edited, or come and go, while none   *)
(* of its units runs.                                                       *)
LEMMA PlanStepKeepsStopped ==
    ASSUME Inv, StopInv, NEW p \in Profiles, NEW pr \in Profile,
           profile' = [profile EXCEPT ![p] = pr], UNCHANGED <<unit, op, task>>,
           \A o \in Live : op[o].profile # p,
           \A layout \in {"single", "replica"}, i \in Indices : ~Up(<<p, layout, i>>),
           pr.state = "stopped" => \A i \in Indices : pr.inst[i] = "unset"
    PROVE  StopInv'
<1>1. profile'[p] = pr /\ \A x \in Profiles \ {p} : profile'[x] = profile[x]
    BY DEF Inv, TypeInv, TypeOK
<1>2. \A u \in Units : Up(u)' = Up(u)
    BY DEF Up
<1>3. UnitsNamed'
    BY <1>1, <1>2 DEF StopInv, UnitsNamed, Units, Exists
<1>4. StoppedThroughout'
    BY <1>1, InstanceTypes DEF StopInv, StoppedThroughout, StateOf
<1>5. StartedUnits'
  <2>1. ASSUME NEW i \in Instances(pr) PROVE ~Up(UnitOf(p, pr, i))'
    <3>1. i \in Indices
        BY InstanceTypes
    <3>2. QED
        BY <3>1 DEF UnitOf, Up
  <2>2. QED
      BY <1>1, <2>1 DEF StopInv, StartedUnits, Exists, StateOf, Up, Live
<1>6. KeepsProfilesOfTasks
  <2>1. ASSUME NEW o \in OpIds PROVE op[o].profile \in Profiles
      BY DEF Inv, TypeInv, TypeOK, Operation
  <2>2. QED
      BY <1>1, <2>1 DEF KeepsProfilesOfTasks, Live
<1>7. QED
    BY <1>3, <1>4, <1>5, <1>6, KnownStays DEF StopInv

(* An idle profile has no running unit at all.                              *)
LEMMA IdleIsDown ==
    ASSUME Inv, StopInv, NEW p \in Profiles, Idle(p) \/ ~Exists(p),
           NEW layout \in {"single", "replica"}, NEW i \in Indices
    PROVE  ~Up(<<p, layout, i>>)
<1>1. ASSUME Up(<<p, layout, i>>) PROVE FALSE
  <2>1. Exists(p) /\ i \in Instances(profile[p]) /\ <<p, layout, i>> = UnitOf(p, profile[p], i)
      BY <1>1 DEF StopInv, UnitsNamed
  <2>2. QED
      BY <1>1, <2>1 DEF Idle, UnitsOf
<1>2. QED
    BY <1>1

(* ... and no task.                                                         *)
LEMMA IdleHasNoTask ==
    ASSUME Inv, NEW p \in Profiles, Idle(p) PROVE \A o \in Live : op[o].profile # p
    BY DEF Idle, Busy, ActiveOf, Inv, RecordsInv, OneTaskPerProfile, Live

(* Without crashes, too, every step keeps all of it.                        *)
LEMMA StopNext ==
    ASSUME Careful, MaxDiskFailures = 0, MaxCrashes = 0
    PROVE  Inv /\ StopInv /\ [Next]_vars => StopInv'
<1> SUFFICES ASSUME Inv, StopInv, [Next]_vars PROVE StopInv'
    OBVIOUS
<1>0. TypeInv'
    BY TypeNext DEF Inv
<1>1. ASSUME NEW p \in Profiles, NEW n \in 1 .. MaxReplicas, CreateProfile(p, n)
      PROVE  StopInv'
  <2>1. \A o \in Live : op[o].profile # p
      BY <1>1 DEF CreateProfile, Inv, RollbackInv, RollbackOf, Live
  <2>2. QED
      BY <1>1, <2>1, IdleIsDown, ProfileTypes, PlanStepKeepsStopped
         DEF CreateProfile, Created, Unset, Inv
<1>2. ASSUME NEW p \in Profiles, NEW n \in 1 .. MaxReplicas, UpdateProfile(p, n)
      PROVE  StopInv'
  <2>1. Idle(p)
      BY <1>2 DEF UpdateProfile, MayEdit
  <2>2. Edited(p, n).inst = Unset
      BY DEF Edited, Inv, TypeInv, TypeOK, Profile
  <2>3. QED
      BY <1>2, <2>1, <2>2, IdleIsDown, IdleHasNoTask, ProfileTypes, PlanStepKeepsStopped
         DEF UpdateProfile, Unset, Inv
<1>3. ASSUME NEW p \in Profiles, NEW force \in BOOLEAN, DeleteProfile(p, force)
      PROVE  StopInv'
  <2>1. Idle(p)
      BY <1>3 DEF DeleteProfile, MayDelete
  <2>2. QED
      BY <1>3, <2>1, IdleIsDown, IdleHasNoTask, Defaults, PlanStepKeepsStopped
         DEF DeleteProfile, NoProfile
<1>4. ASSUME NEW x \in OpIds, NEW p \in Profiles, NEW kind \in Kinds,
             NEW whole \in BOOLEAN, NEW i \in Indices,
             CreateOperation(x, p, kind, whole, i)
      PROVE  StopInv'
  <2>1. KeepsProfilesOfTasks
    <3>1. UNCHANGED <<profile, unit>>
        BY <1>4 DEF CreateOperation
    <3>2. ASSUME NEW o \in OpIds, task[o].at # "none" PROVE op'[o] = op[o] /\ o # x
        BY <1>4, <3>2, CreateOperationChange
           DEF Inv, RecordsInv, OneTaskPerProfile, Live
    <3>3. QED
        BY <1>4, <3>1, <3>2, CreateOperationChange DEF KeepsProfilesOfTasks, Inv
  <2>2. QED
      BY <1>0, <1>4, <2>1, QuietStepKeepsStopped DEF CreateOperation
<1>5. ASSUME NEW x \in OpIds, CancelOperation(x) PROVE StopInv'
  <2>1. task[x].at = "none"
      BY <1>5 DEF CancelOperation, MayCancel, Inv, RecordsInv, Begun
  <2>2. KeepsProfilesOfTasks
      BY <1>5, <2>1 DEF CancelOperation, KeepsProfilesOfTasks, Inv, TypeInv, TypeOK
  <2>3. QED
      BY <1>0, <1>5, <2>2, QuietStepKeepsStopped DEF CancelOperation
<1>6. ASSUME NEW o \in OpIds, TaskStep(o) PROVE StopInv'
    BY <1>6, TaskKeepsStopped
<1>7. ASSUME NEW u \in Units, UnitFails(u) \/ AutoRestart(u) PROVE StopInv'
  <2>1. KeepsProfilesOfTasks
      BY <1>7 DEF UnitFails, AutoRestart, KeepsProfilesOfTasks, Inv, TypeInv, TypeOK
  <2>2. QED
      BY <1>0, <1>7, <2>1, QuietStepKeepsStopped DEF UnitFails, AutoRestart
<1>8. ~Restart
    BY DEF Restart, Inv, TypeInv, TypeOK
<1>9. CASE UNCHANGED vars
    BY <1>0, <1>9, QuietStepKeepsStopped DEF vars, KeepsProfilesOfTasks
<1>10. QED
    BY <1>1, <1>2, <1>3, <1>4, <1>5, <1>6, <1>7, <1>8, <1>9
       DEF Next, Crash, CrashInCreate, CrashInUpdate, CrashInDelete

(* StoppedMeansStopped: as long as profiles are edited and deleted only     *)
(* when idle, writes succeed and the process does not die, a profile that   *)
(* is recorded as stopped, and that nobody works on, has nothing running,   *)
(* in whatever order its instances were started, stopped, restarted, failed *)
(* and rolled back, singly or together.                                     *)
THEOREM StoppedMeansStoppedHolds ==
    ASSUME Careful, MaxDiskFailures = 0, MaxCrashes = 0
    PROVE  Spec => []StoppedMeansStopped
<1>1. Init => StopInv
    BY DEF Init, StopInv, UnitsNamed, StartedUnits, StoppedThroughout, Known,
           KnownOf, Up, Units, Exists, NoProfile, NoTask
<1>2. ASSUME Inv, StopInv PROVE StoppedMeansStopped
  <2>1. ASSUME NEW p \in Profiles, profile[p].state = "stopped", ~Busy(p),
               NEW i \in Instances(profile[p]), Up(UnitOf(p, profile[p], i))
        PROVE  FALSE
    <3>1. Exists(p) /\ StateOf(p, i) = "stopped"
        BY <1>2, <2>1 DEF StopInv, StoppedThroughout, Exists
    <3>2. PICK o \in Live : op[o].profile = p
        BY <1>2, <2>1, <3>1 DEF StopInv, StartedUnits
    <3>3. QED
        BY <1>2, <2>1, <3>2 DEF Inv, RecordsInv, OneTaskPerProfile, Busy, ActiveOf, Live
  <2>2. QED
      BY <2>1 DEF StoppedMeansStopped, UnitsOf
<1>3. Inv /\ StopInv /\ [Next]_vars => StopInv'
    BY StopNext
<1>4. QED
    BY <1>1, <1>2, <1>3, InvHolds, PTL DEF Spec
=============================================================================
