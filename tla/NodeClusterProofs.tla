------------------------- MODULE NodeClusterProofs -------------------------
(***************************************************************************)
(* Theorems about NodeCluster, for any number of machines, enrollments,    *)
(* lost messages and restarts: its types, that a token enrolls one worker, *)
(* that the nodes heard of are the configured workers, and that recorded   *)
(* tunnels are real.                                                       *)
(***************************************************************************)
EXTENDS NodeCluster, TLAPS

\* The key k is, or was, in a machine's configuration.
Used(k) == \E n \in Ids : paired[n] = k

\* It is, and the machine that has it now, if any, has saved a tunnel.
Real(k) == Used(k) /\ \A m \in Machines : machine[m].key = k => machine[m].tunnel

\* No machine but m has the key k.
OnlyAt(m, k) == \A n \in Machines : machine[n].key = k => n = m

\* A node id goes with one key and a key with one id.
Pairs ==
    /\ \A a, b \in Ids : paired[a] # None /\ paired[a] = paired[b] => a = b
    /\ \A n \in Ids : paired[n] # None => madeBy[paired[n]] # None

\* What a machine has been configured with is a pair, and no two have the same.
Holders ==
    \A m \in Machines : machine[m].key # None =>
        /\ machine[m].id \in Ids
        /\ paired[machine[m].id] = machine[m].key
        /\ OnlyAt(m, machine[m].key)

\* A loop goes on with a pair that no other machine gets.
Loops ==
    \A m \in Machines : loop[m].at # "off" =>
        /\ loop[m].key \in Keys /\ loop[m].id \in Ids
        /\ paired[loop[m].id] = loop[m].key
        /\ OnlyAt(m, loop[m].key)
        /\ loop[m].tunnel => Real(loop[m].key)

HasKey(e) == enroll[e].at \in {"answered", "tunnel", "report"}

\* A key is answered to one enrollment, and used from the moment it is saved.
Enrolling ==
    \A e \in Enrollments :
        /\ enroll[e].at # "idle" => enroll[e].machine \in Machines
        /\ enroll[e].at = "asked" => enroll[e].token \in Tokens
        /\ HasKey(e) => enroll[e].key \in Keys /\ madeBy[enroll[e].key] # None
        /\ enroll[e].at = "answered" =>
             /\ ~Used(enroll[e].key)
             /\ \A f \in Enrollments : HasKey(f) /\ enroll[f].key = enroll[e].key => f = e
        /\ enroll[e].at \in {"tunnel", "report"} =>
             Used(enroll[e].key) /\ OnlyAt(enroll[e].machine, enroll[e].key)
        /\ enroll[e].at = "report" => Real(enroll[e].key)

\* A request, however late, carries a pair.
Travelling ==
    \A r \in net : paired[r.id] = r.key /\ (r.tunnel => Real(r.key))

\* A node is that of the entry its id is paired with.
NodesPaired ==
    \A n \in Ids : nodes[n] # None =>
        /\ paired[n] = nodes[n].entry
        /\ workers[nodes[n].entry] # None
        /\ realId[nodes[n].entry] = n

\* A token that has given a key is gone, and the master knows the key.
TokensSpent ==
    /\ \A k \in Keys : madeBy[k] \in Tokens =>
         /\ token[madeBy[k]] = "gone"
         /\ workers[k] # None \/ k \in removed
    /\ \A j, k \in Keys : madeBy[j] \in Tokens /\ madeBy[j] = madeBy[k] => j = k

Installing ==
    /\ setup.at # "idle" => setup.entry \in Keys
    /\ setup.at = "install" => Real(setup.entry)

Recorded == \A k \in Keys : workers[k] # None /\ workers[k].tunnel => Real(k)

Inv ==
    /\ TypeOK /\ Pairs /\ Holders /\ Loops /\ Enrolling /\ Travelling
    /\ NodesPaired /\ TokensSpent /\ Recorded /\ Installing

-----------------------------------------------------------------------------
(* Types.                                                                  *)

\* None is no key, id, token or machine.
LEMMA NoneApart ==
    /\ None \notin Keys /\ None \notin Ids /\ None \notin Tokens /\ None \notin Machines
    /\ Tokens \cap Machines = {}
  BY ClusterAssumption

\* Records at the start, and of a worker that is added.
LEMMA RecordTypes ==
    /\ Blank \in MachineRecords
    /\ NoEnrollment \in EnrollmentRecords
    /\ NoSetup \in SetupRecords
    /\ \A m \in Machines : Worker(m) \in WorkerRecords /\ Worker(m) # None
<1>1. Blank \in MachineRecords
  BY DEF Blank, MachineRecords
<1>2. NoEnrollment \in EnrollmentRecords
  BY DEF NoEnrollment, EnrollmentRecords
<1>3. NoSetup \in SetupRecords
  BY DEF NoSetup, SetupRecords
<1>4. ASSUME NEW m \in Machines PROVE Worker(m) \in WorkerRecords
  BY DEF Worker, WorkerRecords
<1>5. QED
  BY <1>1, <1>2, <1>3, <1>4, NoneAssumption

LoopRecords ==
    [at : LoopPlaces, key : Keys \cup {None}, id : Ids \cup {None}, tunnel : BOOLEAN]

\* A loop that goes on keeps what it has read.
LEMMA GotoType ==
    ASSUME TypeOK, NEW m \in Machines, NEW at \in LoopPlaces
    PROVE  Goto(m, at) \in [Machines -> LoopRecords]
  BY DEF TypeOK, Goto, LoopRecords

\* Every answer has a place where the loop goes on.
LEMMA AfterType == \A at, status : After(at, status) \in {"register", "beat", "again"}
  BY DEF After

\* A request is answered, in time or not.
LEMMA AnswerType ==
    ASSUME TypeOK, NEW r \in net, NEW status, Answer(r, status)
    PROVE  loop' \in [Machines -> LoopRecords] /\ lost' \in 0..limits.lost
<1>1. r.from \in Machines
  BY DEF TypeOK, Requests
<1>2. \A st : Answered(r, st) \in [Machines -> LoopRecords]
  <2> TAKE st
  <2>1. After(loop[r.from].at, st) \in LoopPlaces
    BY AfterType DEF LoopPlaces
  <2>2. CASE WaitsFor(r)
    BY <1>1, <2>1, <2>2, GotoType DEF Answered
  <2>3. CASE ~WaitsFor(r)
    BY <2>3 DEF Answered, TypeOK, LoopRecords
  <2>4. QED
    BY <2>2, <2>3
<1>3. loop' \in [Machines -> LoopRecords]
  BY <1>2 DEF Answer
<1>4. limits.lost \in Nat /\ lost \in 0..limits.lost
  BY ClusterAssumption DEF TypeOK
<1>5. lost' \in 0..limits.lost
  BY <1>4 DEF Answer
<1>6. QED
  BY <1>3, <1>5

\* A worker's entry is given a tunnel.
LEMMA WithTunnelType ==
    ASSUME TypeOK, NEW k \in Keys
    PROVE  /\ WithTunnel(k) \in [Keys -> WorkerRecords \cup {None}]
           /\ \A j \in Keys : workers[j] = None <=> WithTunnel(k)[j] = None
<1>1. CASE Known(k)
  <2>1. workers[k] \in WorkerRecords
    BY <1>1 DEF Known, TypeOK
  <2>2. [workers[k] EXCEPT !.tunnel = TRUE] \in WorkerRecords
    BY <2>1 DEF WorkerRecords
  <2>3. WithTunnel(k) = [workers EXCEPT ![k] = [workers[k] EXCEPT !.tunnel = TRUE]]
    BY <1>1 DEF WithTunnel, TypeOK
  <2>4. QED
    BY <1>1, <2>2, <2>3, NoneAssumption, ZenonT(120) DEF TypeOK, Known
<1>2. CASE ~Known(k)
  BY <1>2 DEF WithTunnel, TypeOK
<1>3. QED
  BY <1>1, <1>2

\* Steps of enrollments keep the types.
LEMMA EnrollmentTypes ==
    ASSUME Inv,
           \/ \E t \in Tokens : CreateToken(t) \/ DropToken(t)
           \/ \E e \in Enrollments :
                \/ \E m \in Machines, t \in Tokens, skip \in BOOLEAN : BeginEnroll(e, m, t, skip)
                \/ \E answered \in BOOLEAN : MasterEnrolls(e, answered)
                \/ \E m \in Machines, skip \in BOOLEAN : InitWorker(e, m, skip)
                \/ EnrollFails(e) \/ SaveEnrolled(e) \/ EnrolledTunnel(e) \/ ReportTunnel(e)
    PROVE  TypeOK'
<1> USE NoneApart, RecordTypes
<1>0. TypeOK
  BY DEF Inv
<1>1. ASSUME NEW t \in Tokens, CreateToken(t) \/ DropToken(t) PROVE TypeOK'
  BY <1>0, <1>1 DEF CreateToken, DropToken, TypeOK, heard, history
<1>2. ASSUME NEW e \in Enrollments, NEW m \in Machines, NEW t \in Tokens, NEW skip \in BOOLEAN,
             BeginEnroll(e, m, t, skip)
      PROVE  TypeOK'
  <2>1. enroll' \in [Enrollments -> EnrollmentRecords]
    BY <1>0, <1>2 DEF BeginEnroll, TypeOK, EnrollmentRecords
  <2>2. QED
    BY <1>0, <1>2, <2>1 DEF BeginEnroll, TypeOK, heard, history
<1>3. ASSUME NEW e \in Enrollments, NEW answered \in BOOLEAN, MasterEnrolls(e, answered)
      PROVE  TypeOK'
  <2>1. enroll[e] \in EnrollmentRecords /\ enroll[e].machine \in Machines /\ enroll[e].token \in Tokens
    BY <1>0, <1>3 DEF MasterEnrolls, TypeOK, Inv, Enrolling
  <2>2. PICK k \in Keys :
          /\ token' = Consumed(enroll[e].token)
          /\ madeBy' = [madeBy EXCEPT ![k] = enroll[e].token]
          /\ workers' = [workers EXCEPT ![k] = Worker(enroll[e].machine)]
          /\ enroll' = [enroll EXCEPT ![e] =
                IF answered THEN [@ EXCEPT !.at = "answered", !.key = k] ELSE NoEnrollment]
    BY <1>3 DEF MasterEnrolls
  <2>3. enroll' \in [Enrollments -> EnrollmentRecords]
    <3>1. [enroll[e] EXCEPT !.at = "answered", !.key = k] \in EnrollmentRecords
      BY <2>1 DEF EnrollmentRecords
    <3>2. QED
      BY <1>0, <2>2, <3>1 DEF TypeOK
  <2>4. token' \in [Tokens -> {"unmade", "live", "gone"}]
    BY <1>0, <2>1, <2>2 DEF Consumed, TypeOK
  <2>5. workers' \in [Keys -> WorkerRecords \cup {None}]
    BY <1>0, <2>1, <2>2 DEF TypeOK
  <2>6. madeBy' \in [Keys -> Tokens \cup Machines \cup {None}]
    BY <1>0, <2>1, <2>2 DEF TypeOK
  <2>7. limits.lost \in Nat /\ lost' \in 0..limits.lost
    <3>1. limits.lost \in Nat /\ lost \in 0..limits.lost
      BY <1>0, ClusterAssumption DEF TypeOK
    <3>2. CASE answered
      BY <1>3, <3>1, <3>2 DEF MasterEnrolls
    <3>3. CASE ~answered
      <4>1. lost' = lost + 1 /\ lost < limits.lost /\ limits' = limits
        BY <1>3, <3>3 DEF MasterEnrolls
      <4>2. QED
        BY <3>1, <4>1
    <3>4. QED
      BY <3>2, <3>3
  <2>8. QED
    BY <1>0, <1>3, <2>3, <2>4, <2>5, <2>6, <2>7 DEF MasterEnrolls, TypeOK, heard
<1>4. ASSUME NEW e \in Enrollments, NEW m \in Machines, NEW skip \in BOOLEAN,
             InitWorker(e, m, skip)
      PROVE  TypeOK'
  <2>1. PICK k \in Keys, n \in Ids :
          /\ machine' = Configured(m, k, n)
          /\ madeBy' = [madeBy EXCEPT ![k] = m]
          /\ paired' = [paired EXCEPT ![n] = k]
          /\ enroll' = IF skip THEN enroll
                       ELSE [enroll EXCEPT ![e] = [NoEnrollment EXCEPT
                               !.at = "tunnel", !.machine = m, !.key = k]]
    BY <1>4 DEF InitWorker
  <2>2. enroll' \in [Enrollments -> EnrollmentRecords]
    <3>1. [NoEnrollment EXCEPT !.at = "tunnel", !.machine = m, !.key = k] \in EnrollmentRecords
      BY DEF NoEnrollment, EnrollmentRecords
    <3>2. QED
      BY <1>0, <2>1, <3>1 DEF TypeOK
  <2>3. machine' \in [Machines -> MachineRecords]
    BY <1>0, <2>1, ZenonT(120) DEF Configured, TypeOK, MachineRecords
  <2>4. QED
    BY <1>0, <1>4, <2>1, <2>2, <2>3 DEF InitWorker, TypeOK, heard
<1>5. ASSUME NEW e \in Enrollments, EnrollFails(e) PROVE TypeOK'
  <2>1. limits.lost \in Nat /\ lost' \in 0..limits.lost
    BY <1>0, <1>5, ClusterAssumption DEF EnrollFails, TypeOK
  <2>2. QED
    BY <1>0, <1>5, <2>1 DEF EnrollFails, TypeOK, heard, history
<1>6. ASSUME NEW e \in Enrollments, SaveEnrolled(e) PROVE TypeOK'
  <2>1. enroll[e] \in EnrollmentRecords /\ enroll[e].machine \in Machines /\ enroll[e].key \in Keys
    BY <1>0, <1>6 DEF SaveEnrolled, TypeOK, Inv, Enrolling, HasKey
  <2>2. PICK n \in Ids :
          /\ machine' = Configured(enroll[e].machine, enroll[e].key, n)
          /\ paired' = [paired EXCEPT ![n] = enroll[e].key]
    BY <1>6 DEF SaveEnrolled
  <2>3. machine' \in [Machines -> MachineRecords]
    BY <1>0, <2>1, <2>2 DEF Configured, TypeOK, MachineRecords
  <2>4. enroll' \in [Enrollments -> EnrollmentRecords]
    <3>1. [enroll[e] EXCEPT !.at = "tunnel"] \in EnrollmentRecords
      BY <2>1 DEF EnrollmentRecords
    <3>2. QED
      BY <1>0, <1>6, <3>1 DEF SaveEnrolled, TypeOK
  <2>5. QED
    BY <1>0, <1>6, <2>1, <2>2, <2>3, <2>4 DEF SaveEnrolled, TypeOK, heard
<1>7. ASSUME NEW e \in Enrollments, EnrolledTunnel(e) PROVE TypeOK'
  <2>1. enroll[e] \in EnrollmentRecords /\ enroll[e].machine \in Machines
    BY <1>0, <1>7 DEF EnrolledTunnel, TypeOK, Inv, Enrolling
  <2>2. machine' \in [Machines -> MachineRecords]
    <3>1. [machine[enroll[e].machine] EXCEPT !.tunnel = TRUE] \in MachineRecords
      BY <1>0, <2>1 DEF TypeOK, MachineRecords
    <3>2. QED
      BY <1>0, <1>7, <2>1, <3>1 DEF EnrolledTunnel, TypeOK
  <2>3. enroll' \in [Enrollments -> EnrollmentRecords]
    <3>1. [enroll[e] EXCEPT !.at = "report"] \in EnrollmentRecords
      BY <2>1 DEF EnrollmentRecords
    <3>2. QED
      BY <1>0, <1>7, <3>1 DEF EnrolledTunnel, TypeOK
  <2>4. QED
    BY <1>0, <1>7, <2>2, <2>3 DEF EnrolledTunnel, TypeOK, heard, history
<1>8. ASSUME NEW e \in Enrollments, ReportTunnel(e) PROVE TypeOK'
  <2>1. enroll[e].key \in Keys
    BY <1>8 DEF ReportTunnel, Inv, Enrolling, HasKey
  <2>2. workers' \in [Keys -> WorkerRecords \cup {None}]
    BY <1>0, <1>8, <2>1, WithTunnelType DEF ReportTunnel, TypeOK
  <2>3. QED
    BY <1>0, <1>8, <2>2 DEF ReportTunnel, TypeOK, heard, history
<1>9. QED
  BY <1>1, <1>2, <1>3, <1>4, <1>5, <1>6, <1>7, <1>8

\* Steps of the operator and of processes that restart keep the types.
LEMMA OperatorTypes ==
    ASSUME Inv,
           \/ \E m \in Machines : AddWorker(m) \/ ResetMachine(m) \/ RestartMachine(m)
           \/ \E k \in Keys : RemoveWorker(k)
           \/ RestartMaster
    PROVE  TypeOK'
<1> USE NoneApart, RecordTypes
<1>0. TypeOK
  BY DEF Inv
<1>1. ASSUME NEW m \in Machines, AddWorker(m) PROVE TypeOK'
  <2>1. machine[m].key \in Keys
    BY <1>0, <1>1 DEF AddWorker, TypeOK, MachineRecords
  <2>2. workers' \in [Keys -> WorkerRecords \cup {None}] /\ removed' \subseteq Keys
    BY <1>0, <1>1, <2>1 DEF AddWorker, TypeOK
  <2>3. QED
    BY <1>0, <1>1, <2>2 DEF AddWorker, TypeOK, heard
<1>2. ASSUME NEW m \in Machines, ResetMachine(m) PROVE TypeOK'
  <2>1. machine' \in [Machines -> MachineRecords]
    BY <1>0, <1>2, ZenonT(120) DEF ResetMachine, TypeOK, MachineRecords
  <2>2. QED
    BY <1>0, <1>2, <2>1 DEF ResetMachine, TypeOK, heard, history
<1>3. ASSUME NEW m \in Machines, RestartMachine(m) PROVE TypeOK'
  <2>1. Booted(m) \in LoopRecords
    BY <1>0 DEF Booted, Off, TypeOK, MachineRecords, LoopRecords, LoopPlaces
  <2>2. loop' \in [Machines -> LoopRecords]
    BY <1>0, <1>3, <2>1 DEF RestartMachine, TypeOK, LoopRecords
  <2>3. enroll' \in [Enrollments -> EnrollmentRecords] /\ setup' \in SetupRecords
    BY <1>0, <1>3 DEF RestartMachine, TypeOK
  <2>4. QED
    BY <1>0, <1>3, <2>2, <2>3 DEF RestartMachine, TypeOK, LoopRecords, heard, history
<1>4. ASSUME NEW k \in Keys, RemoveWorker(k) PROVE TypeOK'
  <2>1. nodes' \in [Ids -> NodeRecords \cup {None}]
    BY <1>0, <1>4 DEF RemoveWorker, Unregistered, TypeOK
  <2>2. workers' \in [Keys -> WorkerRecords \cup {None}] /\ realId' \in [Keys -> Ids \cup {None}]
    BY <1>0, <1>4 DEF RemoveWorker, TypeOK
  <2>3. QED
    BY <1>0, <1>4, <2>1, <2>2 DEF RemoveWorker, TypeOK
<1>5. CASE RestartMaster
  <2>1. limits.crashes \in Nat /\ crashes' \in 0..limits.crashes
    BY <1>0, <1>5, ClusterAssumption DEF RestartMaster, TypeOK
  <2>2. QED
    BY <1>0, <1>5, <2>1 DEF RestartMaster, TypeOK, history
<1>6. QED
  BY <1>1, <1>2, <1>3, <1>4, <1>5

\* Steps of the loops, and requests on their way, keep the types.
LEMMA LoopTypes ==
    ASSUME Inv,
           \/ \E m \in Machines : LoopStep(m) \/ TimesOut(m)
           \/ \E r \in net : Handle(r)
    PROVE  TypeOK'
<1> USE NoneApart, RecordTypes
<1>0. TypeOK
  BY DEF Inv
<1>1. ASSUME NEW m \in Machines, SendRegister(m) PROVE TypeOK'
  <2>1. loop[m].key \in Keys /\ loop[m].id \in Ids
    BY <1>1 DEF SendRegister, Inv, Loops
  <2>2. Request("register", m) \in Requests
    BY <1>0, <2>1 DEF Request, Requests, TypeOK
  <2>3. loop' \in [Machines -> LoopRecords]
    BY <1>0, <1>1, GotoType DEF SendRegister, LoopPlaces
  <2>4. QED
    BY <1>0, <1>1, <2>2, <2>3 DEF SendRegister, TypeOK, LoopRecords, heard, history
<1>2. ASSUME NEW m \in Machines, SendBeat(m) PROVE TypeOK'
  <2>1. loop[m].key \in Keys /\ loop[m].id \in Ids /\ loop[m] \in LoopRecords
    BY <1>0, <1>2 DEF SendBeat, Inv, Loops, TypeOK, LoopRecords
  <2>2. CurrentTunnel(m) \in BOOLEAN
    BY <1>0, <2>1 DEF CurrentTunnel, TypeOK, MachineRecords, LoopRecords
  <2>3. [Request("beat", m) EXCEPT !.tunnel = CurrentTunnel(m)] \in Requests
    BY <2>1, <2>2 DEF Request, Requests, LoopRecords
  <2> DEFINE n == [loop[m] EXCEPT !.at = "beating", !.tunnel = (@ \/ CurrentTunnel(m))]
  <2>4. n \in LoopRecords
    <3>1. (loop[m].tunnel \/ CurrentTunnel(m)) \in BOOLEAN
      OBVIOUS
    <3> HIDE DEF LoopRecords
    <3>2. n = [loop[m] EXCEPT !.at = "beating", !.tunnel = (loop[m].tunnel \/ CurrentTunnel(m))]
      BY <2>1 DEF LoopRecords
    <3>3. QED
      BY <2>1, <3>1, <3>2 DEF LoopRecords, LoopPlaces
  <2>5. loop' = [loop EXCEPT ![m] = n]
    BY <1>0, <1>2 DEF SendBeat, TypeOK
  <2>6. loop' \in [Machines -> LoopRecords]
    BY <1>0, <2>4, <2>5 DEF TypeOK, LoopRecords
  <2>7. QED
    BY <1>0, <1>2, <2>3, <2>6 DEF SendBeat, TypeOK, LoopRecords, heard, history
<1>3. ASSUME NEW m \in Machines, TimesOut(m) PROVE TypeOK'
  <2>1. After(loop[m].at, 0) \in LoopPlaces
    BY AfterType DEF LoopPlaces
  <2>2. loop' \in [Machines -> LoopRecords]
    BY <1>0, <1>3, <2>1, GotoType DEF TimesOut
  <2>3. limits.lost \in Nat /\ lost' \in 0..limits.lost
    BY <1>0, <1>3, ClusterAssumption DEF TimesOut, TypeOK
  <2>4. net' \subseteq Requests
    BY <1>0, <1>3 DEF TimesOut, TypeOK
  <2>5. QED
    BY <1>0, <1>3, <2>2, <2>3, <2>4 DEF TimesOut, TypeOK, LoopRecords, heard, history
<1>4. ASSUME NEW r \in net, HandleRegister(r) \/ HandleBeat(r) PROVE TypeOK'
  <2>1. r.key \in Keys /\ r.id \in Ids /\ r.from \in Machines
    BY <1>0 DEF TypeOK, Requests
  <2>2. Heard(r) \in NodeRecords
    BY <2>1 DEF Heard, NodeRecords
  <2>3. nodes' \in [Ids -> NodeRecords \cup {None}] /\ realId' \in [Keys -> Ids \cup {None}]
    BY <1>0, <1>4, <2>1, <2>2 DEF HandleRegister, HandleBeat, TypeOK, heard
  <2>4. workers' \in [Keys -> WorkerRecords \cup {None}]
    BY <1>0, <1>4, <2>1, WithTunnelType DEF HandleRegister, HandleBeat, TypeOK, Tunneled
  <2>5. loop' \in [Machines -> LoopRecords] /\ lost' \in 0..limits.lost
    BY <1>0, <1>4, AnswerType DEF HandleRegister, HandleBeat
  <2>6. net' \subseteq Requests
    BY <1>0, <1>4 DEF HandleRegister, HandleBeat, TypeOK
  <2>7. QED
    BY <1>0, <1>4, <2>3, <2>4, <2>5, <2>6 DEF HandleRegister, HandleBeat, TypeOK, LoopRecords, history
<1>5. QED
  BY <1>1, <1>2, <1>3, <1>4 DEF LoopStep, Handle

\* Silence, and the setup of tunnels, keep the types.
LEMMA MasterTypes ==
    ASSUME Inv,
           \/ \E n \in Ids : Silence(n)
           \/ CheckStaleNodes
           \/ \E k \in Keys : BeginSetup(k)
           \/ ReceiveToken \/ SetupFails \/ MarkSetUp
    PROVE  TypeOK'
<1> USE NoneApart, RecordTypes
<1>0. TypeOK
  BY DEF Inv
<1>1. ASSUME NEW n \in Ids, Silence(n) PROVE TypeOK'
  <2>1. nodes[n] \in NodeRecords
    BY <1>0, <1>1 DEF Silence, TypeOK
  <2>2. nodes' \in [Ids -> NodeRecords \cup {None}]
    BY <1>0, <1>1, <2>1 DEF Silence, TypeOK, NodeRecords
  <2>3. QED
    BY <1>0, <1>1, <2>2 DEF Silence, TypeOK, history
<1>2. CASE CheckStaleNodes
  <2>1. nodes' \in [Ids -> NodeRecords \cup {None}]
    <3>1. ASSUME NEW n \in Ids, Stale(nodes[n])
          PROVE  [nodes[n] EXCEPT !.online = FALSE] \in NodeRecords
      <4>1. nodes[n] \in NodeRecords
        BY <1>0, <3>1 DEF Stale, TypeOK
      <4>2. QED
        BY <4>1 DEF NodeRecords
    <3>2. QED
      BY <1>0, <1>2, <3>1 DEF CheckStaleNodes, TypeOK
  <2>2. QED
    BY <1>0, <1>2, <2>1 DEF CheckStaleNodes, TypeOK, history
<1>3. ASSUME NEW k \in Keys, BeginSetup(k) PROVE TypeOK'
  <2>1. setup' \in SetupRecords
    BY <1>3 DEF BeginSetup, SetupRecords
  <2>2. QED
    BY <1>0, <1>3, <2>1 DEF BeginSetup, TypeOK, heard, history
<1>4. CASE ReceiveToken
  <2> DEFINE k == setup.entry
             m == IF workers[k] = None THEN None ELSE workers[k].address
             accepted == m # None /\ machine[m].key = k
  <2>1. k \in Keys
    BY <1>4 DEF ReceiveToken, Inv, Installing
  <2>2. accepted => m \in Machines
    BY <1>0, <2>1 DEF TypeOK, WorkerRecords
  <2>3. machine' \in [Machines -> MachineRecords]
    <3>1. CASE accepted
      <4>1. machine' = [machine EXCEPT ![m].tunnel = TRUE]
        BY <1>4, <3>1 DEF ReceiveToken
      <4>2. [machine[m] EXCEPT !.tunnel = TRUE] \in MachineRecords
        BY <1>0, <2>2, <3>1 DEF TypeOK, MachineRecords
      <4>3. QED
        BY <1>0, <2>2, <3>1, <4>1, <4>2 DEF TypeOK
    <3>2. CASE ~accepted
      BY <1>0, <1>4, <3>2 DEF ReceiveToken, TypeOK
    <3>3. QED
      BY <3>1, <3>2
  <2>4. setup' \in SetupRecords
    BY <1>0, <1>4, <2>1 DEF ReceiveToken, AfterPush, TypeOK, SetupRecords
  <2>5. QED
    BY <1>0, <1>4, <2>3, <2>4 DEF ReceiveToken, TypeOK, heard, history
<1>5. CASE SetupFails
  BY <1>0, <1>5 DEF SetupFails, TypeOK, heard, history
<1>6. CASE MarkSetUp
  <2>1. setup.entry \in Keys
    BY <1>6 DEF MarkSetUp, Inv, Installing
  <2>2. workers' \in [Keys -> WorkerRecords \cup {None}]
    BY <1>0, <1>6, <2>1, WithTunnelType DEF MarkSetUp
  <2>3. QED
    BY <1>0, <1>6, <2>2 DEF MarkSetUp, TypeOK, heard, history
<1>7. QED
  BY <1>1, <1>2, <1>3, <1>4, <1>5, <1>6

-----------------------------------------------------------------------------
(* What stays true of keys.                                                *)

\* A step that configures no machine anew: pairs stay as they are, and machines lose
\* their configuration or save a tunnel at most.
Quiet ==
    /\ paired' = paired
    /\ \A k \in Keys : madeBy[k] # None => madeBy'[k] = madeBy[k]
    /\ \A m \in Machines : machine'[m].key # None =>
         /\ machine'[m].key = machine[m].key /\ machine'[m].id = machine[m].id
         /\ machine[m].tunnel => machine'[m].tunnel

\* Nothing happens to the configurations.
LEMMA QuietWhenUnchanged == UNCHANGED <<machine, paired, madeBy>> => Quiet
  BY DEF Quiet

\* A quiet step takes nothing back of what is known of a key.
LEMMA QuietKeeps ==
    ASSUME Quiet, NEW k \in Keys
    PROVE  /\ Used(k)' <=> Used(k)
           /\ Real(k) => Real(k)'
           /\ \A m : OnlyAt(m, k) => OnlyAt(m, k)'
<1>1. Used(k)' <=> Used(k)
  BY DEF Quiet, Used
<1>2. \A m : OnlyAt(m, k) => OnlyAt(m, k)'
  BY NoneApart DEF Quiet, OnlyAt
<1>3. Real(k) => Real(k)'
  BY <1>1, NoneApart DEF Quiet, Real
<1>4. QED
  BY <1>1, <1>2, <1>3

\* So the parts of the invariant hold after it whose other variables are the same.
LEMMA QuietFrame ==
    ASSUME Inv, Quiet
    PROVE  /\ Pairs' /\ Holders'
           /\ loop' = loop => Loops'
           /\ enroll' = enroll => Enrolling'
           /\ net' \subseteq net => Travelling'
           /\ setup' = setup => Installing'
           /\ workers' = workers => Recorded'
           /\ UNCHANGED <<nodes, workers, realId>> => NodesPaired'
           /\ UNCHANGED <<token, madeBy, workers, removed>> => TokensSpent'
<1>1. Pairs'
  <2>1. \A n \in Ids : paired[n] # None => paired[n] \in Keys
    BY DEF Inv, TypeOK
  <2>2. QED
    BY <2>1, NoneApart DEF Quiet, Inv, Pairs
<1>2. Holders'
  <2>1. \A m \in Machines : machine[m].key # None => machine[m].key \in Keys
    BY DEF Inv, TypeOK, MachineRecords
  <2>2. QED
    BY <2>1, QuietKeeps DEF Quiet, Inv, Holders
<1>3. loop' = loop => Loops'
  BY QuietKeeps DEF Quiet, Inv, Loops
<1>4. enroll' = enroll => Enrolling'
  <2> SUFFICES ASSUME enroll' = enroll PROVE Enrolling'
    OBVIOUS
  <2>1. \A e \in Enrollments : HasKey(e)' <=> HasKey(e)
    BY DEF HasKey
  <2>2. \A e \in Enrollments : enroll[e].at \in {"answered", "tunnel", "report"} =>
          enroll[e].key \in Keys /\ madeBy[enroll[e].key] # None
    BY DEF Inv, Enrolling, HasKey
  <2>3. QED
    BY <2>1, <2>2, QuietKeeps, NoneApart DEF Quiet, Inv, Enrolling
<1>5. net' \subseteq net => Travelling'
  <2>1. \A r \in net : r.key \in Keys
    BY DEF Inv, TypeOK, Requests
  <2>2. QED
    BY <2>1, QuietKeeps DEF Quiet, Inv, Travelling
<1>6. setup' = setup => Installing'
  BY QuietKeeps DEF Inv, Installing
<1>7. workers' = workers => Recorded'
  BY QuietKeeps DEF Inv, Recorded
<1>8. UNCHANGED <<nodes, workers, realId>> => NodesPaired'
  BY DEF Quiet, Inv, NodesPaired
<1>9. UNCHANGED <<token, madeBy, workers, removed>> => TokensSpent'
  BY DEF Inv, TokensSpent
<1>10. QED
  BY <1>1, <1>2, <1>3, <1>4, <1>5, <1>6, <1>7, <1>8, <1>9

\* A tunnel is recorded for a key whose machine has one.
LEMMA TunnelRecorded ==
    ASSUME Inv, Quiet, NEW k \in Keys, Real(k), workers' = WithTunnel(k)
    PROVE  /\ Recorded'
           /\ UNCHANGED <<nodes, realId>> => NodesPaired'
           /\ UNCHANGED <<token, madeBy, removed>> => TokensSpent'
<1>0. TypeOK
  BY DEF Inv
<1>1. \A j \in Keys : workers[j] = None <=> workers'[j] = None
  BY <1>0, WithTunnelType
<1>2. \A j \in Keys : j # k => workers'[j] = workers[j]
  BY DEF WithTunnel, Inv, TypeOK
<1>3. Recorded'
  <2>1. \A j \in Keys : Real(j) => Real(j)'
    BY QuietKeeps
  <2>2. QED
    BY <1>1, <1>2, <2>1 DEF Inv, Recorded
<1>4. UNCHANGED <<nodes, realId>> => NodesPaired'
  <2>1. \A n \in Ids : nodes[n] # None => nodes[n].entry \in Keys
    BY <1>0 DEF TypeOK, NodeRecords
  <2>2. QED
    BY <1>1, <2>1 DEF Quiet, Inv, NodesPaired
<1>5. UNCHANGED <<token, madeBy, removed>> => TokensSpent'
  BY <1>1 DEF Inv, TokensSpent
<1>6. QED
  BY <1>3, <1>4, <1>5

-----------------------------------------------------------------------------
(* The steps of enrollments.                                               *)

\* Enrollments that end are forgotten, the others go on.
LEMMA EnrollEnds ==
    ASSUME Inv, Quiet, \A e \in Enrollments : enroll'[e] \in {enroll[e], NoEnrollment}
    PROVE  Enrolling'
<1>1. \A e \in Enrollments : HasKey(e)' => HasKey(e) /\ enroll'[e] = enroll[e]
  BY DEF HasKey, NoEnrollment
<1>2. \A e \in Enrollments : enroll'[e].at # "idle" => enroll'[e] = enroll[e]
  BY DEF NoEnrollment
<1>3. \A e \in Enrollments : enroll[e].at \in {"answered", "tunnel", "report"} =>
        enroll[e].key \in Keys /\ madeBy[enroll[e].key] # None
  BY DEF Inv, Enrolling, HasKey
<1>4. QED
  BY <1>1, <1>2, <1>3, QuietKeeps, NoneApart DEF Quiet, Inv, Enrolling

\* Tokens are made and dropped; a token that has given a key is never good again.
LEMMA TokenKept ==
    ASSUME Inv, NEW t \in Tokens, CreateToken(t) \/ DropToken(t)
    PROVE  Inv'
<1>1. Quiet
  BY QuietWhenUnchanged DEF CreateToken, DropToken, history
<1>2. TokensSpent'
  BY DEF CreateToken, DropToken, history, Inv, TypeOK, TokensSpent
<1>3. TypeOK'
  BY EnrollmentTypes
<1>4. QED
  BY <1>1, <1>2, <1>3, QuietFrame DEF CreateToken, DropToken, Inv, heard, history

\* A machine asks for its enrollment.
LEMMA BeginEnrollKept ==
    ASSUME Inv, NEW e \in Enrollments, NEW m \in Machines, NEW t \in Tokens,
           NEW skip \in BOOLEAN, BeginEnroll(e, m, t, skip)
    PROVE  Inv'
<1>1. Quiet
  BY QuietWhenUnchanged DEF BeginEnroll, history
<1> DEFINE q == [at |-> "asked", machine |-> m, token |-> t, key |-> None, skip |-> skip]
<1>2. /\ enroll'[e] = q
      /\ \A f \in Enrollments : f # e => enroll'[f] = enroll[f]
  BY DEF BeginEnroll, Inv, TypeOK
<1>3. Enrolling'
  <2>1. q.at = "asked" /\ q.machine = m /\ q.token = t
    OBVIOUS
  <2> HIDE DEF q
  <2>2. \A f \in Enrollments : HasKey(f)' => HasKey(f) /\ f # e /\ enroll'[f] = enroll[f]
    BY <1>2, <2>1 DEF HasKey
  <2>3. \A f \in Enrollments : enroll[f].at \in {"answered", "tunnel", "report"} =>
          enroll[f].key \in Keys /\ madeBy[enroll[f].key] # None
    BY DEF Inv, Enrolling, HasKey
  <2>4. QED
    BY <1>1, <1>2, <2>1, <2>2, <2>3, QuietKeeps, NoneApart DEF Quiet, Inv, Enrolling
<1>4. TypeOK'
  BY EnrollmentTypes
<1>5. QED
  BY <1>1, <1>3, <1>4, QuietFrame DEF BeginEnroll, Inv, heard, history

\* The master gives a key to a token, and notes the worker.
LEMMA MasterEnrollsKept ==
    ASSUME Inv, NEW e \in Enrollments, NEW answered \in BOOLEAN, MasterEnrolls(e, answered)
    PROVE  Inv'
<1> DEFINE m == enroll[e].machine  t == enroll[e].token
<1>1. TypeOK /\ m \in Machines /\ t \in Tokens /\ token[t] = "live" /\ enroll[e].at = "asked"
  BY DEF MasterEnrolls, Inv, Enrolling
<1>2. PICK k \in Keys :
        /\ madeBy[k] = None
        /\ token' = Consumed(t)
        /\ madeBy' = [madeBy EXCEPT ![k] = t]
        /\ workers' = [workers EXCEPT ![k] = Worker(m)]
        /\ enroll' = [enroll EXCEPT ![e] =
              IF answered THEN [@ EXCEPT !.at = "answered", !.key = k] ELSE NoEnrollment]
  BY DEF MasterEnrolls, IsNext
<1>3. Quiet
  BY <1>1, <1>2 DEF Quiet, MasterEnrolls, TypeOK
<1>4. madeBy'[k] = t /\ \A j \in Keys : j # k => madeBy'[j] = madeBy[j]
  BY <1>1, <1>2 DEF TypeOK
<1>5. /\ workers'[k] = Worker(m) /\ workers'[k] # None /\ ~workers'[k].tunnel
      /\ \A j \in Keys : j # k => workers'[j] = workers[j]
  <2>1. workers'[k] = Worker(m) /\ \A j \in Keys : j # k => workers'[j] = workers[j]
    BY <1>1, <1>2 DEF TypeOK
  <2>2. ~Worker(m).tunnel
    BY DEF Worker
  <2>3. QED
    BY <1>1, <2>1, <2>2, RecordTypes
<1>6. TokensSpent'
  <2>1. token' = [token EXCEPT ![t] = "gone"] /\ removed' = removed
    BY <1>2 DEF MasterEnrolls, Consumed
  <2>2. \A j \in Keys : madeBy[j] \in Tokens => madeBy[j] # t
    BY <1>1 DEF Inv, TokensSpent
  <2>3. QED
    BY <1>1, <1>4, <1>5, <2>1, <2>2, SMTT(60) DEF Inv, TokensSpent, TypeOK
<1>7. Recorded'
  BY <1>3, <1>5, QuietKeeps DEF Inv, Recorded
<1>8. NodesPaired'
  <2>1. \A n \in Ids : nodes[n] # None => nodes[n].entry \in Keys
    BY <1>1 DEF TypeOK, NodeRecords
  <2>2. UNCHANGED <<nodes, realId, paired>>
    BY DEF MasterEnrolls, heard
  <2>3. QED
    BY <1>5, <2>1, <2>2 DEF Inv, NodesPaired
<1>9. Enrolling'
  <2>1. CASE ~answered
    <3>1. \A f \in Enrollments : enroll'[f] \in {enroll[f], NoEnrollment}
      BY <1>1, <1>2, <2>1 DEF TypeOK
    <3>2. QED
      BY <1>3, <3>1, EnrollEnds
  <2>2. CASE answered
    <3>1. /\ enroll'[e].at = "answered" /\ enroll'[e].key = k /\ enroll'[e].machine = m
          /\ \A f \in Enrollments : f # e => enroll'[f] = enroll[f]
      BY <1>1, <1>2, <2>2 DEF TypeOK, EnrollmentRecords
    <3>2. \A f \in Enrollments : HasKey(f)' /\ f # e => HasKey(f)
      BY <3>1 DEF HasKey
    <3>3. \A f \in Enrollments : HasKey(f) =>
            enroll[f].key \in Keys /\ madeBy[enroll[f].key] # None /\ enroll[f].key # k
      BY <1>2 DEF Inv, Enrolling
    <3>4. ~Used(k) /\ ~Used(k)'
      <4>1. ~Used(k)
        BY <1>2, NoneApart DEF Used, Inv, Pairs
      <4>2. QED
        BY <1>3, <4>1, QuietKeeps
    <3>5. madeBy'[k] # None
      BY <1>1, <1>4, NoneApart
    <3>6. ASSUME NEW f \in Enrollments, f # e
          PROVE  /\ enroll'[f].at # "idle" => enroll'[f].machine \in Machines
                 /\ enroll'[f].at = "asked" => enroll'[f].token \in Tokens
                 /\ HasKey(f)' => enroll'[f].key \in Keys /\ madeBy'[enroll'[f].key] # None
                 /\ enroll'[f].at = "answered" =>
                      /\ ~Used(enroll[f].key)'
                      /\ \A g \in Enrollments : HasKey(g)' /\ enroll'[g].key = enroll'[f].key => g = f
                 /\ enroll'[f].at \in {"tunnel", "report"} =>
                      Used(enroll[f].key)' /\ OnlyAt(enroll[f].machine, enroll[f].key)'
                 /\ enroll'[f].at = "report" => Real(enroll[f].key)'
      <4>1. enroll'[f] = enroll[f]
        BY <3>1, <3>6
      <4>2. CASE ~HasKey(f)
        BY <4>1, <4>2, <3>2, <3>6 DEF HasKey, Inv, Enrolling
      <4>3. CASE HasKey(f)
        <5>1. enroll[f].key \in Keys /\ madeBy[enroll[f].key] # None /\ enroll[f].key # k
          BY <3>3, <4>3
        <5>2. \A j \in Keys : /\ Used(j)' <=> Used(j)
                              /\ Real(j) => Real(j)'
                              /\ \A a : OnlyAt(a, j) => OnlyAt(a, j)'
          BY <1>3, QuietKeeps
        <5>3. QED
          <6>1. enroll[f].at = "answered" =>
                  \A g \in Enrollments : HasKey(g)' /\ enroll'[g].key = enroll'[f].key => g = f
            BY <3>1, <3>2, <4>1, <5>1 DEF Inv, Enrolling
          <6>2. madeBy'[enroll'[f].key] # None
            BY <1>4, <4>1, <5>1
          <6>3. /\ enroll[f].at # "idle" => enroll[f].machine \in Machines
                /\ enroll[f].at = "asked" => enroll[f].token \in Tokens
                /\ enroll[f].at = "answered" => ~Used(enroll[f].key)
                /\ enroll[f].at \in {"tunnel", "report"} =>
                     Used(enroll[f].key) /\ OnlyAt(enroll[f].machine, enroll[f].key)
                /\ enroll[f].at = "report" => Real(enroll[f].key)
            BY DEF Inv, Enrolling
          <6>4. QED
            BY <4>1, <5>1, <5>2, <6>1, <6>2, <6>3
      <4>4. QED
        BY <4>2, <4>3
    <3>7. QED
      BY <1>1, <3>1, <3>2, <3>3, <3>4, <3>5, <3>6 DEF Enrolling, HasKey
  <2>3. QED
    BY <2>1, <2>2
<1>10. TypeOK'
  BY EnrollmentTypes
<1>11. QED
  BY <1>3, <1>6, <1>7, <1>8, <1>9, <1>10, QuietFrame DEF MasterEnrolls, Inv

\* A machine is configured with a key and an id that were not used before: the parts of
\* the invariant hold whose other variables are the same.
LEMMA ConfiguredFrame ==
    ASSUME Inv, NEW m \in Machines, NEW k \in Keys, NEW n \in Ids,
           paired[n] = None, ~Used(k), madeBy'[k] # None,
           machine' = Configured(m, k, n), paired' = [paired EXCEPT ![n] = k],
           \A j \in Keys : madeBy[j] # None => madeBy'[j] = madeBy[j]
    PROVE  /\ \A j \in Keys :
                /\ Used(j)' <=> Used(j) \/ j = k
                /\ Real(j) => Real(j)'
                /\ \A a : OnlyAt(a, j) /\ j # k => OnlyAt(a, j)'
           /\ OnlyAt(m, k)'
           /\ Pairs' /\ Holders'
           /\ loop' = loop => Loops'
           /\ net' = net => Travelling'
           /\ workers' = workers => Recorded'
           /\ setup' = setup => Installing'
           /\ UNCHANGED <<nodes, workers, realId>> => NodesPaired'
<1>0. TypeOK
  BY DEF Inv
<1>1. /\ machine'[m].key = k /\ machine'[m].id = n
      /\ \A a \in Machines : a # m => machine'[a] = machine[a]
  BY <1>0 DEF Configured, TypeOK, MachineRecords
<1>2. paired'[n] = k /\ \A a \in Ids : a # n => paired'[a] = paired[a]
  BY <1>0 DEF TypeOK
<1>3. \A a \in Machines : machine[a].key # k
  BY NoneApart DEF Used, Inv, Holders
<1>4. \A j \in Keys : Used(j)' <=> Used(j) \/ j = k
  BY <1>2, NoneApart DEF Used
<1>5. \A j \in Keys : \A a : OnlyAt(a, j) /\ j # k => OnlyAt(a, j)'
  BY <1>1 DEF OnlyAt
<1>6. OnlyAt(m, k)'
  BY <1>1, <1>3 DEF OnlyAt
<1>7. \A j \in Keys : Real(j) => Real(j)'
  BY <1>1, <1>4 DEF Real
<1>8. \A a \in Ids : paired[a] # None => paired[a] \in Keys /\ paired[a] # k
  BY <1>0 DEF TypeOK, Used
<1>9. \A a \in Ids : paired[a] # None => paired'[a] = paired[a]
  BY <1>2
<1>10. Pairs'
  <2>1. \A a, b \in Ids : paired'[a] # None /\ paired'[a] = paired'[b] => a = b
    BY <1>2, <1>8 DEF Inv, Pairs
  <2>2. \A a \in Ids : paired'[a] # None => madeBy'[paired'[a]] # None
    BY <1>2, <1>8 DEF Inv, Pairs
  <2>3. QED
    BY <2>1, <2>2 DEF Pairs
<1>11. Holders'
  <2>1. \A a \in Machines : machine[a].key # None =>
          /\ machine[a].key \in Keys /\ machine[a].key # k
          /\ machine[a].id \in Ids /\ paired'[machine[a].id] = machine[a].key
          /\ OnlyAt(a, machine[a].key)
    BY <1>0, <1>3, <1>9 DEF TypeOK, MachineRecords, Inv, Holders
  <2>2. \A j \in Keys : \A a : OnlyAt(a, j) /\ j # k => OnlyAt(a, j)'
    BY <1>5
  <2>3. ASSUME NEW a \in Machines, machine'[a].key # None
        PROVE  /\ machine'[a].id \in Ids
               /\ paired'[machine'[a].id] = machine'[a].key
               /\ OnlyAt(a, machine[a].key)'
    <3>1. CASE a = m
      BY <1>1, <1>2, <1>6, <3>1 DEF OnlyAt
    <3>2. CASE a # m
      BY <1>1, <2>1, <2>2, <2>3, <3>2 DEF OnlyAt
    <3>3. QED
      BY <3>1, <3>2
  <2>4. QED
    BY <2>3 DEF Holders
<1>12. loop' = loop => Loops'
  <2> SUFFICES ASSUME loop' = loop, NEW a \in Machines, loop[a].at # "off"
               PROVE  /\ loop[a].key \in Keys /\ loop[a].id \in Ids
                      /\ paired'[loop[a].id] = loop[a].key
                      /\ OnlyAt(a, loop[a].key)'
                      /\ loop[a].tunnel => Real(loop[a].key)'
    BY DEF Loops
  <2>1. PICK j \in Keys : j = loop[a].key
    BY DEF Inv, Loops
  <2>2. /\ loop[a].id \in Ids /\ paired[loop[a].id] = j /\ OnlyAt(a, j)
        /\ loop[a].tunnel => Real(j)
    BY <2>1 DEF Inv, Loops
  <2>3. j # k /\ paired'[loop[a].id] = j
    BY <1>8, <1>9, <2>2, NoneApart
  <2>4. OnlyAt(a, j)' /\ (loop[a].tunnel => Real(j)')
    BY <1>5, <1>7, <2>2, <2>3
  <2>5. QED
    BY <2>1, <2>2, <2>3, <2>4
<1>13. net' = net => Travelling'
  <2>1. \A r \in net : r.key \in Keys /\ r.id \in Ids
    BY <1>0 DEF TypeOK, Requests
  <2>2. QED
    BY <1>7, <1>9, <2>1, NoneApart DEF Inv, Travelling
<1>14. workers' = workers => Recorded'
  BY <1>7 DEF Inv, Recorded
<1>15. setup' = setup => Installing'
  BY <1>7 DEF Inv, Installing
<1>16. UNCHANGED <<nodes, workers, realId>> => NodesPaired'
  <2>1. \A a \in Ids : nodes[a] # None => nodes[a].entry \in Keys
    BY <1>0 DEF TypeOK, NodeRecords
  <2>2. QED
    BY <1>9, <2>1, NoneApart DEF Inv, NodesPaired
<1>17. QED
  BY <1>4, <1>5, <1>6, <1>7, <1>10, <1>11, <1>12, <1>13, <1>14, <1>15, <1>16

\* Then the enrollment of this machine goes on to the tunnel, or ends.
LEMMA EnrollConfigured ==
    ASSUME Inv, NEW e \in Enrollments, NEW m \in Machines, NEW k \in Keys,
           madeBy'[k] # None, OnlyAt(m, k)',
           \A j \in Keys : madeBy[j] # None => madeBy'[j] = madeBy[j],
           \A j \in Keys :
             /\ Used(j)' <=> Used(j) \/ j = k
             /\ Real(j) => Real(j)'
             /\ \A a : OnlyAt(a, j) /\ j # k => OnlyAt(a, j)',
           \/ enroll'[e].at = "idle"
           \/ enroll'[e].at = "tunnel" /\ enroll'[e].machine = m /\ enroll'[e].key = k,
           \A f \in Enrollments : f # e => enroll'[f] = enroll[f],
           \A f \in Enrollments : f # e /\ HasKey(f) => enroll[f].key # k
    PROVE  Enrolling'
<1>1. \A f \in Enrollments : f # e => (HasKey(f)' <=> HasKey(f))
  BY DEF HasKey
<1>2. ASSUME NEW f \in Enrollments, f # e
      PROVE  /\ enroll'[f].at # "idle" => enroll'[f].machine \in Machines
             /\ enroll'[f].at = "asked" => enroll'[f].token \in Tokens
             /\ HasKey(f)' => enroll'[f].key \in Keys /\ madeBy'[enroll'[f].key] # None
             /\ enroll'[f].at = "answered" =>
                  /\ ~Used(enroll[f].key)'
                  /\ \A g \in Enrollments : HasKey(g)' /\ enroll'[g].key = enroll'[f].key => g = f
             /\ enroll'[f].at \in {"tunnel", "report"} =>
                  Used(enroll[f].key)' /\ OnlyAt(enroll[f].machine, enroll[f].key)'
             /\ enroll'[f].at = "report" => Real(enroll[f].key)'
  <2>1. enroll'[f] = enroll[f]
    BY <1>2
  <2>2. CASE ~HasKey(f)
    BY <1>1, <1>2, <2>1, <2>2 DEF HasKey, Inv, Enrolling
  <2>3. CASE HasKey(f)
    <3>1. PICK j \in Keys : j = enroll[f].key /\ j # k /\ madeBy[j] # None
      BY <1>2, <2>3 DEF Inv, Enrolling
    <3>2. enroll[f].at = "answered" =>
            \A g \in Enrollments : HasKey(g)' /\ enroll'[g].key = enroll'[f].key => g = f
      BY <1>1, <2>1, <2>3, <3>1 DEF HasKey, Inv, Enrolling
    <3>3. /\ enroll[f].at # "idle" => enroll[f].machine \in Machines
          /\ enroll[f].at = "asked" => enroll[f].token \in Tokens
          /\ enroll[f].at = "answered" => ~Used(j)
          /\ enroll[f].at \in {"tunnel", "report"} => Used(j) /\ OnlyAt(enroll[f].machine, j)
          /\ enroll[f].at = "report" => Real(j)
      BY <3>1 DEF Inv, Enrolling
    <3>4. QED
      BY <2>1, <3>1, <3>2, <3>3
  <2>4. QED
    BY <2>2, <2>3
<1>3. CASE enroll'[e].at = "idle"
  BY <1>2, <1>3 DEF Enrolling, HasKey
<1>4. CASE enroll'[e].at = "tunnel" /\ enroll'[e].machine = m /\ enroll'[e].key = k
  <2>1. Used(k)'
    OBVIOUS
  <2>2. QED
    BY <1>2, <1>4, <2>1 DEF Enrolling, HasKey
<1>5. QED
  BY <1>3, <1>4

\* The worker saves its key, with an id that is new.
LEMMA SaveEnrolledKept ==
    ASSUME Inv, NEW e \in Enrollments, SaveEnrolled(e)
    PROVE  Inv'
<1>0. TypeOK
  BY DEF Inv
<1>1. PICK k \in Keys : k = enroll[e].key /\ ~Used(k) /\ madeBy[k] # None
  BY DEF SaveEnrolled, HasKey, Inv, Enrolling
<1>2. PICK m \in Machines : m = enroll[e].machine
  BY DEF SaveEnrolled, Inv, Enrolling
<1>3. PICK n \in Ids :
        /\ paired[n] = None
        /\ machine' = Configured(m, k, n)
        /\ paired' = [paired EXCEPT ![n] = k]
  BY <1>1, <1>2 DEF SaveEnrolled, IsNext
<1>4. UNCHANGED <<loop, token, workers, nodes, realId, net, setup, madeBy, removed>>
  BY DEF SaveEnrolled, heard
<1>5. \/ enroll'[e].at = "idle"
      \/ enroll'[e].at = "tunnel" /\ enroll'[e].machine = m /\ enroll'[e].key = k
  BY <1>0, <1>1, <1>2 DEF SaveEnrolled, NoEnrollment, TypeOK, EnrollmentRecords
<1>6. \A f \in Enrollments : f # e => enroll'[f] = enroll[f]
  BY <1>0 DEF SaveEnrolled, TypeOK
<1>7. \A f \in Enrollments : f # e /\ HasKey(f) => enroll[f].key # k
  BY <1>1 DEF SaveEnrolled, Inv, Enrolling
<1>8. Enrolling'
  <2>1. /\ \A j \in Keys :
             /\ Used(j)' <=> Used(j) \/ j = k
             /\ Real(j) => Real(j)'
             /\ \A a : OnlyAt(a, j) /\ j # k => OnlyAt(a, j)'
        /\ OnlyAt(m, k)'
    BY <1>1, <1>3, <1>4, ConfiguredFrame
  <2>2. QED
    BY <1>1, <1>4, <1>5, <1>6, <1>7, <2>1, EnrollConfigured
<1>9. TokensSpent'
  BY <1>4 DEF Inv, TokensSpent
<1>10. TypeOK'
  BY EnrollmentTypes
<1>11. QED
  BY <1>1, <1>3, <1>4, <1>8, <1>9, <1>10, ConfiguredFrame DEF Inv

\* A machine makes its own key and id.
LEMMA InitWorkerKept ==
    ASSUME Inv, NEW e \in Enrollments, NEW m \in Machines, NEW skip \in BOOLEAN,
           InitWorker(e, m, skip)
    PROVE  Inv'
<1>0. TypeOK
  BY DEF Inv
<1>1. PICK k \in Keys, n \in Ids :
        /\ madeBy[k] = None /\ paired[n] = None
        /\ machine' = Configured(m, k, n)
        /\ madeBy' = [madeBy EXCEPT ![k] = m]
        /\ paired' = [paired EXCEPT ![n] = k]
        /\ enroll' = IF skip THEN enroll
                     ELSE [enroll EXCEPT ![e] = [NoEnrollment EXCEPT
                             !.at = "tunnel", !.machine = m, !.key = k]]
  BY DEF InitWorker, IsNext
<1>2. UNCHANGED <<loop, token, workers, nodes, realId, net, setup, removed>>
  BY DEF InitWorker, heard
<1>3. madeBy'[k] = m /\ m # None /\ \A j \in Keys : j # k => madeBy'[j] = madeBy[j]
  BY <1>0, <1>1, NoneApart DEF TypeOK
<1>4. ~Used(k)
  BY <1>1, NoneApart DEF Used, Inv, Pairs
<1>5. \A f \in Enrollments : HasKey(f) => enroll[f].key # k
  BY <1>1 DEF Inv, Enrolling
<1>6. \/ enroll'[e].at = "idle"
      \/ enroll'[e].at = "tunnel" /\ enroll'[e].machine = m /\ enroll'[e].key = k
  BY <1>0, <1>1 DEF InitWorker, NoEnrollment, TypeOK
<1>7. \A f \in Enrollments : f # e => enroll'[f] = enroll[f]
  BY <1>0, <1>1 DEF TypeOK
<1>8. \A j \in Keys : madeBy[j] # None => madeBy'[j] = madeBy[j]
  BY <1>1, <1>3
<1>9. Enrolling'
  <2>1. /\ \A j \in Keys :
             /\ Used(j)' <=> Used(j) \/ j = k
             /\ Real(j) => Real(j)'
             /\ \A a : OnlyAt(a, j) /\ j # k => OnlyAt(a, j)'
        /\ OnlyAt(m, k)'
    BY <1>1, <1>3, <1>4, <1>8, ConfiguredFrame
  <2>2. QED
    BY <1>3, <1>5, <1>6, <1>7, <1>8, <2>1, EnrollConfigured
<1>10. TokensSpent'
  BY <1>2, <1>3, NoneApart DEF Inv, TokensSpent
<1>11. TypeOK'
  BY EnrollmentTypes
<1>12. QED
  BY <1>1, <1>2, <1>3, <1>4, <1>8, <1>9, <1>10, <1>11, ConfiguredFrame DEF Inv

\* Saving a tunnel in a configuration is quiet.
LEMMA TunnelSavedQuiet ==
    ASSUME TypeOK, NEW m \in Machines, machine' = [machine EXCEPT ![m].tunnel = TRUE],
           UNCHANGED <<paired, madeBy>>
    PROVE  Quiet /\ machine'[m].tunnel
  BY DEF TypeOK, MachineRecords, Quiet

\* The machine that was enrolled saves a tunnel, or gives it up.
LEMMA EnrolledTunnelKept ==
    ASSUME Inv, NEW e \in Enrollments, EnrolledTunnel(e)
    PROVE  Inv'
<1>0. TypeOK
  BY DEF Inv
<1>1. UNCHANGED <<loop, token, workers, nodes, realId, net, setup, madeBy, paired, removed>>
  BY DEF EnrolledTunnel, heard, history
<1>2. PICK m \in Machines : m = enroll[e].machine
  BY DEF EnrolledTunnel, Inv, Enrolling
<1>3. PICK k \in Keys : k = enroll[e].key /\ Used(k) /\ OnlyAt(m, k)
  BY <1>2 DEF EnrolledTunnel, HasKey, Inv, Enrolling
<1>4. CASE /\ machine' = [machine EXCEPT ![m].tunnel = TRUE]
           /\ enroll' = [enroll EXCEPT ![e].at = "report"]
  <2>1. Quiet /\ machine'[m].tunnel
    BY <1>0, <1>1, <1>4, TunnelSavedQuiet
  <2>2. Real(k)'
    <3>1. Used(k)' /\ OnlyAt(m, k)'
      BY <1>3, <2>1, QuietKeeps
    <3>2. QED
      BY <2>1, <3>1 DEF Real, OnlyAt
  <2>3. /\ enroll'[e].at = "report" /\ enroll'[e].machine = m /\ enroll'[e].key = k
        /\ \A f \in Enrollments : f # e => enroll'[f] = enroll[f]
    BY <1>0, <1>2, <1>3, <1>4 DEF TypeOK, EnrollmentRecords
  <2>4. HasKey(e) /\ \A f \in Enrollments : HasKey(f)' <=> HasKey(f)
    BY <2>3 DEF HasKey, EnrolledTunnel
  <2>5. ASSUME NEW f \in Enrollments
        PROVE  /\ enroll'[f].at # "idle" => enroll'[f].machine \in Machines
               /\ enroll'[f].at = "asked" => enroll'[f].token \in Tokens
               /\ HasKey(f)' => enroll'[f].key \in Keys /\ madeBy'[enroll'[f].key] # None
               /\ enroll'[f].at = "answered" =>
                    /\ ~Used(enroll[f].key)'
                    /\ \A g \in Enrollments : HasKey(g)' /\ enroll'[g].key = enroll'[f].key => g = f
               /\ enroll'[f].at \in {"tunnel", "report"} =>
                    Used(enroll[f].key)' /\ OnlyAt(enroll[f].machine, enroll[f].key)'
               /\ enroll'[f].at = "report" => Real(enroll[f].key)'
    <3>1. CASE f = e
      <4>1. Used(k)' /\ OnlyAt(m, k)' /\ madeBy'[k] # None
        <5>1. Used(k)' /\ OnlyAt(m, k)'
          BY <1>3, <2>1, QuietKeeps
        <5>2. QED
          BY <1>1, <1>3, <2>4, <5>1 DEF Inv, Enrolling
      <4>2. QED
        BY <2>2, <2>3, <3>1, <4>1
    <3>2. CASE f # e /\ ~HasKey(f)
      BY <2>3, <2>4, <3>2 DEF HasKey, Inv, Enrolling
    <3>3. CASE f # e /\ HasKey(f)
      <4>1. PICK j \in Keys : j = enroll[f].key /\ madeBy[j] # None
        BY <3>3 DEF Inv, Enrolling
      <4>2. enroll'[f] = enroll[f] /\ enroll'[f].key = j
        BY <2>3, <3>3, <4>1
      <4>3. /\ enroll[f].at # "idle" => enroll[f].machine \in Machines
            /\ enroll[f].at = "asked" => enroll[f].token \in Tokens
            /\ enroll[f].at = "answered" =>
                 ~Used(j) /\ \A g \in Enrollments : HasKey(g) /\ enroll[g].key = j => g = f
            /\ enroll[f].at \in {"tunnel", "report"} => Used(j) /\ OnlyAt(enroll[f].machine, j)
            /\ enroll[f].at = "report" => Real(j)
        BY <4>1 DEF Inv, Enrolling
      <4>4. /\ Used(j)' <=> Used(j)
            /\ Real(j) => Real(j)'
            /\ \A a : OnlyAt(a, j) => OnlyAt(a, j)'
        BY <2>1, QuietKeeps
      <4>5. \A g \in Enrollments : enroll'[g].key = enroll[g].key
        BY <1>3, <2>3
      <4>6. QED
        BY <1>1, <2>4, <4>1, <4>2, <4>3, <4>4, <4>5
    <3>4. QED
      BY <3>1, <3>2, <3>3
  <2>6. Enrolling'
    BY <2>5 DEF Enrolling
  <2>7. TypeOK'
    BY EnrollmentTypes
  <2>8. QED
    BY <1>1, <2>1, <2>6, <2>7, QuietFrame DEF Inv
<1>5. CASE enroll' = [enroll EXCEPT ![e] = NoEnrollment] /\ UNCHANGED machine
  <2>1. Quiet
    BY <1>1, <1>5, QuietWhenUnchanged
  <2>2. \A f \in Enrollments : enroll'[f] \in {enroll[f], NoEnrollment}
    BY <1>0, <1>5 DEF TypeOK
  <2>3. TypeOK'
    BY EnrollmentTypes
  <2>4. QED
    BY <1>1, <2>1, <2>2, <2>3, EnrollEnds, QuietFrame DEF Inv
<1>6. QED
  BY <1>2, <1>4, <1>5 DEF EnrolledTunnel

\* The report of a tunnel, for the key it was made for, is the last step.
LEMMA ReportTunnelKept ==
    ASSUME Inv, NEW e \in Enrollments, ReportTunnel(e)
    PROVE  Inv'
<1>0. TypeOK
  BY DEF Inv
<1>1. UNCHANGED <<machine, loop, token, nodes, realId, net, setup, madeBy, paired, removed>>
  BY DEF ReportTunnel, heard, history
<1>2. PICK k \in Keys : k = enroll[e].key /\ Real(k)
  BY DEF ReportTunnel, HasKey, Inv, Enrolling
<1>3. Quiet
  BY <1>1, QuietWhenUnchanged
<1>4. \A f \in Enrollments : enroll'[f] \in {enroll[f], NoEnrollment}
  BY <1>0 DEF ReportTunnel, TypeOK
<1>5. Recorded' /\ NodesPaired' /\ TokensSpent'
  <2>1. CASE workers' = workers
    BY <1>1, <1>3, <2>1, QuietFrame
  <2>2. CASE workers' = WithTunnel(k)
    BY <1>1, <1>2, <1>3, <2>2, TunnelRecorded
  <2>3. QED
    BY <1>2, <2>1, <2>2 DEF ReportTunnel
<1>6. TypeOK'
  BY EnrollmentTypes
<1>7. QED
  BY <1>1, <1>3, <1>4, <1>5, <1>6, EnrollEnds, QuietFrame DEF Inv

\* An enrollment that fails is over.
LEMMA EnrollFailsKept ==
    ASSUME Inv, NEW e \in Enrollments, EnrollFails(e)
    PROVE  Inv'
<1>1. UNCHANGED <<machine, loop, token, workers, nodes, realId, net, setup, madeBy, paired, removed>>
  BY DEF EnrollFails, heard, history
<1>2. Quiet
  BY <1>1, QuietWhenUnchanged
<1>3. \A f \in Enrollments : enroll'[f] \in {enroll[f], NoEnrollment}
  BY DEF EnrollFails, Inv, TypeOK
<1>4. TypeOK'
  BY EnrollmentTypes
<1>5. QED
  BY <1>1, <1>2, <1>3, <1>4, EnrollEnds, QuietFrame DEF Inv

-----------------------------------------------------------------------------
(* The steps of the operator, and of processes that restart.               *)

\* A worker is added with the key its machine shows.
LEMMA AddWorkerKept ==
    ASSUME Inv, NEW m \in Machines, AddWorker(m)
    PROVE  Inv'
<1>0. TypeOK
  BY DEF Inv
<1>1. UNCHANGED <<machine, loop, enroll, token, nodes, realId, net, setup, madeBy, paired>>
  BY DEF AddWorker, heard
<1>2. PICK k \in Keys : k = machine[m].key /\ workers[k] = None
  BY <1>0 DEF AddWorker, TypeOK, MachineRecords
<1>3. /\ workers'[k] # None /\ ~workers'[k].tunnel /\ removed' = removed \ {k}
      /\ \A j \in Keys : j # k => workers'[j] = workers[j]
  <2>1. workers'[k] = Worker(m) /\ \A j \in Keys : j # k => workers'[j] = workers[j]
    BY <1>0, <1>2 DEF AddWorker, TypeOK
  <2>2. ~Worker(m).tunnel
    BY DEF Worker
  <2>3. QED
    BY <1>2, <2>1, <2>2, RecordTypes DEF AddWorker
<1>4. Quiet
  BY <1>1, QuietWhenUnchanged
<1>5. Recorded'
  BY <1>3, <1>4, QuietKeeps DEF Inv, Recorded
<1>6. NodesPaired'
  BY <1>1, <1>3, <1>0 DEF Inv, NodesPaired, TypeOK, NodeRecords
<1>7. TokensSpent'
  BY <1>1, <1>3 DEF Inv, TokensSpent
<1>8. TypeOK'
  BY OperatorTypes
<1>9. QED
  BY <1>1, <1>4, <1>5, <1>6, <1>7, <1>8, QuietFrame DEF Inv

\* A worker is removed with the node that was heard of it.
LEMMA RemoveWorkerKept ==
    ASSUME Inv, NEW k \in Keys, RemoveWorker(k)
    PROVE  Inv'
<1>0. TypeOK
  BY DEF Inv
<1>1. UNCHANGED <<machine, loop, enroll, token, net, setup, madeBy, paired>>
  BY DEF RemoveWorker
<1>2. /\ workers'[k] = None /\ removed' = removed \cup {k}
      /\ \A j \in Keys : j # k => workers'[j] = workers[j] /\ realId'[j] = realId[j]
      /\ \A n \in Ids : nodes'[n] # None => nodes'[n] = nodes[n] /\ n # realId[k]
  BY <1>0 DEF RemoveWorker, Unregistered, TypeOK
<1>3. Quiet
  BY <1>1, QuietWhenUnchanged
<1>4. Recorded'
  BY <1>2, <1>3, QuietKeeps DEF Inv, Recorded
<1>5. NodesPaired'
  <2>1. \A n \in Ids : nodes[n] # None => nodes[n].entry \in Keys
    BY <1>0 DEF TypeOK, NodeRecords
  <2>2. QED
    BY <1>1, <1>2, <2>1 DEF Inv, NodesPaired
<1>6. TokensSpent'
  BY <1>1, <1>2 DEF Inv, TokensSpent
<1>7. TypeOK'
  BY OperatorTypes
<1>8. QED
  BY <1>1, <1>3, <1>4, <1>5, <1>6, <1>7, QuietFrame DEF Inv

\* A machine is reset: nobody has its key any more.
LEMMA ResetMachineKept ==
    ASSUME Inv, NEW m \in Machines, ResetMachine(m)
    PROVE  Inv'
<1>1. UNCHANGED <<loop, enroll, token, workers, nodes, realId, net, setup, madeBy, paired, removed>>
  BY DEF ResetMachine, heard, history
<1>2. Quiet
  BY <1>1 DEF Quiet, ResetMachine, Inv, TypeOK, MachineRecords
<1>3. TypeOK'
  BY OperatorTypes
<1>4. QED
  BY <1>1, <1>2, <1>3, QuietFrame DEF Inv

\* A loop starts with the pair its machine has.
LEMMA RestartMachineKept ==
    ASSUME Inv, NEW m \in Machines, RestartMachine(m)
    PROVE  Inv'
<1>0. TypeOK
  BY DEF Inv
<1>1. UNCHANGED <<machine, token, workers, nodes, realId, net, madeBy, paired, removed>>
  BY DEF RestartMachine, heard, history
<1>2. Quiet
  BY <1>1, QuietWhenUnchanged
<1>3. \A e \in Enrollments : enroll'[e] \in {enroll[e], NoEnrollment}
  BY DEF RestartMachine
<1>4. Installing'
  <2>1. CASE setup' = setup
    BY <1>2, <2>1, QuietFrame
  <2>2. CASE setup' = NoSetup
    BY <2>2 DEF Installing, NoSetup
  <2>3. QED
    BY <2>1, <2>2 DEF RestartMachine
<1>5. Loops'
  <2>1. loop'[m] = Booted(m) /\ \A a \in Machines : a # m => loop'[a] = loop[a]
    BY <1>0 DEF RestartMachine, TypeOK
  <2>2. CASE machine[m].key = None
    <3>1. loop'[m].at = "off"
      BY <2>1, <2>2 DEF Booted, Off
    <3>2. QED
      BY <1>2, <2>1, <3>1, QuietKeeps DEF Quiet, Inv, Loops
  <2>3. CASE machine[m].key # None
    <3>1. PICK k \in Keys : k = machine[m].key
      BY <1>0, <2>3 DEF TypeOK, MachineRecords
    <3>2. machine[m].id \in Ids /\ paired[machine[m].id] = k /\ OnlyAt(m, k)
      BY <2>3, <3>1 DEF Inv, Holders
    <3>3. machine[m].tunnel => Real(k)
      BY <3>2 DEF Real, Used, OnlyAt
    <3>4. OnlyAt(m, k)' /\ (machine[m].tunnel => Real(k)')
      BY <1>2, <3>2, <3>3, QuietKeeps
    <3>5. /\ loop'[m].key = k /\ loop'[m].id = machine[m].id
          /\ loop'[m].tunnel = machine[m].tunnel
      BY <2>1, <2>3, <3>1 DEF Booted
    <3>6. QED
      BY <1>2, <2>1, <3>2, <3>4, <3>5, QuietKeeps DEF Quiet, Inv, Loops
  <2>4. QED
    BY <2>2, <2>3
<1>6. TypeOK'
  BY OperatorTypes
<1>7. QED
  BY <1>1, <1>2, <1>3, <1>4, <1>5, <1>6, EnrollEnds, QuietFrame DEF Inv

\* The master forgets what it has heard, and nothing else.
LEMMA RestartMasterKept ==
    ASSUME Inv, RestartMaster
    PROVE  Inv'
<1>1. UNCHANGED <<machine, loop, enroll, token, workers, net, madeBy, paired, removed>>
  BY DEF RestartMaster, history
<1>2. Quiet
  BY <1>1, QuietWhenUnchanged
<1>3. NodesPaired'
  BY DEF RestartMaster, NodesPaired
<1>4. Installing'
  BY DEF RestartMaster, Installing, NoSetup
<1>5. TypeOK'
  BY OperatorTypes
<1>6. QED
  BY <1>1, <1>2, <1>3, <1>4, <1>5, QuietFrame DEF Inv

-----------------------------------------------------------------------------
(* The steps of the loops, and what the master does with their requests.   *)

\* A loop that goes on keeps its pair.
LEMMA GotoLoops ==
    ASSUME Inv, Quiet, NEW m \in Machines, NEW at, loop[m].at # "off", loop' = Goto(m, at)
    PROVE  Loops'
<1>1. /\ \A a \in Machines : a # m => loop'[a] = loop[a]
      /\ loop'[m].key = loop[m].key /\ loop'[m].id = loop[m].id /\ loop'[m].tunnel = loop[m].tunnel
  BY DEF Goto, Inv, TypeOK
<1>2. \A a \in Machines : loop'[a].at # "off" => loop[a].at # "off"
  BY <1>1
<1>3. \A a \in Machines :
        loop'[a].key = loop[a].key /\ loop'[a].id = loop[a].id /\ loop'[a].tunnel = loop[a].tunnel
  BY <1>1
<1>4. QED
  BY <1>2, <1>3, QuietKeeps DEF Quiet, Inv, Loops

\* An answer moves a loop that waits for it.
LEMMA AnswerLoops ==
    ASSUME Inv, Quiet, NEW r \in net, NEW status, Answer(r, status)
    PROVE  Loops'
<1>1. r.from \in Machines
  BY DEF Inv, TypeOK, Requests
<1>2. WaitsFor(r) => loop[r.from].at # "off"
  BY DEF WaitsFor
<1>3. CASE loop' = loop
  BY <1>3, QuietFrame
<1>4. CASE loop' # loop
  <2>1. PICK at : WaitsFor(r) /\ loop' = Goto(r.from, at)
    BY <1>4 DEF Answer, Answered
  <2>2. QED
    BY <1>1, <1>2, <2>1, GotoLoops
<1>5. QED
  BY <1>3, <1>4

\* A loop sends what it has read, and the tunnel of its own machine.
LEMMA SendKept ==
    ASSUME Inv, NEW m \in Machines, SendRegister(m) \/ SendBeat(m)
    PROVE  Inv'
<1>0. TypeOK
  BY DEF Inv
<1>1. UNCHANGED <<machine, enroll, token, workers, nodes, realId, setup, madeBy, paired, removed>>
  BY DEF SendRegister, SendBeat, heard, history
<1>2. Quiet
  BY <1>1, QuietWhenUnchanged
<1>3. PICK k \in Keys : k = loop[m].key
  BY DEF SendRegister, SendBeat, Inv, Loops
<1>4. /\ loop[m].at # "off" /\ paired[loop[m].id] = k /\ loop[m].id \in Ids /\ OnlyAt(m, k)
      /\ loop[m].tunnel => Real(k)
  BY <1>3 DEF SendRegister, SendBeat, Inv, Loops
<1>5. CASE SendRegister(m)
  <2>1. PICK at : loop' = Goto(m, at)
    BY <1>5 DEF SendRegister
  <2>2. Loops'
    BY <1>2, <1>4, <2>1, GotoLoops
  <2>3. Travelling'
    <3>1. /\ Request("register", m).id = loop[m].id /\ Request("register", m).key = k
          /\ Request("register", m).tunnel = loop[m].tunnel
      BY <1>3 DEF Request
    <3>2. \A r \in net' : r \in net \/ r = Request("register", m)
      BY <1>5 DEF SendRegister
    <3>3. \A r \in net : r.key \in Keys
      BY <1>0 DEF TypeOK, Requests
    <3>4. QED
      BY <1>1, <1>2, <1>4, <3>1, <3>2, <3>3, QuietKeeps DEF Inv, Travelling
  <2>4. TypeOK'
    BY <1>5, LoopTypes DEF LoopStep
  <2>5. QED
    BY <1>1, <1>2, <2>2, <2>3, <2>4, QuietFrame DEF Inv
<1>6. CASE SendBeat(m)
  <2> DEFINE tunnel == CurrentTunnel(m)
             beat == [Request("beat", m) EXCEPT !.tunnel = tunnel]
  <2>1. tunnel => Real(k)
    <3>1. CASE machine[m].key = None
      BY <1>4, <3>1 DEF CurrentTunnel
    <3>2. CASE machine[m].key # None
      BY <1>4, <3>2 DEF CurrentTunnel, Real, Used, OnlyAt
    <3>3. QED
      BY <3>1, <3>2
  <2>2. Real(k) => Real(k)'
    BY <1>2, QuietKeeps
  <2>3. /\ loop'[m].key = k /\ loop'[m].id = loop[m].id
        /\ loop'[m].tunnel => loop[m].tunnel \/ tunnel
        /\ \A a \in Machines : a # m => loop'[a] = loop[a]
    BY <1>0, <1>3, <1>6 DEF SendBeat, TypeOK
  <2>4. Loops'
    <3>1. OnlyAt(m, k)'
      BY <1>2, <1>4, QuietKeeps
    <3>2. loop'[m].tunnel => Real(k)'
      BY <1>4, <2>1, <2>2, <2>3
    <3> HIDE DEF tunnel
    <3>3. QED
      BY <1>2, <1>4, <2>3, <3>1, <3>2, QuietKeeps DEF Quiet, Inv, Loops
  <2>5. Travelling'
    <3>1. beat.id = loop[m].id /\ beat.key = k /\ beat.tunnel = tunnel
      BY <1>3 DEF Request
    <3>2. \A r \in net' : r \in net \/ r = beat
      BY <1>6 DEF SendBeat
    <3>3. \A r \in net : r.key \in Keys
      BY <1>0 DEF TypeOK, Requests
    <3> HIDE DEF tunnel, beat
    <3>4. QED
      BY <1>1, <1>2, <1>4, <2>1, <3>1, <3>2, <3>3, QuietKeeps DEF Inv, Travelling
  <2>6. TypeOK'
    BY <1>6, LoopTypes DEF LoopStep
  <2>7. QED
    BY <1>1, <1>2, <2>4, <2>5, <2>6, QuietFrame DEF Inv
<1>7. QED
  BY <1>5, <1>6

\* A loop that gives up a request goes on.
LEMMA TimesOutKept ==
    ASSUME Inv, NEW m \in Machines, TimesOut(m)
    PROVE  Inv'
<1>1. UNCHANGED <<machine, enroll, token, workers, nodes, realId, setup, madeBy, paired, removed>>
  BY DEF TimesOut, heard, history
<1>2. Quiet /\ net' \subseteq net
  BY <1>1, QuietWhenUnchanged DEF TimesOut
<1>3. Loops'
  BY <1>2, GotoLoops DEF TimesOut
<1>4. TypeOK'
  BY LoopTypes
<1>5. QED
  BY <1>1, <1>2, <1>3, <1>4, QuietFrame DEF Inv

\* A node that is heard is that of its entry, and no other node is.
LEMMA HeardKept ==
    ASSUME Inv, Quiet, NEW r \in net, Known(r.key),
           \A k \in Keys : workers[k] = None <=> workers'[k] = None,
           nodes' = [nodes EXCEPT ![r.id] = Heard(r)],
           realId' = [realId EXCEPT ![r.key] = r.id]
    PROVE  NodesPaired'
<1>0. TypeOK
  BY DEF Inv
<1>1. r.key \in Keys /\ r.id \in Ids /\ paired[r.id] = r.key /\ workers[r.key] # None
  BY <1>0 DEF TypeOK, Requests, Inv, Travelling, Known
<1>2. nodes'[r.id].entry = r.key /\ realId'[r.key] = r.id
  BY <1>0, <1>1 DEF TypeOK, Heard
<1>3. ASSUME NEW n \in Ids, nodes'[n] # None
      PROVE  /\ paired'[n] = nodes'[n].entry
             /\ workers'[nodes'[n].entry] # None
             /\ realId'[nodes'[n].entry] = n
  <2>1. CASE n = r.id
    BY <1>1, <1>2, <2>1 DEF Quiet
  <2>2. CASE n # r.id
    <3>1. nodes'[n] = nodes[n] /\ nodes[n].entry \in Keys
      BY <1>0, <1>3, <2>2 DEF TypeOK, NodeRecords
    <3>2. paired[n] = nodes[n].entry /\ workers[nodes[n].entry] # None /\ realId[nodes[n].entry] = n
      BY <1>3, <3>1 DEF Inv, NodesPaired
    <3>3. nodes[n].entry # r.key
      BY <1>1, <2>2, <3>1, <3>2, NoneApart DEF Inv, Pairs
    <3>4. QED
      BY <1>0, <1>1, <3>1, <3>2, <3>3 DEF Quiet, TypeOK
  <2>3. QED
    BY <2>1, <2>2
<1>4. QED
  BY <1>3 DEF NodesPaired

\* A registration or a heartbeat, however late, is of a worker the master has.
LEMMA HandleKept ==
    ASSUME Inv, NEW r \in net, HandleRegister(r) \/ HandleBeat(r)
    PROVE  Inv'
<1>0. TypeOK
  BY DEF Inv
<1>1. UNCHANGED <<machine, enroll, token, setup, madeBy, paired, removed>> /\ net' \subseteq net
  BY DEF HandleRegister, HandleBeat, history
<1>2. Quiet
  BY <1>1, QuietWhenUnchanged
<1>3. Loops'
  BY <1>2, AnswerLoops DEF HandleRegister, HandleBeat
<1>4. r.key \in Keys /\ r.id \in Ids /\ paired[r.id] = r.key /\ (r.tunnel => Real(r.key))
  BY <1>0 DEF TypeOK, Requests, Inv, Travelling
<1>5. ASSUME UNCHANGED <<nodes, realId, workers>>
      PROVE  Recorded' /\ TokensSpent' /\ NodesPaired'
  BY <1>1, <1>2, <1>5, QuietFrame
<1>6. ASSUME Known(r.key), workers' = Tunneled(r), nodes' = [nodes EXCEPT ![r.id] = Heard(r)],
             realId' = [realId EXCEPT ![r.key] = r.id]
      PROVE  Recorded' /\ TokensSpent' /\ NodesPaired'
  <2>1. Recorded' /\ TokensSpent' /\ \A k \in Keys : workers[k] = None <=> workers'[k] = None
    <3>1. CASE r.tunnel
      BY <1>0, <1>1, <1>2, <1>4, <1>6, <3>1, TunnelRecorded, WithTunnelType DEF Tunneled
    <3>2. CASE ~r.tunnel
      BY <1>1, <1>2, <1>6, <3>2, QuietFrame DEF Tunneled
    <3>3. QED
      BY <3>1, <3>2
  <2>2. NodesPaired'
    BY <1>2, <1>6, <2>1, HeardKept
  <2>3. QED
    BY <2>1, <2>2
<1>7. \/ UNCHANGED <<nodes, realId, workers>>
      \/ /\ Known(r.key)
         /\ workers' = Tunneled(r)
         /\ nodes' = [nodes EXCEPT ![r.id] = Heard(r)]
         /\ realId' = [realId EXCEPT ![r.key] = r.id]
  <2>1. CASE HandleRegister(r)
    BY <2>1 DEF HandleRegister, MayRegister, heard
  <2>2. CASE HandleBeat(r)
    <3>1. CASE KeyFits(r) /\ nodes[r.id] # None
      <4>1. realId[r.key] = r.id
        BY <1>4, <3>1 DEF KeyFits, Inv, NodesPaired
      <4>2. realId' = realId /\ realId = [realId EXCEPT ![r.key] = r.id]
        BY <1>0, <2>2, <4>1 DEF HandleBeat, TypeOK
      <4>3. QED
        BY <2>2, <3>1, <4>2 DEF HandleBeat, KeyFits
    <3>2. CASE ~(KeyFits(r) /\ nodes[r.id] # None)
      BY <2>2, <3>2 DEF HandleBeat
    <3>3. QED
      BY <3>1, <3>2
  <2>3. QED
    BY <2>1, <2>2
<1>8. Recorded' /\ TokensSpent' /\ NodesPaired'
  BY <1>5, <1>6, <1>7
<1>9. TypeOK'
  BY LoopTypes DEF Handle
<1>10. QED
  BY <1>1, <1>2, <1>3, <1>8, <1>9, QuietFrame DEF Inv

-----------------------------------------------------------------------------
(* Silence, and the tunnels the master sets up.                            *)

\* Time that passes changes no node's entry.
LEMMA SilenceKept ==
    ASSUME Inv, (\E n \in Ids : Silence(n)) \/ CheckStaleNodes
    PROVE  Inv'
<1>0. TypeOK
  BY DEF Inv
<1>1. UNCHANGED <<machine, loop, enroll, token, workers, realId, net, setup, madeBy, paired, removed>>
  BY DEF Silence, CheckStaleNodes, history
<1>2. Quiet
  BY <1>1, QuietWhenUnchanged
<1>3. \A n \in Ids : nodes'[n] # None => nodes[n] # None /\ nodes'[n].entry = nodes[n].entry
  <2>1. ASSUME NEW a \in Ids, Silence(a), NEW n \in Ids, nodes'[n] # None
        PROVE  nodes[n] # None /\ nodes'[n].entry = nodes[n].entry
    <3>1. nodes[a] \in NodeRecords
      BY <1>0, <2>1 DEF Silence, TypeOK
    <3>2. QED
      BY <1>0, <2>1, <3>1 DEF Silence, TypeOK, NodeRecords
  <2>2. ASSUME CheckStaleNodes, NEW n \in Ids, nodes'[n] # None
        PROVE  nodes[n] # None /\ nodes'[n].entry = nodes[n].entry
    <3>1. CASE Stale(nodes[n])
      <4>1. nodes[n] # None /\ nodes[n] \in NodeRecords
        BY <1>0, <3>1 DEF Stale, TypeOK
      <4>2. nodes'[n] = [nodes[n] EXCEPT !.online = FALSE]
        BY <2>2, <3>1 DEF CheckStaleNodes
      <4>3. QED
        BY <4>1, <4>2 DEF NodeRecords
    <3>2. CASE ~Stale(nodes[n])
      BY <2>2, <3>2 DEF CheckStaleNodes
    <3>3. QED
      BY <3>1, <3>2
  <2>3. QED
    BY <2>1, <2>2
<1>4. NodesPaired'
  BY <1>1, <1>3 DEF Inv, NodesPaired
<1>5. TypeOK'
  BY MasterTypes
<1>6. QED
  BY <1>1, <1>2, <1>4, <1>5, QuietFrame DEF Inv

\* A tunnel is recorded after the machine that has the key has saved it.
LEMMA SetupKept ==
    ASSUME Inv,
           \/ \E k \in Keys : BeginSetup(k)
           \/ ReceiveToken \/ SetupFails \/ MarkSetUp
    PROVE  Inv'
<1>0. TypeOK
  BY DEF Inv
<1>1. UNCHANGED <<loop, enroll, token, nodes, realId, net, madeBy, paired, removed>>
  BY DEF BeginSetup, ReceiveToken, SetupFails, MarkSetUp, heard, history
<1>2. TypeOK'
  BY MasterTypes
<1>3. ASSUME NEW k \in Keys, BeginSetup(k) PROVE Inv'
  <2>1. UNCHANGED <<machine, workers>> /\ setup' = [at |-> "push", entry |-> k]
    BY <1>3 DEF BeginSetup
  <2>2. Quiet /\ Installing'
    BY <1>1, <2>1, QuietWhenUnchanged DEF Installing
  <2>3. QED
    BY <1>1, <1>2, <2>1, <2>2, QuietFrame DEF Inv
<1>4. CASE ReceiveToken
  <2> DEFINE m == IF workers[setup.entry] = None THEN None ELSE workers[setup.entry].address
             accepted == m # None /\ machine[m].key = setup.entry
  <2>1. PICK k \in Keys : k = setup.entry
    BY <1>4 DEF ReceiveToken, Inv, Installing
  <2>2. workers' = workers
    BY <1>4 DEF ReceiveToken
  <2>3. CASE accepted
    <3>1. PICK a \in Machines : a = m /\ machine[a].key = k
      BY <1>0, <2>1, <2>3 DEF TypeOK, WorkerRecords
    <3>2. machine' = [machine EXCEPT ![a].tunnel = TRUE]
      BY <1>4, <2>3, <3>1 DEF ReceiveToken
    <3>3. Quiet /\ machine'[a].tunnel
      BY <1>0, <1>1, <3>2, TunnelSavedQuiet
    <3>4. Used(k) /\ OnlyAt(a, k)
      BY <3>1, NoneApart DEF Used, Inv, Holders
    <3>5. Used(k)' /\ OnlyAt(a, k)'
      BY <3>3, <3>4, QuietKeeps
    <3>6. Real(k)'
      BY <3>3, <3>5 DEF Real, OnlyAt
    <3>7. setup' = [setup EXCEPT !.at = "install"]
      BY <1>4, <2>3 DEF ReceiveToken, AfterPush
    <3>8. setup'.entry = k
      BY <1>0, <2>1, <3>7 DEF TypeOK, SetupRecords
    <3>9. Installing'
      BY <3>6, <3>8 DEF Installing
    <3>10. QED
      BY <1>1, <1>2, <2>2, <3>3, <3>9, QuietFrame DEF Inv
  <2>4. CASE ~accepted
    <3>1. machine' = machine /\ setup' = NoSetup
      BY <1>4, <2>4 DEF ReceiveToken, AfterPush
    <3>2. Quiet /\ Installing'
      BY <1>1, <3>1, QuietWhenUnchanged DEF Installing, NoSetup
    <3>3. QED
      BY <1>1, <1>2, <2>2, <3>2, QuietFrame DEF Inv
  <2>5. QED
    BY <2>3, <2>4
<1>5. CASE SetupFails
  <2>1. UNCHANGED <<machine, workers>> /\ setup' = NoSetup
    BY <1>5 DEF SetupFails
  <2>2. Quiet /\ Installing'
    BY <1>1, <2>1, QuietWhenUnchanged DEF Installing, NoSetup
  <2>3. QED
    BY <1>1, <1>2, <2>1, <2>2, QuietFrame DEF Inv
<1>6. CASE MarkSetUp
  <2>1. PICK k \in Keys : k = setup.entry /\ Real(k)
    BY <1>6 DEF MarkSetUp, Inv, Installing
  <2>2. machine' = machine /\ setup' = NoSetup /\ workers' = WithTunnel(k)
    BY <1>6, <2>1 DEF MarkSetUp
  <2>3. Quiet /\ Installing'
    BY <1>1, <2>2, QuietWhenUnchanged DEF Installing, NoSetup
  <2>4. Recorded' /\ NodesPaired' /\ TokensSpent'
    BY <1>1, <2>1, <2>2, <2>3, TunnelRecorded
  <2>5. QED
    BY <1>1, <1>2, <2>3, <2>4, QuietFrame DEF Inv
<1>7. QED
  BY <1>3, <1>4, <1>5, <1>6

-----------------------------------------------------------------------------
(* The theorems.                                                           *)

\* At the start no machine is a worker.
LEMMA InitInv == Init => Inv
<1> SUFFICES ASSUME Init PROVE Inv
  OBVIOUS
<1>1. TypeOK
  <2>1. Off \in LoopRecords
    BY DEF Off, LoopRecords, LoopPlaces
  <2>2. limits.lost \in Nat /\ limits.crashes \in Nat
    BY ClusterAssumption DEF Init
  <2>3. QED
    BY <2>1, <2>2, RecordTypes DEF Init, TypeOK, LoopRecords
<1>2. Pairs /\ Holders /\ NodesPaired
  BY DEF Init, Pairs, Holders, NodesPaired, Blank
<1>3. Loops
  BY DEF Init, Loops, Off
<1>4. Enrolling
  BY DEF Init, Enrolling, HasKey, NoEnrollment
<1>5. Travelling /\ Recorded /\ Installing
  BY DEF Init, Travelling, Recorded, Installing, NoSetup
<1>6. TokensSpent
  BY NoneApart DEF Init, TokensSpent
<1>7. QED
  BY <1>1, <1>2, <1>3, <1>4, <1>5, <1>6 DEF Inv

\* Every step keeps the invariant.
LEMMA StepInv == Inv /\ [ClusterNext]_vars => Inv'
<1> SUFFICES ASSUME Inv, [ClusterNext]_vars PROVE Inv'
  OBVIOUS
<1>1. CASE \E t \in Tokens : CreateToken(t) \/ DropToken(t)
  BY <1>1, TokenKept
<1>2. ASSUME NEW e \in Enrollments,
             \/ \E m \in Machines, t \in Tokens, skip \in BOOLEAN : BeginEnroll(e, m, t, skip)
             \/ \E answered \in BOOLEAN : MasterEnrolls(e, answered)
             \/ \E m \in Machines, skip \in BOOLEAN : InitWorker(e, m, skip)
             \/ EnrollFails(e) \/ SaveEnrolled(e) \/ EnrolledTunnel(e) \/ ReportTunnel(e)
      PROVE  Inv'
  BY <1>2, BeginEnrollKept, MasterEnrollsKept, InitWorkerKept, EnrollFailsKept,
     SaveEnrolledKept, EnrolledTunnelKept, ReportTunnelKept
<1>3. ASSUME NEW m \in Machines,
             \/ AddWorker(m) \/ ResetMachine(m) \/ RestartMachine(m)
             \/ LoopStep(m) \/ TimesOut(m)
      PROVE  Inv'
  BY <1>3, AddWorkerKept, ResetMachineKept, RestartMachineKept, SendKept, TimesOutKept DEF LoopStep
<1>4. CASE \E k \in Keys : RemoveWorker(k) \/ BeginSetup(k)
  BY <1>4, RemoveWorkerKept, SetupKept
<1>5. CASE \E r \in net : Handle(r)
  BY <1>5, HandleKept DEF Handle
<1>6. CASE (\E n \in Ids : Silence(n)) \/ CheckStaleNodes
  BY <1>6, SilenceKept
<1>7. CASE RestartMaster
  BY <1>7, RestartMasterKept
<1>8. CASE ReceiveToken \/ SetupFails \/ MarkSetUp
  BY <1>8, SetupKept
<1>9. CASE UNCHANGED vars
  <2>1. /\ UNCHANGED <<machine, loop, enroll, token, workers, nodes, realId, net, setup>>
        /\ UNCHANGED <<madeBy, paired, removed, limits, lost, crashes>>
    BY <1>9 DEF vars, heard, history
  <2>2. Quiet
    BY <2>1, QuietWhenUnchanged
  <2>3. TypeOK'
    BY <2>1 DEF Inv, TypeOK
  <2>4. QED
    BY <2>1, <2>2, <2>3, QuietFrame DEF Inv
<1>10. QED
  BY <1>1, <1>2, <1>3, <1>4, <1>5, <1>6, <1>7, <1>8, <1>9 DEF ClusterNext

\* So it holds throughout.
LEMMA Invariant == ClusterSpec => []Inv
  BY InitInv, StepInv, PTL DEF ClusterSpec

\* The files of the machines and of the master, its memory, and what travels between
\* them have their types.
THEOREM TypeCorrect == ClusterSpec => []TypeOK
<1>1. Inv => TypeOK
  BY DEF Inv
<1>2. QED
  BY Invariant, <1>1, PTL

\* An enrollment token gives one key, and the master forgets no worker by itself,
\* whatever answers are lost and however many machines present the token.
THEOREM TokenEnrollsOnceHolds == ClusterSpec => []TokenEnrollsOnce
<1>1. Inv => TokenEnrollsOnce
  BY DEF Inv, TypeOK, MachineRecords, TokensSpent, TokenEnrollsOnce
<1>2. QED
  BY Invariant, <1>1, PTL

\* The nodes in the master's memory are those of configured workers, one for each,
\* however late a request arrives: an id is paired with one key for good.
THEOREM NodesAreWorkersHolds == ClusterSpec => []NodesAreWorkers
<1>1. Inv => NodesAreWorkers
  BY DEF Inv, NodesPaired, NodesAreWorkers
<1>2. QED
  BY Invariant, <1>1, PTL

\* A tunnel that the master has recorded is one its worker has saved, though reports,
\* heartbeats and setups of former configurations may still be on their way.
THEOREM TunnelsAreRealHolds == ClusterSpec => []TunnelsAreReal
<1>1. Inv => TunnelsAreReal
  BY DEF Inv, Recorded, Real, TunnelsAreReal
<1>2. QED
  BY Invariant, <1>1, PTL
=============================================================================
