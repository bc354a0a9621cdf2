---------------------------- MODULE NodeCluster ----------------------------
(***************************************************************************)
(* A master and its worker machines: enrollment with one-time tokens,      *)
(* registration, heartbeats, the staleness of nodes, and the Cloudflare    *)
(* tunnels of workers (node_config.py, nodes.py, and the routes of         *)
(* cluster_routes.py and cf_routes.py that use them).  A worker's requests *)
(* travel in `net`: they may be lost, may arrive after the worker gave     *)
(* them up, or be answered too late.  The master keeps its workers in its  *)
(* node.json, and what it has heard from them in memory only.              *)
(***************************************************************************)
EXTENDS Naturals, FiniteSets

CONSTANTS
    Machines,     \* the machines that may become workers
    Tokens,       \* enrollment tokens the master will ever make
    Keys,         \* api keys, in the order of their making; a worker's entry is named by its key
    Ids,          \* node ids, in the order of their making
    Enrollments,  \* enrollments that may be in progress at once
    Scenarios,    \* the bounds of a behaviour: one of these is chosen at the start
    None

ASSUME ClusterAssumption ==
    /\ Keys \subseteq Nat
    /\ Ids \subseteq Nat
    /\ Scenarios \subseteq
         [keys : Nat,             \* api keys that may be made
          lost : Nat,             \* requests and answers the network may lose or delay
          crashes : Nat,          \* restarts of the master
          skips : SUBSET BOOLEAN, \* whether workers are enrolled local-only
          setups : BOOLEAN]       \* whether the master sets tunnels up
    /\ Tokens \cap Machines = {}
    /\ None \notin Keys \cup Ids \cup Tokens \cup Machines

VARIABLES
    machine,   \* node.json of each machine
    loop,      \* heartbeat_sender_loop of the process that runs on it
    enroll,    \* enrollments in progress
    token,     \* state of each enrollment token
    workers,   \* the workers in the master's node.json
    nodes,     \* _nodes: what the master has heard, by the node id a worker reports
    realId,    \* _id_map: from a worker's entry to the node id it reported
    net,       \* requests of workers on their way to the master
    setup,     \* the tunnel setup the master runs for its workers
    madeBy,    \* keys made so far, and the token each was made for
    paired,    \* node ids made so far, and the key each is used with
    removed,   \* entries the operator has removed
    lost, crashes,
    limits     \* the scenario of this behaviour, which never changes

heard == <<nodes, realId>>
history == <<madeBy, paired, removed, limits>>
vars == <<machine, loop, enroll, token, workers, heard, net, setup, history, lost, crashes>>

-----------------------------------------------------------------------------
(* Records.                                                                *)

Blank == [key |-> None, id |-> None, tunnel |-> FALSE]
MachineRecords == [key : Keys \cup {None}, id : Ids \cup {None}, tunnel : BOOLEAN]

\* The loop works with the configuration it has read when the process started.
Off == [at |-> "off", key |-> None, id |-> None, tunnel |-> FALSE]
LoopPlaces ==
    {"off", "register", "registering", "beat", "beating", "again", "reregistering"}

Worker(m) == [address |-> m, tunnel |-> FALSE]
WorkerRecords == [address : Machines, tunnel : BOOLEAN]

NodeRecords == [entry : Keys, online : BOOLEAN, recent : BOOLEAN]

ASSUME NoneAssumption == None \notin WorkerRecords \cup NodeRecords

NoEnrollment == [at |-> "idle", machine |-> None, token |-> None, key |-> None, skip |-> FALSE]

NoSetup == [at |-> "idle", entry |-> None]

Request(kind, m) ==
    [kind |-> kind, from |-> m, key |-> loop[m].key, id |-> loop[m].id,
     tunnel |-> loop[m].tunnel]
Requests ==
    [kind : {"register", "beat"}, from : Machines, key : Keys, id : Ids, tunnel : BOOLEAN]

\* generate_api_key, generate_node_id: the next unused one.
IsNext(x, S, f) == x <= limits.keys /\ f[x] = None /\ \A y \in S : f[y] = None => x <= y

Known(k) == k # None /\ workers[k] # None

-----------------------------------------------------------------------------
Init ==
    /\ machine = [m \in Machines |-> Blank]
    /\ loop = [m \in Machines |-> Off]
    /\ enroll = [e \in Enrollments |-> NoEnrollment]
    /\ token = [t \in Tokens |-> "unmade"]
    /\ workers = [k \in Keys |-> None]
    /\ nodes = [n \in Ids |-> None]
    /\ realId = [k \in Keys |-> None]
    /\ net = {}
    /\ setup = NoSetup
    /\ madeBy = [k \in Keys |-> None]
    /\ paired = [n \in Ids |-> None]
    /\ removed = {}
    /\ lost = 0
    /\ crashes = 0
    /\ limits \in Scenarios

-----------------------------------------------------------------------------
(* Enrollment tokens.                                                      *)

CreateToken(t) ==
    /\ token[t] = "unmade"
    /\ token' = [token EXCEPT ![t] = "live"]
    /\ UNCHANGED <<machine, loop, enroll, workers, heard, net, setup, history, lost, crashes>>

\* An unused token expires, or the operator cancels it.
DropToken(t) ==
    /\ token[t] = "live"
    /\ token' = [token EXCEPT ![t] = "gone"]
    /\ UNCHANGED <<machine, loop, enroll, workers, heard, net, setup, history, lost, crashes>>

\* Variant of Consumed: the token stays good until it expires.
KeptToken(t) == [token EXCEPT ![t] = "live"]

\* consume_enrollment_token.
Consumed(t) == [token EXCEPT ![t] = "gone"]

-----------------------------------------------------------------------------
(* Enrollment: the worker asks, the master answers with a key, the worker  *)
(* writes its configuration and sets up its tunnel.                        *)

\* config_enroll_worker: only an unconfigured machine asks.
BeginEnroll(e, m, t, skip) ==
    /\ enroll[e].at = "idle"
    /\ machine[m].key = None
    /\ token[t] # "unmade"
    /\ skip \in limits.skips
    /\ enroll' = [enroll EXCEPT ![e] =
            [at |-> "asked", machine |-> m, token |-> t, key |-> None, skip |-> skip]]
    /\ UNCHANGED <<machine, loop, token, workers, heard, net, setup, history, lost, crashes>>

\* enroll_worker at the master; the answer may be lost.
MasterEnrolls(e, answered) ==
    LET m == enroll[e].machine
        t == enroll[e].token IN
    /\ enroll[e].at = "asked"
    /\ token[t] = "live"
    /\ answered \/ lost < limits.lost
    /\ \E k \in Keys :
         /\ IsNext(k, Keys, madeBy)
         /\ token' = Consumed(t)
         /\ madeBy' = [madeBy EXCEPT ![k] = t]
         /\ workers' = [workers EXCEPT ![k] = Worker(m)]
         /\ enroll' = [enroll EXCEPT ![e] =
                IF answered THEN [@ EXCEPT !.at = "answered", !.key = k] ELSE NoEnrollment]
    /\ lost' = IF answered THEN lost ELSE lost + 1
    /\ UNCHANGED <<machine, loop, heard, net, setup, paired, removed, limits, crashes>>

\* The token is refused, or the master is not reached.
EnrollFails(e) ==
    /\ enroll[e].at = "asked"
    /\ \/ token[enroll[e].token] # "live" /\ lost' = lost
       \/ lost < limits.lost /\ lost' = lost + 1
    /\ enroll' = [enroll EXCEPT ![e] = NoEnrollment]
    /\ UNCHANGED <<machine, loop, token, workers, heard, net, setup, history, crashes>>

\* init_as_worker: whatever the machine has become since it asked.
Configured(m, k, n) == [machine EXCEPT ![m].key = k, ![m].id = n, ![m].tunnel = FALSE]

SaveEnrolled(e) ==
    LET m == enroll[e].machine
        k == enroll[e].key IN
    /\ enroll[e].at = "answered"
    /\ \E n \in Ids :
         /\ IsNext(n, Ids, paired)
         /\ machine' = Configured(m, k, n)
         /\ paired' = [paired EXCEPT ![n] = k]
    /\ enroll' = [enroll EXCEPT ![e] =
            IF enroll[e].skip THEN NoEnrollment ELSE [@ EXCEPT !.at = "tunnel"]]
    /\ UNCHANGED <<loop, token, workers, heard, net, setup, madeBy, removed, limits, lost, crashes>>

\* _setup_enrolled_worker_tunnel: tunnel, token and connector, any of which may fail,
\* then set_tunnel_id in the configuration of that moment.
EnrolledTunnel(e) ==
    LET m == enroll[e].machine IN
    /\ enroll[e].at = "tunnel"
    /\ \/ /\ machine[m].key # None
          /\ machine' = [machine EXCEPT ![m].tunnel = TRUE]
          /\ enroll' = [enroll EXCEPT ![e].at = "report"]
       \/ /\ enroll' = [enroll EXCEPT ![e] = NoEnrollment]
          /\ UNCHANGED machine
    /\ UNCHANGED <<loop, token, workers, heard, net, setup, history, lost, crashes>>

\* set_worker_tunnel_id_for_api_key.
WithTunnel(k) ==
    IF Known(k) THEN [workers EXCEPT ![k].tunnel = TRUE] ELSE workers

\* _report_worker_tunnel_to_master; a report that fails is left to the heartbeats.
ReportTunnel(e) ==
    /\ enroll[e].at = "report"
    /\ \E arrives \in BOOLEAN : workers' = IF arrives THEN WithTunnel(enroll[e].key) ELSE workers
    /\ enroll' = [enroll EXCEPT ![e] = NoEnrollment]
    /\ UNCHANGED <<machine, loop, token, heard, net, setup, history, lost, crashes>>

\* config_init_worker: the machine makes its own key, for the operator to add; the
\* tunnel follows as after an enrollment.
InitWorker(e, m, skip) ==
    /\ enroll[e].at = "idle"
    /\ machine[m].key = None
    /\ skip \in limits.skips
    /\ \E k \in Keys, n \in Ids :
         /\ IsNext(k, Keys, madeBy)
         /\ IsNext(n, Ids, paired)
         /\ machine' = Configured(m, k, n)
         /\ madeBy' = [madeBy EXCEPT ![k] = m]
         /\ paired' = [paired EXCEPT ![n] = k]
         /\ enroll' = IF skip THEN enroll
                      ELSE [enroll EXCEPT ![e] = [NoEnrollment EXCEPT
                              !.at = "tunnel", !.machine = m, !.key = k]]
    /\ UNCHANGED <<loop, token, workers, heard, net, setup, removed, limits, lost, crashes>>

\* config_add_worker, with the key that a worker shows; also one removed before.
AddWorker(m) ==
    LET k == machine[m].key IN
    /\ k # None
    /\ workers[k] = None
    /\ workers' = [workers EXCEPT ![k] = Worker(m)]
    /\ removed' = removed \ {k}
    /\ UNCHANGED <<machine, loop, enroll, token, heard, net, setup, madeBy, paired, limits, lost, crashes>>

\* config_remove_worker: remove_worker, then unregister_node.
Unregistered(k) == [n \in Ids |-> IF n = realId[k] THEN None ELSE nodes[n]]

RemoveWorker(k) ==
    /\ workers[k] # None
    /\ workers' = [workers EXCEPT ![k] = None]
    /\ nodes' = Unregistered(k)
    /\ realId' = [realId EXCEPT ![k] = None]
    /\ removed' = removed \cup {k}
    /\ UNCHANGED <<machine, loop, enroll, token, net, setup, madeBy, paired, limits, lost, crashes>>

\* config_reset: node.json goes; the loop keeps what it has read.
ResetMachine(m) ==
    /\ machine[m].key # None
    /\ machine' = [machine EXCEPT ![m].key = None, ![m].id = None, ![m].tunnel = FALSE]
    /\ UNCHANGED <<loop, enroll, token, workers, heard, net, setup, history, lost, crashes>>

\* Variant of Booted: the loop starts also where nothing is configured.
AlwaysBooted(m) ==
    [at |-> "register", key |-> machine[m].key, id |-> machine[m].id,
     tunnel |-> machine[m].tunnel]

\* The worker's process starts again; only now is there a loop for its new role.
Booted(m) ==
    IF machine[m].key = None THEN Off
    ELSE [at |-> "register", key |-> machine[m].key, id |-> machine[m].id,
          tunnel |-> machine[m].tunnel]

RestartMachine(m) ==
    /\ loop' = [loop EXCEPT ![m] = Booted(m)]
    /\ enroll' = [e \in Enrollments |->
                    IF enroll[e].machine = m THEN NoEnrollment ELSE enroll[e]]
    /\ setup' = IF setup.at = "install" /\ workers[setup.entry] # None
                   /\ workers[setup.entry].address = m
                THEN NoSetup ELSE setup
    /\ UNCHANGED <<machine, token, workers, heard, net, history, lost, crashes>>

-----------------------------------------------------------------------------
(* heartbeat_sender_loop.                                                  *)

Goto(m, at) == [loop EXCEPT ![m].at = at]

\* What the loop sends where, and where it waits for the answer.
SendRegister(m) ==
    /\ loop[m].at \in {"register", "again"}
    /\ net' = net \cup {Request("register", m)}
    /\ loop' = Goto(m, IF loop[m].at = "register" THEN "registering" ELSE "reregistering")
    /\ UNCHANGED <<machine, enroll, token, workers, heard, setup, history, lost, crashes>>

\* Variant of CurrentTunnel: the one read when the process started.
TunnelAtStart(m) == loop[m].tunnel

\* current_tunnel_id: of the configuration of this moment, if there is one.
CurrentTunnel(m) == IF machine[m].key = None THEN loop[m].tunnel ELSE machine[m].tunnel

SendBeat(m) ==
    LET tunnel == CurrentTunnel(m) IN
    /\ loop[m].at = "beat"
    /\ net' = net \cup {[Request("beat", m) EXCEPT !.tunnel = tunnel]}
    /\ loop' = [loop EXCEPT ![m].at = "beating", ![m].tunnel = (@ \/ tunnel)]
    /\ UNCHANGED <<machine, enroll, token, workers, heard, setup, history, lost, crashes>>

\* Where the loop goes on after an answer, or after none.
After(at, status) ==
    CASE at = "registering" -> IF status = 200 THEN "beat" ELSE "register"
      [] at = "beating" /\ status = 404 -> "again"
      [] OTHER -> "beat"

WaitsFor(r) ==
    /\ loop[r.from].key = r.key
    /\ loop[r.from].id = r.id
    /\ \/ r.kind = "beat" /\ loop[r.from].at = "beating"
       \/ r.kind = "register" /\ loop[r.from].at \in {"registering", "reregistering"}

Answered(r, status) ==
    IF WaitsFor(r) THEN Goto(r.from, After(loop[r.from].at, status)) ELSE loop

\* Variant of MayRegister: the key is looked at for its address only.
MayRegisterUnknown(r) == workers[r.key] # None => workers[r.key].address = r.from

\* register_node: the key names the entry; the address must be the one configured.
MayRegister(r) == Known(r.key) /\ workers[r.key].address = r.from

Heard(r) == [entry |-> r.key, online |-> TRUE, recent |-> TRUE]

Tunneled(r) == IF r.tunnel THEN WithTunnel(r.key) ELSE workers

\* An answer is lost, or comes when the worker no longer waits.
Answer(r, status) ==
    \/ /\ loop' = Answered(r, status)
       /\ lost' = lost
    \/ /\ WaitsFor(r)
       /\ lost < limits.lost
       /\ lost' = lost + 1
       /\ loop' = Answered(r, 0)

HandleRegister(r) ==
    /\ r.kind = "register"
    /\ net' = net \ {r}
    /\ IF MayRegister(r)
       THEN /\ nodes' = [nodes EXCEPT ![r.id] = Heard(r)]
            /\ realId' = [realId EXCEPT ![r.key] = r.id]
            /\ workers' = Tunneled(r)
            /\ Answer(r, 200)
       ELSE UNCHANGED <<heard, workers>> /\ Answer(r, 401)
    /\ UNCHANGED <<machine, enroll, token, setup, history, crashes>>

\* Variant of KeyFits: a node the master does not know is turned away.
KeyFitsKnown(r) == Known(r.key) /\ nodes[r.id] # None /\ nodes[r.id].entry = r.key

\* validate_heartbeat_key: of a node that is registered, the key must be the one of
\* its entry; a node that is not goes on to the 404 that makes it register again.
KeyFits(r) == Known(r.key) /\ (nodes[r.id] = None \/ nodes[r.id].entry = r.key)

HandleBeat(r) ==
    /\ r.kind = "beat"
    /\ net' = net \ {r}
    /\ IF KeyFits(r) /\ nodes[r.id] # None
       THEN /\ nodes' = [nodes EXCEPT ![r.id] = Heard(r)]
            /\ workers' = Tunneled(r)
            /\ Answer(r, 200)
       ELSE /\ UNCHANGED <<nodes, workers>>
            /\ Answer(r, IF KeyFits(r) THEN 404 ELSE 401)
    /\ UNCHANGED <<machine, enroll, token, realId, setup, history, crashes>>

\* The worker gives a request up, which is lost or still on its way.
TimesOut(m) ==
    /\ loop[m].at \in {"registering", "beating", "reregistering"}
    /\ lost < limits.lost
    /\ lost' = lost + 1
    /\ loop' = Goto(m, After(loop[m].at, 0))
    /\ \E gone \in SUBSET {r \in net : r.from = m} : net' = net \ gone
    /\ UNCHANGED <<machine, enroll, token, workers, heard, setup, history, crashes>>

-----------------------------------------------------------------------------
(* What the master makes of silence and of its own restarts.               *)

\* STALE_THRESHOLD passes without a sign of the node.
Silence(n) ==
    /\ nodes[n] # None
    /\ nodes[n].recent
    /\ nodes' = [nodes EXCEPT ![n].recent = FALSE]
    /\ UNCHANGED <<machine, loop, enroll, token, workers, realId, net, setup, history, lost, crashes>>

\* Variant of Stale: nodes of configured workers are left as they are.
StaleOfRemoved(node) == node # None /\ ~node.recent /\ workers[node.entry] = None

Stale(node) == node # None /\ ~node.recent

CheckStaleNodes ==
    /\ nodes' = [n \in Ids |-> IF Stale(nodes[n]) THEN [nodes[n] EXCEPT !.online = FALSE]
                               ELSE nodes[n]]
    /\ nodes' # nodes
    /\ UNCHANGED <<machine, loop, enroll, token, workers, realId, net, setup, history, lost, crashes>>

RestartMaster ==
    /\ crashes < limits.crashes
    /\ crashes' = crashes + 1
    /\ nodes' = [n \in Ids |-> None]
    /\ realId' = [k \in Keys |-> None]
    /\ setup' = NoSetup
    /\ UNCHANGED <<machine, loop, enroll, token, workers, net, history, lost>>

-----------------------------------------------------------------------------
(* Tunnels the master sets up for its workers (_setup_worker_tunnel).      *)

\* For one worker, or for one of the list of those that have no tunnel: the list may
\* be old, and the tunnel cannot be made.
BeginSetup(k) ==
    /\ limits.setups
    /\ setup.at = "idle"
    /\ workers[k] # None
    /\ setup' = [at |-> "push", entry |-> k]
    /\ UNCHANGED <<machine, loop, enroll, token, workers, heard, net, history, lost, crashes>>

\* Variant of AfterPush: the worker's refusal is not looked at.
AfterAnyPush(accepted) == [setup EXCEPT !.at = "install"]

AfterPush(accepted) == IF accepted THEN [setup EXCEPT !.at = "install"] ELSE NoSetup

\* api_receive_tunnel_token: the worker checks the key and saves the tunnel id before
\* it installs the connector.
ReceiveToken ==
    LET k == setup.entry
        m == IF workers[k] = None THEN None ELSE workers[k].address
        accepted == m # None /\ machine[m].key = k IN
    /\ setup.at = "push"
    /\ machine' = IF accepted THEN [machine EXCEPT ![m].tunnel = TRUE] ELSE machine
    /\ setup' = AfterPush(accepted)
    /\ UNCHANGED <<loop, enroll, token, workers, heard, net, history, lost, crashes>>

\* setup_cloudflared_user_service fails, or its answer is lost.
SetupFails ==
    /\ setup.at = "install"
    /\ setup' = NoSetup
    /\ UNCHANGED <<machine, loop, enroll, token, workers, heard, net, history, lost, crashes>>

\* set_worker_tunnel_id, only after the worker's answer.
MarkSetUp ==
    /\ setup.at = "install"
    /\ workers' = WithTunnel(setup.entry)
    /\ setup' = NoSetup
    /\ UNCHANGED <<machine, loop, enroll, token, heard, net, history, lost, crashes>>

-----------------------------------------------------------------------------
LoopStep(m) == SendRegister(m) \/ SendBeat(m)

Handle(r) == HandleRegister(r) \/ HandleBeat(r)

ClusterNext ==
    \/ \E t \in Tokens : CreateToken(t) \/ DropToken(t)
    \/ \E e \in Enrollments :
         \/ \E m \in Machines, t \in Tokens, skip \in BOOLEAN : BeginEnroll(e, m, t, skip)
         \/ \E answered \in BOOLEAN : MasterEnrolls(e, answered)
         \/ \E m \in Machines, skip \in BOOLEAN : InitWorker(e, m, skip)
         \/ EnrollFails(e) \/ SaveEnrolled(e) \/ EnrolledTunnel(e) \/ ReportTunnel(e)
    \/ \E m \in Machines :
         \/ AddWorker(m) \/ ResetMachine(m) \/ RestartMachine(m)
         \/ LoopStep(m) \/ TimesOut(m)
    \/ \E k \in Keys : RemoveWorker(k) \/ BeginSetup(k)
    \/ \E r \in net : Handle(r)
    \/ \E n \in Ids : Silence(n)
    \/ CheckStaleNodes \/ RestartMaster
    \/ ReceiveToken \/ SetupFails \/ MarkSetUp

\* What the event loops and the network owe: a loop goes on, a request of a worker is
\* answered, time passes and the stale checker runs.
Fairness ==
    /\ \A m \in Machines :
         /\ WF_vars(LoopStep(m))
         /\ WF_vars(\E r \in net : r.from = m /\ Handle(r))
    /\ \A n \in Ids : WF_vars(Silence(n))
    /\ WF_vars(CheckStaleNodes)

ClusterSpec == Init /\ [][ClusterNext]_vars /\ Fairness

-----------------------------------------------------------------------------
(* Properties.                                                             *)

EnrollmentRecords ==
    [at : {"idle", "asked", "answered", "tunnel", "report"}, machine : Machines \cup {None},
     token : Tokens \cup {None}, key : Keys \cup {None}, skip : BOOLEAN]

SetupRecords ==
    [at : {"idle", "push", "install"}, entry : Keys \cup {None}]

TypeOK ==
    /\ machine \in [Machines -> MachineRecords]
    /\ loop \in [Machines -> [at : LoopPlaces, key : Keys \cup {None}, id : Ids \cup {None},
                              tunnel : BOOLEAN]]
    /\ enroll \in [Enrollments -> EnrollmentRecords]
    /\ token \in [Tokens -> {"unmade", "live", "gone"}]
    /\ workers \in [Keys -> WorkerRecords \cup {None}]
    /\ nodes \in [Ids -> NodeRecords \cup {None}]
    /\ realId \in [Keys -> Ids \cup {None}]
    /\ net \subseteq Requests
    /\ setup \in SetupRecords
    /\ madeBy \in [Keys -> Tokens \cup Machines \cup {None}]
    /\ paired \in [Ids -> Keys \cup {None}]
    /\ removed \subseteq Keys
    /\ lost \in 0..limits.lost
    /\ crashes \in 0..limits.crashes
    /\ limits \in Scenarios

\* A token enrolls one worker, however often it is presented and whatever answers are
\* lost, and a machine that was enrolled is known to the master until the operator
\* removes it: no worker holds a key that the master has forgotten by itself.
TokenEnrollsOnce ==
    /\ \A j, k \in Keys : madeBy[j] \in Tokens /\ madeBy[j] = madeBy[k] => j = k
    /\ \A m \in Machines :
         LET k == machine[m].key IN
         k # None /\ madeBy[k] \in Tokens => workers[k] # None \/ k \in removed

\* The nodes the master keeps in memory are those of configured workers, one for each:
\* requests delayed beyond the removal of a worker bring no node of it back.
NodesAreWorkers ==
    \A n \in Ids : nodes[n] # None =>
        /\ workers[nodes[n].entry] # None
        /\ realId[nodes[n].entry] = n

\* The master records a tunnel for a worker only if the machine that holds the
\* worker's key has saved one: otherwise the dashboard would no longer offer to set
\* the tunnel up.
TunnelsAreReal ==
    \A k \in Keys, m \in Machines :
        workers[k] # None /\ workers[k].tunnel /\ machine[m].key = k => machine[m].tunnel

\* The loop of a machine runs with the configuration the machine has, and the master
\* knows the worker at this address.
Working(m) ==
    /\ loop[m].at # "off"
    /\ loop[m].key = machine[m].key
    /\ Known(machine[m].key)
    /\ workers[machine[m].key].address = m

Online(n) == n # None /\ nodes[n] # None /\ nodes[n].online

\* A worker that keeps running is shown online again and again, also after the master
\* has restarted and forgotten it (the 404 that makes it register again).
WorkerComesBack ==
    \A m \in Machines : <>[]Working(m) => []<>Online(loop[m].id)

\* A node that no process speaks for any more is shown offline, or not at all.
SilentGoesOffline ==
    \A n \in Ids : <>[](\A m \in Machines : loop[m].id # n) => <>[](~Online(n))

\* The tunnel of a running worker reaches the master though the report of the setup
\* may fail: the heartbeats carry it.
TunnelIsReported ==
    \A m \in Machines :
        <>[](Working(m) /\ machine[m].tunnel) =>
            <>(Known(machine[m].key) /\ workers[machine[m].key].tunnel)
=============================================================================
