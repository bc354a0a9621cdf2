-------------------------- MODULE MCAdministration --------------------------
(***************************************************************************)
(* What a node's administration keeps, in one instance for TLC: the        *)
(* cluster, the access tokens and the sign-ins.  These parts share no      *)
(* state, so that a behaviour moves one of them, chosen at the start, and  *)
(* the others rest.                                                        *)
(***************************************************************************)
EXTENDS MCNodeCluster, AccessTokens, Logins

CONSTANTS s1, s2

VARIABLE part

ThreeBearers == 1..3
TwoTargets == {s1, s2}
SomeGrants ==
    {[kind |-> "service", target |-> s1, capability |-> "read"],
     [kind |-> "service", target |-> s1, capability |-> "operate"],
     [kind |-> "mcp", scopes |-> {"write"}, profiles |-> {s1}]}

AdministrationInit ==
    /\ Init /\ TokensInit /\ LoginsInit
    /\ part \in {"cluster", "tokens", "logins"}
    /\ part # "cluster" => limits = Tunnels

ClusterMoves == part = "cluster" /\ UNCHANGED <<tokenVars, loginVars, part>>
TokensMove == part = "tokens" /\ UNCHANGED <<vars, loginVars, part>>
LoginsMove == part = "logins" /\ UNCHANGED <<vars, tokenVars, part>>

\* ClusterNext, TokensNext and LoginsNext, one action on a line.
AdministrationNext ==
    \/ \E t \in Tokens : ClusterMoves /\ CreateToken(t)
    \/ \E t \in Tokens : ClusterMoves /\ DropToken(t)
    \/ \E e \in Enrollments, m \in Machines, t \in Tokens, skip \in BOOLEAN :
         ClusterMoves /\ BeginEnroll(e, m, t, skip)
    \/ \E e \in Enrollments, answered \in BOOLEAN : ClusterMoves /\ MasterEnrolls(e, answered)
    \/ \E e \in Enrollments, m \in Machines, skip \in BOOLEAN :
         ClusterMoves /\ InitWorker(e, m, skip)
    \/ \E e \in Enrollments : ClusterMoves /\ EnrollFails(e)
    \/ \E e \in Enrollments : ClusterMoves /\ SaveEnrolled(e)
    \/ \E e \in Enrollments : ClusterMoves /\ EnrolledTunnel(e)
    \/ \E e \in Enrollments : ClusterMoves /\ ReportTunnel(e)
    \/ \E m \in Machines : ClusterMoves /\ AddWorker(m)
    \/ \E m \in Machines : ClusterMoves /\ ResetMachine(m)
    \/ \E m \in Machines : ClusterMoves /\ RestartMachine(m)
    \/ \E m \in Machines : ClusterMoves /\ LoopStep(m)
    \/ \E m \in Machines : ClusterMoves /\ TimesOut(m)
    \/ \E k \in Keys : ClusterMoves /\ RemoveWorker(k)
    \/ \E k \in Keys : ClusterMoves /\ BeginSetup(k)
    \/ \E r \in net : ClusterMoves /\ Handle(r)
    \/ \E n \in Ids : ClusterMoves /\ Silence(n)
    \/ ClusterMoves /\ CheckStaleNodes
    \/ ClusterMoves /\ RestartMaster
    \/ ClusterMoves /\ ReceiveToken
    \/ ClusterMoves /\ SetupFails
    \/ ClusterMoves /\ MarkSetUp
    \/ \E t \in Bearers, g \in Grants, written \in BOOLEAN :
         TokensMove /\ CreateBearer(t, g, written)
    \/ \E t \in Bearers, u \in Bearers, written \in BOOLEAN :
         TokensMove /\ RotateBearer(t, u, written)
    \/ \E t \in Bearers, written \in BOOLEAN : TokensMove /\ RevokeBearer(t, written)
    \/ \E written \in BOOLEAN : TokensMove /\ WriteConfig(written)
    \/ TokensMove /\ RefuseUnknown
    \/ TokensMove /\ RestartProcess
    \/ TokensMove /\ ResetConfig
    \/ TokensMove /\ Clock
    \/ \E c \in Clients : LoginsMove /\ LoginRefused(c)
    \/ \E c \in Clients : LoginsMove /\ LoginFails(c)
    \/ \E c \in Clients : LoginsMove /\ LoginSucceeds(c)
    \/ \E id \in SessionIds : LoginsMove /\ Logout(id)
    \/ \E id \in SessionIds : LoginsMove /\ ForgetExpired(id)
    \/ LoginsMove /\ SetPassword
    \/ LoginsMove /\ LoginsTick
    \/ \E keep \in BOOLEAN : LoginsMove /\ ForgetLogins(keep)

AdministrationSpec ==
    /\ AdministrationInit
    /\ [][AdministrationNext]_<<vars, tokenVars, loginVars, part>>
    /\ Fairness

\* Every variable of these parts has values of its kind.
AdministrationTypeOK == TypeOK /\ TokensTypeOK /\ LoginsTypeOK
=============================================================================
