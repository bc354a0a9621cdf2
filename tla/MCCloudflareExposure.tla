------------------------ MODULE MCCloudflareExposure ------------------------
(***************************************************************************)
(* What a node shows through Cloudflare, in one instance for TLC: the      *)
(* exposure of profiles and the dashboard.  Their objects carry different  *)
(* hostnames and names, so that they share no state: a behaviour moves one *)
(* of them, chosen at the start, and the other rests.                      *)
(***************************************************************************)
EXTENDS CloudflareExposure, DashboardAccess, TLC

CONSTANTS pa, pb, ha, ia, ib, ta, xa, ra, d1, d2, d3, e1

VARIABLE part

TwoProfiles == {pa, pb}
OneHost == {ha}
TwoPolicies == {ia, ib}
OneToken == {ta}
External == {xa}
OneRequest == {ra}
CallsFail == {"fails"}
ProfileSymmetry == Permutations(TwoProfiles)

\* Two hostnames of the dashboard, the second in another zone; or one, and a service's
\* or another node's.
TwoDashboards == {d1, d2}
OneService == {d3}
OneOther == {e1}
InZone == {d1, d3}
DashboardCases == {{d1, d2}, {d1, d3}, {d1, e1}}
OneTunnel == {1}

ShownInit ==
    /\ Init /\ AccessInit
    /\ part \in {"exposure", "dashboard"}
    /\ part # "dashboard" => used = {d1, d2}

ExposureMoves == part = "exposure" /\ UNCHANGED <<accessVars, part>>
DashboardMoves == part = "dashboard" /\ UNCHANGED <<vars, used, part>>

\* Next and AccessNext, one action on a line.
ShownNext ==
    \/ \E r \in Requests, p \in Profiles, h \in Hosts, t \in Tokens \cup {None} :
         ExposureMoves /\ BeginProvision(r, p, h, t)
    \/ \E r \in Requests, p \in Profiles, op \in {"remove", "delete"}, d \in BOOLEAN :
         ExposureMoves /\ BeginRemove(r, p, op, d)
    \/ \E r \in Requests, record \in cleanup : ExposureMoves /\ BeginRetry(r, record)
    \/ \E r \in Requests, p \in Profiles : ExposureMoves /\ BeginGenerate(r, p)
    \/ \E r \in Requests, p \in Profiles, t \in Tokens : ExposureMoves /\ BeginRotate(r, p, t)
    \/ \E r \in Requests, p \in Profiles, t \in Tokens, d \in BOOLEAN :
         ExposureMoves /\ BeginRetire(r, p, t, d)
    \/ \E r \in Requests : ExposureMoves /\ ReadRoutes(r)
    \/ \E r \in Requests : ExposureMoves /\ WriteRoutes(r)
    \/ \E r \in Requests : ExposureMoves /\ CreateDns(r)
    \/ \E r \in Requests : ExposureMoves /\ ProvisionToken(r)
    \/ \E r \in Requests : ExposureMoves /\ CreatePolicy(r)
    \/ \E r \in Requests : ExposureMoves /\ CreateApp(r)
    \/ \E r \in Requests : ExposureMoves /\ ReadForRemoval(r)
    \/ \E r \in Requests : ExposureMoves /\ RemoveRoute(r)
    \/ \E r \in Requests : ExposureMoves /\ DeleteObject(r)
    \/ \E r \in Requests : ExposureMoves /\ GenerateToken(r)
    \/ \E r \in Requests : ExposureMoves /\ GenerateAdmit(r)
    \/ \E r \in Requests : ExposureMoves /\ Rotate(r)
    \/ \E r \in Requests : ExposureMoves /\ RetireAdmit(r)
    \/ \E r \in Requests : ExposureMoves /\ RetireDelete(r)
    \/ \E record \in cleanup : ExposureMoves /\ Forget(record)
    \/ \E p \in Profiles, h \in Hosts \cup {None} : ExposureMoves /\ Configure(p, h)
    \/ \E p \in Profiles : ExposureMoves /\ DeleteUnexposed(p)
    \/ \E n \in TunnelNames : DashboardMoves /\ InitNode(n)
    \/ \E policy \in AccessPolicies \cup {Nothing} : DashboardMoves /\ SaveSetup(policy)
    \/ \E policy \in AccessPolicies \cup {Nothing}, h \in OtherHosts \cap used :
         DashboardMoves /\ OtherApp(h, policy)
    \/ \E policy \in AccessPolicies : DashboardMoves /\ CreatePolicyAgain(policy)
    \/ \E h \in ServiceHosts \cap used : DashboardMoves /\ ExposeHost(h)
    \/ \E h \in DashboardHosts \cap used : DashboardMoves /\ BeginEnable(h)
    \/ DashboardMoves /\ ClearSetup
    \/ DashboardMoves /\ ResetNode
    \/ DashboardMoves /\ GivesUp
    \/ DashboardMoves /\ MakeTunnel
    \/ DashboardMoves /\ InitTunnel
    \/ DashboardMoves /\ AddRoute
    \/ DashboardMoves /\ InstallConnector
    \/ DashboardMoves /\ MakeRecord
    \/ DashboardMoves /\ MakeApp
    \/ DashboardMoves /\ BeginDisable
    \/ DashboardMoves /\ RemoveDashboardRoute
    \/ DashboardMoves /\ RemoveRecord
    \/ DashboardMoves /\ RemoveApp
    \/ DashboardMoves /\ BeginUninstall
    \/ DashboardMoves /\ DeleteApps
    \/ DashboardMoves /\ DeleteRecords
    \/ DashboardMoves /\ DeletePolicies
    \/ DashboardMoves /\ FinishUninstall
    \/ DashboardMoves /\ BreakOff

ShownSpec == ShownInit /\ [][ShownNext]_<<vars, accessVars, part>>

\* Every variable of these parts has values of its kind.
ShownTypeOK == TypeOK /\ AccessTypeOK
=============================================================================
