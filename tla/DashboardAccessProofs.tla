------------------------ MODULE DashboardAccessProofs ------------------------
(***************************************************************************)
(* Theorems about DashboardAccess: its types, and what the access of the   *)
(* dashboard promises (DashboardSound), for any hostnames, policies and    *)
(* tunnels, wherever a request or the process breaks off and whichever     *)
(* call fails; and that what one run checks of the dashboard and of the    *)
(* exposure of profiles (CloudflareExposure) is checked of each.           *)
(***************************************************************************)
EXTENDS MCCloudflareExposure, CloudflareExposureProofs, TLAPS

Enablings ==
    [op : {"enable"}, at : {"create", "init", "route", "connector", "dns", "app"},
     host : DashboardHosts, tunnel : TunnelIds \cup {Nothing},
     policy : AccessPolicies \cup {Nothing}, new : BOOLEAN]

Disablings == [op : {"disable"}, at : {"route", "dns", "app"}, host : DashboardHosts]

Plans ==
    [dns : SUBSET NodeHosts, apps : SUBSET NodeHosts,
     policies : SUBSET (AccessPolicies \cup {Nothing}), tunnel : TunnelIds \cup {Nothing}]

Uninstallations ==
    [op : {"uninstall"}, at : {"apps", "dns", "policies", "tunnel"}, plan : Plans, clean : BOOLEAN]

Calls == {Waiting} \cup Enablings \cup Disablings \cup Uninstallations

\* The types, also of what a call knows.
Typed ==
    /\ node \in NodeRecords \cup {Nothing}
    /\ exposed \subseteq ServiceHosts
    /\ connector \in TunnelIds \cup {Nothing}
    /\ tunnelOf \in [TunnelNames -> TunnelIds \cup {Nothing}]
    /\ routesOf \in [TunnelIds -> SUBSET NodeHosts]
    /\ records \in [NodeHosts -> TunnelIds \cup {Nothing}]
    /\ accessApps \in [NodeHosts \cup OtherHosts -> AccessPolicies \cup {Nothing}]
    /\ policies \subseteq AccessPolicies
    /\ call \in Calls
    /\ known \in HistoryRecords
    /\ used \in HostSets

-----------------------------------------------------------------------------
(* What holds between the steps.                                           *)

\* The node has a tunnel before it has a dashboard, and an enabling works with the
\* tunnel of the node from the moment that is recorded.
TunnelFirst ==
    /\ IsConfigured /\ node.dashboard # Nothing => node.tunnel # Nothing
    /\ call.op = "enable" /\ call.at \in {"create", "init"} =>
         call.new /\ (IsConfigured => node.tunnel = Nothing)
    /\ call.op = "enable" /\ call.at = "init" => call.tunnel # Nothing
    /\ call.op = "enable" /\ call.at \in {"route", "connector", "dns", "app"} =>
         call.tunnel # Nothing /\ (IsConfigured => node.tunnel = call.tunnel)
    /\ call.op = "enable" /\ call.at = "connector" => call.new

\* As long as no enabling was cut off, the connector serves the tunnel of the node,
\* except while the first enabling has still to install it.
ConnectorServes ==
    ~known.cut =>
      /\ call.op = "enable" => IsConfigured
      /\ IF IsConfigured /\ node.tunnel # Nothing
         THEN \/ connector = node.tunnel
              \/ /\ connector = Nothing
                 /\ call.op = "enable" /\ call.new /\ call.at \in {"route", "connector"}
         ELSE connector = Nothing

\* What an enabling has made so far is there.
EnablingKeeps ==
    call.op = "enable" =>
        /\ ~known.cleaned
        /\ IsConfigured /\ node.dashboard # Nothing => ~known.leaving
        /\ call.at \in {"connector", "dns", "app"} => call.host \in routesOf[call.tunnel]
        /\ call.at = "app" => records[call.host] = call.tunnel

\* A disabling is of the recorded dashboard, and a removal has begun.
LeavingKnown ==
    /\ call.op \in {"disable", "uninstall"} => known.leaving
    /\ call.op = "disable" /\ IsConfigured => node.dashboard = call.host

\* What the node has made is found at any time, also between the steps of a removal.
AllFound ==
    \A h \in HostObjects \ known.givenUp :
        h \in exposed \/ (IsConfigured /\ (h = node.dashboard \/ h \in Routed(node.tunnel)))

\* The plan of an uninstallation takes no policy from the apps of others, and as long as
\* nothing has failed it covers what was not given up.
PlanSound ==
    call.op = "uninstall" =>
        /\ \A h \in OtherHosts : accessApps[h] \notin call.plan.policies
        /\ call.clean => \A h \in HostObjects \ known.givenUp :
             /\ accessApps[h] # Nothing => call.at = "apps" /\ h \in call.plan.apps
             /\ records[h] # Nothing =>
                  h \notin HomeHosts \/ (call.at \in {"apps", "dns"} /\ h \in call.plan.dns)

AccessInv ==
    /\ Typed /\ TunnelFirst /\ ConnectorServes /\ EnablingKeeps /\ LeavingKnown
    /\ AllFound /\ PlanSound
    /\ DashboardReachable /\ PoliciesKept /\ NothingLeft

-----------------------------------------------------------------------------
(* The abbreviations of the specification are expanded in every proof.     *)

USE DEF IsConfigured, HasCf, In, Step, cloudflare

\* What is not there is nothing else.
LEMMA NothingApart ==
    /\ Nothing \notin NodeHosts \cup TunnelIds \cup AccessPolicies \cup TunnelNames
    /\ Nothing \notin DashboardHosts \cup ServiceHosts
    /\ Nothing \notin NodeRecords
    /\ OtherHosts \cap NodeHosts = {}
  BY DashboardAssumption DEF NodeHosts

-----------------------------------------------------------------------------
(* The configuration, and what others do in the account.                   *)

\* A node that is configured anew has nothing that was not given up.
LEMMA InitNodeKept ==
    ASSUME AccessInv, used' = used,
           NEW n \in TunnelNames, InitNode(n)
    PROVE  AccessInv'
<1>1. Configuration(n) \in NodeRecords
  BY DEF Configuration, NodeRecords
<1>2. Typed'
  BY <1>1 DEF AccessInv, Typed, InitNode
<1>3. TunnelFirst' /\ ConnectorServes' /\ EnablingKeeps' /\ LeavingKnown'
  BY <1>1, NothingApart DEF AccessInv, TunnelFirst, ConnectorServes, EnablingKeeps, LeavingKnown,
     InitNode, Configuration, Waiting
<1>4. AllFound' /\ PlanSound' /\ NothingLeft' /\ PoliciesKept' /\ DashboardReachable'
  BY DEF AccessInv, AllFound, PlanSound, NothingLeft, PoliciesKept, DashboardReachable,
     HostObjects, InitNode, Configuration
<1>5. QED
  BY <1>2, <1>3, <1>4 DEF AccessInv

\* The setup changes neither the tunnel nor the dashboard of the node.
LEMMA SaveSetupKept ==
    ASSUME AccessInv, used' = used,
           NEW policy \in AccessPolicies \cup {Nothing}, SaveSetup(policy)
    PROVE  AccessInv'
<1>1. node \in NodeRecords
  BY DEF AccessInv, Typed, SaveSetup
<1>2. /\ node' \in NodeRecords /\ node' # Nothing
      /\ node'.tunnel = node.tunnel /\ node'.dashboard = node.dashboard
      /\ node'.aud \in {node.aud, Nothing}
  BY <1>1, NothingApart, ZenonT(60) DEF NodeRecords, AccessInv, Typed, SaveSetup
<1>3. Typed'
  BY <1>2 DEF AccessInv, Typed, SaveSetup
<1>4. TunnelFirst' /\ ConnectorServes' /\ EnablingKeeps' /\ LeavingKnown'
  BY <1>2 DEF AccessInv, TunnelFirst, ConnectorServes, EnablingKeeps, LeavingKnown, SaveSetup
<1>5. AllFound' /\ DashboardReachable'
  BY <1>2 DEF AccessInv, AllFound, DashboardReachable, HostObjects, Routed, SaveSetup
<1>6. PlanSound' /\ PoliciesKept' /\ NothingLeft'
  BY DEF AccessInv, PlanSound, PoliciesKept, NothingLeft, HostObjects, SaveSetup
<1>7. QED
  BY <1>3, <1>4, <1>5, <1>6 DEF AccessInv

\* Nor does taking it back.
LEMMA ClearSetupKept ==
    ASSUME AccessInv, used' = used,
           ClearSetup
    PROVE  AccessInv'
<1>1. node \in NodeRecords
  BY DEF AccessInv, Typed, ClearSetup
<1>2. /\ node' \in NodeRecords /\ node' # Nothing
      /\ node'.tunnel = node.tunnel /\ node'.dashboard = node.dashboard
      /\ node'.aud \in {node.aud, Nothing}
  BY <1>1, NothingApart, ZenonT(120) DEF NodeRecords, AccessInv, Typed, ClearSetup
<1>3. Typed'
  BY <1>2 DEF AccessInv, Typed, ClearSetup
<1>4. TunnelFirst' /\ ConnectorServes' /\ EnablingKeeps' /\ LeavingKnown'
  BY <1>2 DEF AccessInv, TunnelFirst, ConnectorServes, EnablingKeeps, LeavingKnown, ClearSetup
<1>5. AllFound' /\ DashboardReachable'
  BY <1>2 DEF AccessInv, AllFound, DashboardReachable, HostObjects, Routed, ClearSetup
<1>6. PlanSound' /\ PoliciesKept' /\ NothingLeft'
  BY DEF AccessInv, PlanSound, PoliciesKept, NothingLeft, HostObjects, ClearSetup
<1>7. QED
  BY <1>3, <1>4, <1>5, <1>6 DEF AccessInv

\* A reset gives up whatever the node has made.
LEMMA ResetNodeKept ==
    ASSUME AccessInv, used' = used,
           ResetNode
    PROVE  AccessInv'
<1>1. known' \in HistoryRecords
  <2>1. known \in HistoryRecords /\ HostObjects \subseteq NodeHosts
    BY DEF AccessInv, Typed, HostObjects
  <2>2. call.op = "enable" => call.host \in NodeHosts
    BY DEF AccessInv, Typed, Calls, Waiting, Enablings, Disablings, Uninstallations, NodeHosts
  <2>3. QED
    BY <2>1, <2>2 DEF ResetNode, HistoryRecords
<1>2. Typed'
  BY <1>1 DEF AccessInv, Typed, ResetNode
<1>3. /\ known'.cut /\ known'.leaving = known.leaving /\ known'.cleaned = known.cleaned
      /\ HostObjects \subseteq known'.givenUp /\ known.givenUp \subseteq known'.givenUp
  BY DEF AccessInv, Typed, HistoryRecords, ResetNode
<1>4. TunnelFirst' /\ ConnectorServes' /\ EnablingKeeps' /\ LeavingKnown'
  BY <1>3 DEF AccessInv, TunnelFirst, ConnectorServes, EnablingKeeps, LeavingKnown, ResetNode
<1>5. AllFound' /\ PlanSound' /\ NothingLeft' /\ PoliciesKept' /\ DashboardReachable'
  BY <1>3 DEF AccessInv, AllFound, PlanSound, NothingLeft, PoliciesKept, DashboardReachable,
     HostObjects, ResetNode
<1>6. QED
  BY <1>2, <1>4, <1>5 DEF AccessInv

\* What others do in the account leaves the node's own objects alone, and no app without a
\* policy.
LEMMA AccountKept ==
    ASSUME AccessInv, used' = used,
           \/ \E policy \in AccessPolicies : CreatePolicyAgain(policy)
           \/ \E policy \in AccessPolicies \cup {Nothing}, h \in OtherHosts : OtherApp(h, policy)
    PROVE  AccessInv'
<1>1. Typed'
  BY DEF AccessInv, Typed, CreatePolicyAgain, OtherApp
<1>2. TunnelFirst' /\ ConnectorServes' /\ EnablingKeeps' /\ LeavingKnown'
  BY DEF AccessInv, TunnelFirst, ConnectorServes, EnablingKeeps, LeavingKnown,
     CreatePolicyAgain, OtherApp
<1>3. HostObjects' = HostObjects /\ \A h \in NodeHosts : accessApps'[h] = accessApps[h]
  BY NothingApart DEF AccessInv, Typed, HostObjects, CreatePolicyAgain, OtherApp
<1>4. AllFound' /\ NothingLeft'
  BY <1>3 DEF AccessInv, AllFound, NothingLeft, CreatePolicyAgain, OtherApp, Routed
<1>5. DashboardReachable'
  <2>1. node \in NodeRecords /\ node.dashboard # Nothing => node.dashboard \in NodeHosts
    BY DEF NodeRecords, NodeHosts
  <2>2. QED
    BY <1>3, <2>1 DEF AccessInv, Typed, DashboardReachable, CreatePolicyAgain, OtherApp, Routed
<1>6. PlanSound'
  <2>1. CASE \E policy \in AccessPolicies : CreatePolicyAgain(policy)
    BY <2>1 DEF AccessInv, PlanSound, CreatePolicyAgain, HostObjects
  <2>2. CASE \E policy \in AccessPolicies \cup {Nothing}, h \in OtherHosts : OtherApp(h, policy)
    BY <2>2 DEF PlanSound, OtherApp
  <2>3. QED
    BY <2>1, <2>2
<1>7. PoliciesKept'
  BY NothingApart DEF AccessInv, Typed, PoliciesKept, CreatePolicyAgain, OtherApp
<1>8. QED
  BY <1>1, <1>2, <1>4, <1>5, <1>6, <1>7 DEF AccessInv

\* A hostname of a service is recorded with the service.
LEMMA ExposeHostKept ==
    ASSUME AccessInv, used' = used,
           NEW s \in ServiceHosts, ExposeHost(s)
    PROVE  AccessInv'
<1>1. /\ s \in NodeHosts /\ node \in NodeRecords /\ node.tunnel \in TunnelIds
      /\ node.policy \in AccessPolicies
  BY NothingApart DEF AccessInv, Typed, NodeRecords, ExposeHost, NodeHosts
<1>2. /\ known' \in HistoryRecords /\ ~known'.cleaned /\ known'.cut = known.cut
      /\ known'.leaving = known.leaving /\ known'.givenUp = known.givenUp
      /\ known'.guarded = known.guarded
  BY DEF AccessInv, Typed, HistoryRecords, ExposeHost
<1>3. Typed'
  BY <1>1, <1>2 DEF AccessInv, Typed, ExposeHost
<1>4. TunnelFirst' /\ ConnectorServes' /\ EnablingKeeps' /\ LeavingKnown' /\ PlanSound' /\ NothingLeft'
  BY <1>2 DEF AccessInv, TunnelFirst, ConnectorServes, EnablingKeeps, LeavingKnown, PlanSound,
     NothingLeft, ExposeHost, Waiting
<1>5. AllFound'
  BY <1>1, <1>2 DEF AccessInv, Typed, AllFound, HostObjects, Routed, ExposeHost
<1>6. DashboardReachable'
  BY <1>1, <1>2, NothingApart DEF AccessInv, Typed, DashboardReachable, Routed, HostObjects, ExposeHost
<1>7. PoliciesKept'
  BY <1>1, NothingApart DEF AccessInv, Typed, PoliciesKept, ExposeHost
<1>8. QED
  BY <1>3, <1>4, <1>5, <1>6, <1>7 DEF AccessInv

-----------------------------------------------------------------------------
(* Enabling.                                                               *)

\* An enabling begins with the tunnel of the node, if it has one.
LEMMA BeginEnableKept ==
    ASSUME AccessInv, used' = used,
           NEW h \in DashboardHosts, BeginEnable(h)
    PROVE  AccessInv'
<1>1. node \in NodeRecords
  BY DEF AccessInv, Typed, BeginEnable
<1>2. /\ call' \in Enablings /\ call'.tunnel = node.tunnel
      /\ call'.new = (node.tunnel = Nothing)
      /\ call'.at = IF node.tunnel = Nothing THEN "create" ELSE "route"
  BY <1>1 DEF BeginEnable, Enablings, NodeRecords
<1>3. /\ known' \in HistoryRecords /\ ~known'.cleaned /\ known'.cut = known.cut
      /\ known'.leaving = known.leaving /\ known'.givenUp = known.givenUp
      /\ known'.guarded = known.guarded
  BY DEF AccessInv, Typed, HistoryRecords, BeginEnable
<1>4. Typed'
  BY <1>2, <1>3 DEF AccessInv, Typed, Calls, BeginEnable
<1>5. TunnelFirst' /\ ConnectorServes' /\ EnablingKeeps' /\ LeavingKnown' /\ PlanSound' /\ NothingLeft'
  BY <1>2, <1>3 DEF AccessInv, TunnelFirst, ConnectorServes, EnablingKeeps, LeavingKnown, PlanSound,
     NothingLeft, BeginEnable, Waiting, Enablings
<1>6. AllFound' /\ DashboardReachable' /\ PoliciesKept'
  BY <1>2, <1>3 DEF AccessInv, AllFound, DashboardReachable, PoliciesKept, HostObjects, Routed,
     BeginEnable, Enablings
<1>7. QED
  BY <1>4, <1>5, <1>6 DEF AccessInv

\* A call that breaks off leaves nothing that is not found.
LEMMA EndsKept ==
    ASSUME AccessInv, used' = used,
           GivesUp \/ BreakOff
    PROVE  AccessInv'
<1>1. /\ known' \in HistoryRecords /\ known'.cleaned = known.cleaned
      /\ known'.leaving = known.leaving /\ known'.givenUp = known.givenUp
      /\ known'.guarded = known.guarded /\ (known.cut => known'.cut)
      /\ call.op = "enable" /\ call.new /\ call.at \in {"route", "connector"} => known'.cut
  BY DEF AccessInv, Typed, HistoryRecords, Calls, Waiting, Enablings, Disablings, Uninstallations,
     GivesUp, BreakOff
<1>2. Typed'
  BY <1>1 DEF AccessInv, Typed, Calls, GivesUp, BreakOff
<1>3. TunnelFirst' /\ ConnectorServes' /\ EnablingKeeps' /\ LeavingKnown' /\ PlanSound'
  BY <1>1 DEF AccessInv, TunnelFirst, ConnectorServes, EnablingKeeps, LeavingKnown, PlanSound,
     GivesUp, BreakOff, Waiting
<1>4. AllFound' /\ DashboardReachable' /\ PoliciesKept' /\ NothingLeft'
  BY <1>1 DEF AccessInv, AllFound, DashboardReachable, PoliciesKept, NothingLeft, HostObjects, Routed,
     GivesUp, BreakOff
<1>5. QED
  BY <1>2, <1>3, <1>4 DEF AccessInv

\* A tunnel is made, or the one of this name taken.
LEMMA MakeTunnelKept ==
    ASSUME AccessInv, used' = used,
           MakeTunnel
    PROVE  AccessInv'
<1>1. call \in Enablings
  <2>1. call.op = "enable"
    BY DEF MakeTunnel
  <2>2. QED
    BY <2>1 DEF AccessInv, Typed, Calls, Waiting, Enablings, Disablings, Uninstallations
<1>2. PICK t \in TunnelIds :
        /\ call' = [Step("init") EXCEPT !.tunnel = t]
        /\ tunnelOf' \in [TunnelNames -> TunnelIds \cup {Nothing}]
  <2>1. node.name \in TunnelNames
    BY DEF AccessInv, Typed, NodeRecords, MakeTunnel
  <2>2. CASE tunnelOf[node.name] # Nothing
    BY <2>1, <2>2 DEF AccessInv, Typed, MakeTunnel
  <2>3. CASE tunnelOf[node.name] = Nothing
    BY <2>1, <2>3, ZenonT(60) DEF AccessInv, Typed, MakeTunnel
  <2>4. QED
    BY <2>2, <2>3
<1>3. /\ call' \in Enablings /\ call'.at = "init" /\ call'.tunnel = t
      /\ call'.new = call.new /\ t # Nothing
  BY <1>1, <1>2, NothingApart DEF Enablings
<1>4. Typed'
  BY <1>2, <1>3 DEF AccessInv, Typed, Calls, MakeTunnel
<1>5. TunnelFirst' /\ ConnectorServes' /\ EnablingKeeps' /\ LeavingKnown' /\ PlanSound'
  BY <1>1, <1>3 DEF AccessInv, TunnelFirst, ConnectorServes, EnablingKeeps, LeavingKnown, PlanSound,
     MakeTunnel, Enablings
<1>6. AllFound' /\ DashboardReachable' /\ PoliciesKept' /\ NothingLeft'
  BY DEF AccessInv, AllFound, DashboardReachable, PoliciesKept, NothingLeft, HostObjects, Routed,
     MakeTunnel
<1>7. QED
  BY <1>4, <1>5, <1>6 DEF AccessInv

\* The routes of the tunnel are emptied before the node relies on it.
LEMMA InitTunnelKept ==
    ASSUME AccessInv, used' = used,
           InitTunnel
    PROVE  AccessInv'
<1>1. call \in Enablings
  BY DEF AccessInv, Typed, Calls, Waiting, Enablings, Disablings, Uninstallations, InitTunnel
<1>2. call.tunnel \in TunnelIds /\ node \in NodeRecords /\ node.tunnel = Nothing /\ node.dashboard = Nothing
  BY <1>1 DEF AccessInv, Typed, Enablings, TunnelFirst, InitTunnel
<1>3. /\ node' \in NodeRecords /\ node'.tunnel = call.tunnel /\ node'.dashboard = Nothing
      /\ routesOf' \in [TunnelIds -> SUBSET NodeHosts]
  BY <1>2 DEF AccessInv, Typed, NodeRecords, InitTunnel
<1>4. /\ call' \in Enablings /\ call'.at = "route" /\ call'.tunnel = call.tunnel
      /\ call'.new = call.new /\ node' # Nothing
  BY <1>1, <1>3, NothingApart DEF Enablings, InitTunnel
<1>5. Typed'
  BY <1>3, <1>4 DEF AccessInv, Typed, Calls, InitTunnel
<1>6. TunnelFirst' /\ ConnectorServes' /\ EnablingKeeps' /\ LeavingKnown' /\ PlanSound'
  BY <1>1, <1>2, <1>3, <1>4, NothingApart DEF AccessInv, TunnelFirst, ConnectorServes, EnablingKeeps,
     LeavingKnown, PlanSound, InitTunnel, Enablings
<1>7. AllFound' /\ DashboardReachable' /\ PoliciesKept' /\ NothingLeft'
  BY <1>2, <1>3, NothingApart DEF AccessInv, Typed, AllFound, DashboardReachable, PoliciesKept,
     NothingLeft, HostObjects, Routed, InitTunnel
<1>8. QED
  BY <1>5, <1>6, <1>7 DEF AccessInv

\* The tunnel of the node gets the route of the dashboard.
LEMMA AddRouteKept ==
    ASSUME AccessInv, used' = used,
           AddRoute
    PROVE  AccessInv'
<1>1. call \in Enablings
  BY DEF AccessInv, Typed, Calls, Waiting, Enablings, Disablings, Uninstallations, AddRoute
<1>2. call.tunnel \in TunnelIds /\ call.host \in NodeHosts
  BY <1>1 DEF AccessInv, TunnelFirst, AddRoute, Enablings, NodeHosts
<1>3. /\ call' \in Enablings /\ call'.at = IF call.new THEN "connector" ELSE "dns"
      /\ call'.tunnel = call.tunnel /\ call'.host = call.host /\ call'.new = call.new
  BY <1>1 DEF Enablings, AddRoute
<1>4. /\ routesOf' \in [TunnelIds -> SUBSET NodeHosts] /\ call.host \in routesOf'[call.tunnel]
      /\ \A t \in TunnelIds : routesOf[t] \subseteq routesOf'[t]
  BY <1>2 DEF AccessInv, Typed, AddRoute
<1>5. Typed'
  BY <1>3, <1>4 DEF AccessInv, Typed, Calls, AddRoute
<1>6. TunnelFirst' /\ ConnectorServes' /\ EnablingKeeps' /\ LeavingKnown' /\ PlanSound'
  BY <1>1, <1>3, <1>4 DEF AccessInv, TunnelFirst, ConnectorServes, EnablingKeeps, LeavingKnown,
     PlanSound, AddRoute, Enablings
<1>7. AllFound' /\ DashboardReachable' /\ PoliciesKept' /\ NothingLeft'
  BY <1>4 DEF AccessInv, Typed, NodeRecords, AllFound, DashboardReachable, PoliciesKept, NothingLeft,
     HostObjects, Routed, AddRoute
<1>8. QED
  BY <1>5, <1>6, <1>7 DEF AccessInv

\* A connector that runs already is the right one, unless an enabling was cut off.
LEMMA InstallConnectorKept ==
    ASSUME AccessInv, used' = used,
           InstallConnector
    PROVE  AccessInv'
<1>1. call \in Enablings
  BY DEF AccessInv, Typed, Calls, Waiting, Enablings, Disablings, Uninstallations, InstallConnector
<1>2. /\ call' \in Enablings /\ call'.at = "dns" /\ call'.tunnel = call.tunnel
      /\ call'.host = call.host /\ call'.new = call.new
  BY <1>1 DEF Enablings, InstallConnector
<1>3. Typed'
  BY <1>1, <1>2 DEF AccessInv, Typed, Calls, Enablings, InstallConnector
<1>4. ConnectorServes'
  BY <1>2 DEF AccessInv, TunnelFirst, ConnectorServes, InstallConnector
<1>5. TunnelFirst' /\ EnablingKeeps' /\ LeavingKnown' /\ PlanSound'
  BY <1>1, <1>2 DEF AccessInv, TunnelFirst, EnablingKeeps, LeavingKnown, PlanSound,
     InstallConnector, Enablings
<1>6. AllFound' /\ PoliciesKept' /\ NothingLeft'
  BY DEF AccessInv, AllFound, PoliciesKept, NothingLeft, HostObjects, Routed, InstallConnector
<1>7. DashboardReachable'
  BY DEF AccessInv, DashboardReachable, TunnelFirst, Routed, InstallConnector
<1>8. QED
  BY <1>3, <1>4, <1>5, <1>6, <1>7 DEF AccessInv

\* An enabling that ends puts a reachable hostname in the place of the recorded one, which
\* its route still leads to.
LEMMA EnabledKept ==
    ASSUME AccessInv, used' = used,
           call.op = "enable", call.at \in {"dns", "app"}, EnabledAs(call.host),
           call.host \in Routed(call.tunnel), records'[call.host] = call.tunnel,
           call.policy # Nothing => accessApps'[call.host] # Nothing,
           records' \in [NodeHosts -> TunnelIds \cup {Nothing}],
           accessApps' \in [NodeHosts \cup OtherHosts -> AccessPolicies \cup {Nothing}],
           \A h \in NodeHosts \ {call.host} :
             records'[h] = records[h] /\ accessApps'[h] = accessApps[h],
           \A h \in OtherHosts : accessApps'[h] = accessApps[h],
           UNCHANGED <<exposed, connector, tunnelOf, routesOf, policies>>
    PROVE  AccessInv'
<1>1. call \in Enablings
  BY DEF AccessInv, Typed, Calls, Waiting, Enablings, Disablings, Uninstallations
<1>2. /\ node \in NodeRecords /\ node.tunnel = call.tunnel /\ call.tunnel # Nothing
      /\ call.host \in DashboardHosts /\ call.host \in NodeHosts /\ call.host # Nothing
  BY <1>1, NothingApart DEF AccessInv, Typed, TunnelFirst, EnabledAs, Enablings, NodeHosts
<1>3. /\ node' \in NodeRecords /\ node' # Nothing /\ node'.tunnel = node.tunnel
      /\ node'.dashboard = call.host
      /\ call.policy # Nothing => node'.aud = call.host
  BY <1>1, <1>2, NothingApart, ZenonT(120) DEF NodeRecords, Enablings, EnabledAs, RecordedHost
<1>4. /\ known' \in HistoryRecords /\ ~known'.leaving /\ known'.givenUp = known.givenUp \ {call.host}
      /\ known'.guarded = (call.policy # Nothing) /\ known'.cut = known.cut
      /\ known'.cleaned = known.cleaned
  BY DEF AccessInv, Typed, HistoryRecords, EnabledAs
<1>5. call' = Waiting /\ ~known.cleaned
  BY DEF AccessInv, EnablingKeeps, EnabledAs
<1>6. Typed'
  BY <1>3, <1>4, <1>5 DEF AccessInv, Typed, Calls, EnabledAs
<1>7. TunnelFirst' /\ EnablingKeeps' /\ LeavingKnown' /\ PlanSound' /\ NothingLeft'
  BY <1>2, <1>3, <1>4, <1>5 DEF TunnelFirst, EnablingKeeps, LeavingKnown, PlanSound, NothingLeft, Waiting
<1>8. AllFound'
  <2>1. IsConfigured /\ (node.dashboard # Nothing => node.dashboard \in Routed(node.tunnel))
    BY <1>2, NothingApart DEF AccessInv, EnablingKeeps, DashboardReachable
  <2>2. ASSUME NEW h \in HostObjects', h \notin known'.givenUp, h # call.host
        PROVE  h \in exposed \/ h \in Routed(node.tunnel)
    <3>1. h \in HostObjects /\ h \notin known.givenUp
      BY <1>4, <2>2 DEF HostObjects
    <3>2. h \in NodeHosts /\ h # Nothing
      BY <3>1, NothingApart DEF HostObjects
    <3>3. QED
      BY <2>1, <3>1, <3>2 DEF AccessInv, AllFound
  <2>3. QED
    BY <1>2, <1>3, <2>2 DEF AllFound, Routed, HostObjects
<1>9. DashboardReachable'
  <2>1. connector = node.tunnel \/ known.cut
    BY <1>2, NothingApart DEF AccessInv, ConnectorServes
  <2>2. QED
    BY <1>2, <1>3, <1>4, <2>1 DEF DashboardReachable, Routed
<1>10. ConnectorServes'
  BY <1>2, <1>3, <1>4, <1>5 DEF AccessInv, ConnectorServes, Waiting
<1>11. PoliciesKept'
  BY DEF AccessInv, PoliciesKept
<1>12. QED
  BY <1>6, <1>7, <1>8, <1>9, <1>10, <1>11 DEF AccessInv

\* A DNS record leads to the tunnel that has the route.
LEMMA MakeRecordKept ==
    ASSUME AccessInv, used' = used,
           MakeRecord
    PROVE  AccessInv'
<1>1. call \in Enablings
  BY DEF AccessInv, Typed, Calls, Waiting, Enablings, Disablings, Uninstallations, MakeRecord
<1>2. /\ call.tunnel \in TunnelIds /\ call.host \in NodeHosts /\ call.host \in Routed(call.tunnel)
      /\ node \in NodeRecords /\ node.tunnel = call.tunnel
  BY <1>1 DEF AccessInv, Typed, TunnelFirst, EnablingKeeps, MakeRecord, Enablings, NodeHosts, Routed
<1>3. /\ records' \in [NodeHosts -> TunnelIds \cup {Nothing}] /\ records'[call.host] = call.tunnel
      /\ \A h \in NodeHosts \ {call.host} : records'[h] = records[h]
  BY <1>2 DEF AccessInv, Typed, MakeRecord
<1>4. CASE call.policy = Nothing
  BY <1>2, <1>3, <1>4, EnabledKept DEF MakeRecord, AccessInv, Typed
<1>5. CASE call.policy # Nothing
  <2>1. UNCHANGED <<node, known>> /\ call' = Step("app")
    BY <1>5 DEF MakeRecord
  <2>2. /\ call' \in Enablings /\ call'.at = "app" /\ call'.tunnel = call.tunnel
        /\ call'.host = call.host /\ call'.new = call.new
    BY <1>1, <2>1 DEF Enablings
  <2>3. Typed'
    BY <1>3, <2>1, <2>2 DEF AccessInv, Typed, Calls, MakeRecord
  <2>4. TunnelFirst' /\ ConnectorServes' /\ EnablingKeeps' /\ LeavingKnown' /\ PlanSound'
    BY <1>1, <1>3, <2>1, <2>2 DEF AccessInv, TunnelFirst, ConnectorServes, EnablingKeeps, LeavingKnown,
       PlanSound, MakeRecord, Enablings
  <2>5. AllFound'
    BY <1>2, <1>3, <2>1, NothingApart DEF AccessInv, AllFound, HostObjects, Routed, MakeRecord
  <2>6. DashboardReachable'
    BY <1>2, <1>3, <2>1 DEF AccessInv, DashboardReachable, Routed, MakeRecord, NodeRecords, NodeHosts, TunnelFirst
  <2>7. PoliciesKept' /\ NothingLeft'
    BY <2>1 DEF AccessInv, PoliciesKept, NothingLeft, EnablingKeeps, MakeRecord
  <2>8. QED
    BY <2>3, <2>4, <2>5, <2>6, <2>7 DEF AccessInv
<1>6. QED
  BY <1>4, <1>5

\* The app comes last, with the record of the dashboard.
LEMMA MakeAppKept ==
    ASSUME AccessInv, used' = used,
           MakeApp
    PROVE  AccessInv'
<1>1. call \in Enablings
  BY DEF AccessInv, Typed, Calls, Waiting, Enablings, Disablings, Uninstallations, MakeApp
<1>2. /\ call.tunnel \in TunnelIds /\ call.host \in NodeHosts /\ call.host \in Routed(call.tunnel)
      /\ call.policy \in AccessPolicies /\ records[call.host] = call.tunnel
  BY <1>1 DEF AccessInv, Typed, TunnelFirst, EnablingKeeps, MakeApp, Enablings, NodeHosts, Routed
<1>3. /\ accessApps' \in [NodeHosts \cup OtherHosts -> AccessPolicies \cup {Nothing}]
      /\ accessApps'[call.host] # Nothing
      /\ \A h \in (NodeHosts \cup OtherHosts) \ {call.host} : accessApps'[h] = accessApps[h]
  BY <1>2, NothingApart DEF AccessInv, Typed, MakeApp
<1>4. QED
  BY <1>2, <1>3, EnabledKept, NothingApart DEF MakeApp, AccessInv, Typed

-----------------------------------------------------------------------------
(* Disabling, and the uninstallation.                                      *)

\* A disabling is of the recorded hostname.
LEMMA BeginDisableKept ==
    ASSUME AccessInv, used' = used,
           BeginDisable
    PROVE  AccessInv'
<1>1. call' \in Disablings /\ call'.host = node.dashboard
  BY DEF AccessInv, Typed, NodeRecords, Disablings, BeginDisable
<1>2. /\ known' \in HistoryRecords /\ known'.leaving /\ ~known'.cleaned /\ known'.cut = known.cut
      /\ known'.givenUp = known.givenUp
  BY DEF AccessInv, Typed, HistoryRecords, BeginDisable
<1>3. Typed'
  BY <1>1, <1>2 DEF AccessInv, Typed, Calls, BeginDisable
<1>4. TunnelFirst' /\ ConnectorServes' /\ EnablingKeeps' /\ LeavingKnown' /\ PlanSound' /\ NothingLeft'
  BY <1>1, <1>2 DEF AccessInv, TunnelFirst, ConnectorServes, EnablingKeeps, LeavingKnown, PlanSound,
     NothingLeft, BeginDisable, Disablings, Waiting
<1>5. AllFound' /\ DashboardReachable' /\ PoliciesKept'
  BY <1>2 DEF AccessInv, AllFound, DashboardReachable, PoliciesKept, HostObjects, Routed, BeginDisable
<1>6. QED
  BY <1>3, <1>4, <1>5 DEF AccessInv

\* The steps of a disabling take away only from the recorded dashboard, whose removal has begun.
LEMMA DisablingKept ==
    ASSUME AccessInv, used' = used,
           RemoveDashboardRoute \/ RemoveRecord
    PROVE  AccessInv'
<1>1. call \in Disablings
  BY DEF AccessInv, Typed, Calls, Waiting, Enablings, Disablings, Uninstallations,
     RemoveDashboardRoute, RemoveRecord
<1>2. /\ call' \in Disablings /\ call'.host = call.host /\ call.host \in NodeHosts
  BY <1>1 DEF Disablings, RemoveDashboardRoute, RemoveRecord, NodeHosts
<1>3. /\ routesOf' \in [TunnelIds -> SUBSET NodeHosts]
      /\ \A t \in TunnelIds : routesOf[t] \subseteq routesOf'[t] \cup {call.host}
      /\ records' \in [NodeHosts -> TunnelIds \cup {Nothing}]
      /\ \A h \in NodeHosts : records'[h] \in {records[h], Nothing}
  BY <1>2 DEF AccessInv, Typed, NodeRecords, RemoveDashboardRoute, RemoveRecord
<1>4. known.leaving /\ (IsConfigured => node.dashboard = call.host)
  BY <1>1 DEF AccessInv, LeavingKnown, Disablings
<1>5. Typed'
  BY <1>2, <1>3 DEF AccessInv, Typed, Calls, RemoveDashboardRoute, RemoveRecord
<1>6. TunnelFirst' /\ ConnectorServes' /\ EnablingKeeps' /\ LeavingKnown' /\ PlanSound'
  BY <1>1, <1>2 DEF AccessInv, TunnelFirst, ConnectorServes, EnablingKeeps, LeavingKnown, PlanSound,
     RemoveDashboardRoute, RemoveRecord, Disablings
<1>7. HostObjects' \subseteq HostObjects
  BY <1>3 DEF HostObjects, RemoveDashboardRoute, RemoveRecord
<1>8. AllFound'
  BY <1>3, <1>4, <1>7 DEF AccessInv, Typed, NodeRecords, AllFound, Routed,
     RemoveDashboardRoute, RemoveRecord
<1>9. DashboardReachable' /\ PoliciesKept' /\ NothingLeft'
  BY <1>4, <1>7 DEF AccessInv, DashboardReachable, PoliciesKept, NothingLeft,
     RemoveDashboardRoute, RemoveRecord
<1>10. QED
  BY <1>5, <1>6, <1>8, <1>9 DEF AccessInv

\* A disabling that ends gives up what it has left behind.
LEMMA RemoveAppKept ==
    ASSUME AccessInv, used' = used,
           RemoveApp
    PROVE  AccessInv'
<1>1. call \in Disablings
  BY DEF AccessInv, Typed, Calls, Waiting, Enablings, Disablings, Uninstallations, RemoveApp
<1>2. call.host \in NodeHosts /\ known.leaving /\ (IsConfigured => node.dashboard = call.host)
  BY <1>1 DEF AccessInv, LeavingKnown, Disablings, NodeHosts
<1>3. /\ accessApps' \in [NodeHosts \cup OtherHosts -> AccessPolicies \cup {Nothing}]
      /\ \A h \in (NodeHosts \cup OtherHosts) \ {call.host} : accessApps'[h] = accessApps[h]
      /\ accessApps'[call.host] \in {accessApps[call.host], Nothing}
  BY <1>2 DEF AccessInv, Typed, RemoveApp
<1>4. /\ known' \in HistoryRecords /\ known'.leaving /\ known'.cut = known.cut
      /\ known'.cleaned = known.cleaned /\ known.givenUp \subseteq known'.givenUp
      /\ call.host \in HostObjects' => call.host \in known'.givenUp
  BY <1>2 DEF AccessInv, Typed, HistoryRecords, RemoveApp, AfterDisable, HostObjects
<1>5. /\ node' \in NodeRecords \cup {Nothing} /\ (node' = Nothing <=> node = Nothing)
      /\ IsConfigured => node'.dashboard = Nothing /\ node'.tunnel = node.tunnel
  BY NothingApart DEF AccessInv, Typed, NodeRecords, RemoveApp
<1>6. Typed'
  BY <1>3, <1>4, <1>5 DEF AccessInv, Typed, Calls, RemoveApp
<1>7. TunnelFirst' /\ ConnectorServes' /\ EnablingKeeps' /\ LeavingKnown' /\ PlanSound'
  BY <1>1, <1>4, <1>5 DEF AccessInv, TunnelFirst, ConnectorServes, EnablingKeeps, LeavingKnown,
     PlanSound, RemoveApp, Waiting, Disablings
<1>8. HostObjects' \subseteq HostObjects
  BY <1>2, <1>3 DEF HostObjects, RemoveApp
<1>9. AllFound'
  BY <1>2, <1>4, <1>5, <1>8 DEF AccessInv, AllFound, Routed, RemoveApp
<1>10. DashboardReachable' /\ PoliciesKept' /\ NothingLeft'
  BY <1>2, <1>3, <1>4, <1>8, NothingApart DEF AccessInv, DashboardReachable, PoliciesKept, NothingLeft, RemoveApp
<1>11. QED
  BY <1>6, <1>7, <1>9, <1>10 DEF AccessInv

\* The plan of an uninstallation covers what the node has made, and takes no policy of others.
LEMMA BeginUninstallKept ==
    ASSUME AccessInv, used' = used,
           BeginUninstall
    PROVE  AccessInv'
<1>1. PICK failed \in SUBSET {"routes", "dns", "apps"} :
        call' = [op |-> "uninstall", at |-> "apps", plan |-> Plan(failed), clean |-> failed = {}]
  BY DEF BeginUninstall
<1>2. node \in NodeRecords
  BY DEF AccessInv, Typed, BeginUninstall
<1> DEFINE own == exposed \cup {node.dashboard} \cup
                  (IF "routes" \in failed THEN {} ELSE Routed(node.tunnel))
           doomed == IF "apps" \in failed THEN {}
                     ELSE {h \in own \cap NodeHosts : accessApps[h] # Nothing}
<1>3. /\ Plan(failed).dns = IF "dns" \in failed THEN {} ELSE {h \in own \cap HomeHosts : records[h] # Nothing}
      /\ Plan(failed).apps = doomed
      /\ Plan(failed).policies = {accessApps[h] : h \in doomed} \ PoliciesInUse(doomed)
      /\ Plan(failed).tunnel = node.tunnel
      /\ Plan(failed) = [dns |-> Plan(failed).dns, apps |-> Plan(failed).apps,
                         policies |-> Plan(failed).policies, tunnel |-> Plan(failed).tunnel]
  BY DEF Plan
<1>4. doomed \subseteq NodeHosts /\ own \cap HomeHosts \subseteq NodeHosts
  BY DashboardAssumption
<1>5. Plan(failed) \in Plans
  <2>1. {accessApps[h] : h \in doomed} \subseteq AccessPolicies \cup {Nothing}
    BY <1>4 DEF AccessInv, Typed
  <2> HIDE DEF doomed, own
  <2>2. QED
    BY <1>2, <1>3, <1>4, <2>1 DEF Plans, NodeRecords
<1>6. call' \in Uninstallations
  BY <1>1, <1>5 DEF Uninstallations
<1>7. /\ known' \in HistoryRecords /\ known'.leaving /\ known'.cut = known.cut
      /\ known'.cleaned = known.cleaned /\ known'.givenUp = known.givenUp
  BY DEF AccessInv, Typed, HistoryRecords, BeginUninstall
<1>8. Typed'
  BY <1>6, <1>7 DEF AccessInv, Typed, Calls, BeginUninstall
<1>9. TunnelFirst' /\ ConnectorServes' /\ EnablingKeeps' /\ LeavingKnown'
  BY <1>1, <1>7 DEF AccessInv, TunnelFirst, ConnectorServes, EnablingKeeps, LeavingKnown,
     BeginUninstall, Waiting
<1>10. PlanSound'
  <2>1. ASSUME NEW h \in OtherHosts
        PROVE  accessApps[h] \notin Plan(failed).policies
    BY <1>3, <1>4, NothingApart DEF PoliciesInUse
  <2>2. ASSUME failed = {}, NEW h \in HostObjects \ known.givenUp
        PROVE  /\ accessApps[h] # Nothing => h \in Plan(failed).apps
               /\ records[h] # Nothing => h \notin HomeHosts \/ h \in Plan(failed).dns
    <3>1. h \in own /\ h \in NodeHosts
      BY <2>2 DEF AccessInv, AllFound, HostObjects
    <3>2. QED
      BY <1>3, <2>2, <3>1
  <2> HIDE DEF doomed, own
  <2>3. QED
    BY <1>1, <1>7, <2>1, <2>2 DEF PlanSound, BeginUninstall, HostObjects
<1>11. AllFound' /\ DashboardReachable' /\ PoliciesKept' /\ NothingLeft'
  BY <1>7 DEF AccessInv, AllFound, DashboardReachable, PoliciesKept, NothingLeft, HostObjects, Routed,
     BeginUninstall
<1>12. QED
  BY <1>8, <1>9, <1>10, <1>11 DEF AccessInv

\* The deletions of an uninstallation leave the apps of others alone, and take what they are
\* to take or spoil the cleanup.
LEMMA DeletionsKept ==
    ASSUME AccessInv, used' = used,
           DeleteApps \/ DeleteRecords
    PROVE  AccessInv'
<1>1. call \in Uninstallations
  BY DEF AccessInv, Typed, Calls, Waiting, Enablings, Disablings, Uninstallations,
     DeleteApps, DeleteRecords
<1>2. /\ call' \in Uninstallations /\ call'.plan = call.plan
      /\ call'.at = IF call.at = "apps" THEN "dns" ELSE "policies"
      /\ call'.clean => call.clean
  BY <1>1 DEF Uninstallations, DeleteApps, DeleteRecords, NextDeletion
<1>3. /\ accessApps' \in [NodeHosts \cup OtherHosts -> AccessPolicies \cup {Nothing}]
      /\ \A h \in NodeHosts : accessApps'[h] \in {accessApps[h], Nothing}
      /\ \A h \in OtherHosts : accessApps'[h] = accessApps[h]
      /\ records' \in [NodeHosts -> TunnelIds \cup {Nothing}]
      /\ \A h \in NodeHosts : records'[h] \in {records[h], Nothing}
  BY <1>1, NothingApart DEF AccessInv, Typed, Uninstallations, Plans, DeleteApps, DeleteRecords
<1>4. known.leaving /\ HostObjects' \subseteq HostObjects
  BY <1>1, <1>3 DEF AccessInv, LeavingKnown, Uninstallations, HostObjects
<1>5. Typed'
  BY <1>2, <1>3 DEF AccessInv, Typed, Calls, DeleteApps, DeleteRecords
<1>6. TunnelFirst' /\ ConnectorServes' /\ EnablingKeeps' /\ LeavingKnown'
  BY <1>1, <1>2 DEF AccessInv, TunnelFirst, ConnectorServes, EnablingKeeps, LeavingKnown,
     DeleteApps, DeleteRecords, Uninstallations
<1>7. PlanSound'
  <2>1. ASSUME call'.clean, NEW h \in HostObjects', h \notin known.givenUp
        PROVE  /\ accessApps'[h] = Nothing
               /\ records'[h] # Nothing =>
                    h \notin HomeHosts \/ (call'.at = "dns" /\ h \in call.plan.dns)
    <3>1. h \in HostObjects /\ h \in NodeHosts
      BY <1>4, <2>1 DEF HostObjects
    <3>2. CASE DeleteApps
      <4>1. h \in call.plan.apps => accessApps'[h] = Nothing
        BY <1>1, <2>1, <3>1, <3>2 DEF AccessInv, Typed, DeleteApps, NextDeletion, Uninstallations
      <4>2. QED
        BY <1>1, <1>2, <1>3, <2>1, <3>1, <3>2, <4>1, SMTT(60) DEF AccessInv, PlanSound, DeleteApps, Uninstallations
    <3>3. CASE DeleteRecords
      <4>1. h \in call.plan.dns => records'[h] = Nothing
        BY <1>1, <2>1, <3>1, <3>3 DEF DeleteRecords, NextDeletion, Uninstallations
      <4>2. QED
        BY <1>1, <1>2, <1>3, <2>1, <3>1, <3>3, <4>1, SMTT(60) DEF AccessInv, PlanSound, DeleteRecords, Uninstallations
    <3>4. QED
      BY <3>2, <3>3
  <2>2. known' = known
    BY DEF DeleteApps, DeleteRecords
  <2>3. QED
    BY <1>1, <1>2, <1>3, <2>1, <2>2 DEF AccessInv, PlanSound, Uninstallations
<1>8. AllFound' /\ DashboardReachable' /\ NothingLeft'
  BY <1>4 DEF AccessInv, AllFound, DashboardReachable, NothingLeft, Routed, DeleteApps, DeleteRecords
<1>9. PoliciesKept'
  BY <1>3 DEF AccessInv, PoliciesKept, DeleteApps, DeleteRecords
<1>10. QED
  BY <1>5, <1>6, <1>7, <1>8, <1>9 DEF AccessInv

\* The policies that go are in no app that stays.
LEMMA DeletePoliciesKept ==
    ASSUME AccessInv, used' = used,
           DeletePolicies
    PROVE  AccessInv'
<1>1. call \in Uninstallations
  BY DEF AccessInv, Typed, Calls, Waiting, Enablings, Disablings, Uninstallations, DeletePolicies
<1>2. /\ call' \in Uninstallations /\ call'.plan = call.plan /\ call'.at = "tunnel"
      /\ call'.clean => call.clean
  BY <1>1 DEF Uninstallations, DeletePolicies, NextDeletion
<1>3. Typed'
  BY <1>2 DEF AccessInv, Typed, Calls, DeletePolicies
<1>4. TunnelFirst' /\ ConnectorServes' /\ EnablingKeeps' /\ LeavingKnown' /\ PlanSound'
  BY <1>1, <1>2 DEF AccessInv, TunnelFirst, ConnectorServes, EnablingKeeps, LeavingKnown, PlanSound,
     HostObjects, DeletePolicies, Uninstallations
<1>5. AllFound' /\ DashboardReachable' /\ NothingLeft'
  BY DEF AccessInv, AllFound, DashboardReachable, NothingLeft, HostObjects, Routed, DeletePolicies
<1>6. PoliciesKept'
  BY <1>1 DEF AccessInv, PoliciesKept, PlanSound, DeletePolicies, Uninstallations
<1>7. QED
  BY <1>3, <1>4, <1>5, <1>6 DEF AccessInv

\* What is left at the end is given up; after a clean one it is in other zones.
LEMMA FinishUninstallKept ==
    ASSUME AccessInv, used' = used,
           FinishUninstall
    PROVE  AccessInv'
<1>1. call \in Uninstallations
  BY DEF AccessInv, Typed, Calls, Waiting, Enablings, Disablings, Uninstallations, FinishUninstall
<1>2. call.plan.tunnel \in TunnelIds \cup {Nothing} /\ known.leaving
  BY <1>1 DEF AccessInv, LeavingKnown, Uninstallations, Plans
<1>3. /\ routesOf' \in [TunnelIds -> SUBSET NodeHosts]
      /\ tunnelOf' \in [TunnelNames -> TunnelIds \cup {Nothing}]
  BY <1>2 DEF AccessInv, Typed, FinishUninstall
<1>4. HostObjects' = HostObjects /\ HostObjects \subseteq NodeHosts
  BY DEF HostObjects, FinishUninstall
<1>5. call.clean => HostObjects \subseteq known.givenUp \cup ElsewhereOnly
  BY <1>1 DEF AccessInv, PlanSound, HostObjects, ElsewhereOnly, FinishUninstall, Uninstallations
<1>6. /\ known' \in HistoryRecords /\ known'.leaving /\ known'.cut
      /\ HostObjects \subseteq known'.givenUp
  <2>1. ElsewhereOnly \subseteq NodeHosts
    BY DEF ElsewhereOnly
  <2>2. PICK done \in BOOLEAN :
          known' = [known EXCEPT !.cleaned = call.clean /\ done, !.cut = TRUE,
                      !.givenUp = IF call.clean /\ done THEN @ \cup ElsewhereOnly ELSE HostObjects]
    BY DEF FinishUninstall
  <2>3. known \in HistoryRecords /\ call.clean \in BOOLEAN
    BY <1>1 DEF AccessInv, Typed, Uninstallations
  <2>4. CASE call.clean /\ done
    BY <1>2, <1>5, <2>1, <2>2, <2>3, <2>4 DEF HistoryRecords
  <2>5. CASE ~(call.clean /\ done)
    BY <1>2, <1>4, <2>2, <2>3, <2>5 DEF HistoryRecords
  <2>6. QED
    BY <2>4, <2>5
<1>7. Typed'
  BY <1>3, <1>6 DEF AccessInv, Typed, Calls, FinishUninstall
<1>8. TunnelFirst' /\ ConnectorServes' /\ EnablingKeeps' /\ LeavingKnown' /\ PlanSound'
  BY <1>6 DEF TunnelFirst, ConnectorServes, EnablingKeeps, LeavingKnown, PlanSound,
     FinishUninstall, Waiting
<1>9. AllFound' /\ DashboardReachable' /\ NothingLeft' /\ PoliciesKept'
  BY <1>4, <1>6 DEF AccessInv, AllFound, DashboardReachable, NothingLeft, PoliciesKept, FinishUninstall
<1>10. QED
  BY <1>7, <1>8, <1>9 DEF AccessInv

-----------------------------------------------------------------------------
(* The theorems.                                                           *)

\* Nothing is configured, made or begun at the start.
LEMMA InitAccessInv == AccessInit => AccessInv
<1> SUFFICES ASSUME AccessInit PROVE AccessInv
  OBVIOUS
<1>1. Typed
  BY DEF AccessInit, Typed, Calls, HistoryRecords
<1>2. TunnelFirst /\ ConnectorServes /\ EnablingKeeps /\ LeavingKnown /\ PlanSound
  BY DEF AccessInit, TunnelFirst, ConnectorServes, EnablingKeeps, LeavingKnown, PlanSound, Waiting
<1>3. AllFound /\ DashboardReachable /\ PoliciesKept /\ NothingLeft
  BY DEF AccessInit, AllFound, DashboardReachable, PoliciesKept, NothingLeft, HostObjects
<1>4. QED
  BY <1>1, <1>2, <1>3 DEF AccessInv

\* Every step keeps the invariant.
LEMMA StepAccessInv == AccessInv /\ [AccessNext]_accessVars => AccessInv'
<1> SUFFICES ASSUME AccessInv, [AccessNext]_accessVars PROVE AccessInv'
  OBVIOUS
<1>1. CASE AccessNext
  <2> USE <1>1 DEF AccessNext
  <2>1. CASE \E n \in TunnelNames : InitNode(n)
    BY <2>1, InitNodeKept
  <2>2. CASE \E policy \in AccessPolicies \cup {Nothing} : SaveSetup(policy)
    BY <2>2, SaveSetupKept
  <2>3. CASE \E policy \in AccessPolicies \cup {Nothing}, h \in OtherHosts \cap used : OtherApp(h, policy)
    BY <2>3, AccountKept
  <2>4. CASE \E policy \in AccessPolicies : CreatePolicyAgain(policy)
    BY <2>4, AccountKept
  <2>5. CASE ClearSetup \/ ResetNode
    BY <2>5, ClearSetupKept, ResetNodeKept
  <2>6. CASE \E h \in ServiceHosts \cap used : ExposeHost(h)
    BY <2>6, ExposeHostKept
  <2>7. CASE \E h \in DashboardHosts \cap used : BeginEnable(h)
    BY <2>7, BeginEnableKept
  <2>8. CASE GivesUp \/ BreakOff
    BY <2>8, EndsKept
  <2>9. CASE MakeTunnel \/ InitTunnel \/ AddRoute \/ InstallConnector
    BY <2>9, MakeTunnelKept, InitTunnelKept, AddRouteKept, InstallConnectorKept
  <2>10. CASE MakeRecord \/ MakeApp
    BY <2>10, MakeRecordKept, MakeAppKept
  <2>11. CASE BeginDisable \/ RemoveDashboardRoute \/ RemoveRecord \/ RemoveApp
    BY <2>11, BeginDisableKept, DisablingKept, RemoveAppKept
  <2>12. CASE BeginUninstall \/ DeleteApps \/ DeleteRecords
    BY <2>12, BeginUninstallKept, DeletionsKept
  <2>13. CASE DeletePolicies \/ FinishUninstall
    BY <2>13, DeletePoliciesKept, FinishUninstallKept
  <2>14. QED
    BY <2>1, <2>2, <2>3, <2>4, <2>5, <2>6, <2>7, <2>8, <2>9, <2>10, <2>11, <2>12, <2>13
       DEF AccessStep
<1>2. CASE UNCHANGED accessVars
  BY <1>2 DEF accessVars, AccessInv, Typed, TunnelFirst, ConnectorServes, EnablingKeeps, LeavingKnown,
     AllFound, PlanSound, DashboardReachable, PoliciesKept, NothingLeft, HostObjects, Routed
<1>3. QED
  BY <1>1, <1>2

\* The invariant holds in every state.
LEMMA AlwaysAccessInv == AccessSpec => []AccessInv
  BY InitAccessInv, StepAccessInv, PTL DEF AccessSpec

\* The types of everything that the node and its account keep, whatever has failed.
THEOREM AccessTypeCorrect == AccessSpec => []AccessTypeOK
<1>1. AccessInv => AccessTypeOK
  BY DEF AccessInv, Typed, AccessTypeOK, Calls, Waiting, Enablings, Disablings, Uninstallations
<1>2. QED
  BY AlwaysAccessInv, <1>1, PTL

\* In every order of the steps of enabling, disabling, reset and uninstallation, and
\* wherever one of them breaks off: a recorded dashboard is reached through the tunnel of
\* the node and behind its app, every object that was made is found by a later request or
\* was given up, the cleanup takes no policy of others, and a clean one leaves nothing.
THEOREM DashboardSoundHolds == AccessSpec => []DashboardSound
<1>1. AccessInv => DashboardSound
  BY DEF AccessInv, AllFound, ObjectsFound, DashboardSound
<1>2. QED
  BY AlwaysAccessInv, <1>1, PTL

-----------------------------------------------------------------------------
(* The dashboard and the exposure of profiles.                             *)

\* What is checked of both parts in one run is checked of each: a step of one leaves the
\* other at rest.
THEOREM ShownAreParts == ShownSpec => Spec /\ AccessSpec
<1>1. ShownInit => Init /\ AccessInit
  BY DEF ShownInit
<1>2. [ShownNext]_<<vars, accessVars, part>> => [Next]_vars /\ [AccessNext]_accessVars
  <2> SUFFICES ASSUME [ShownNext]_<<vars, accessVars, part>>
               PROVE  [Next]_vars /\ [AccessNext]_accessVars
    OBVIOUS
  <2>1. CASE UNCHANGED <<vars, accessVars, part>>
    BY <2>1
  <2>2. CASE ShownNext
    <3>1. (ExposureMoves /\ Next) \/ (DashboardMoves /\ AccessStep)
      BY <2>2, Zenon DEF ShownNext, Next, Begin, RequestStep, AccessStep
    <3>2. ExposureMoves => UNCHANGED accessVars
      BY DEF ExposureMoves
    <3>3. DashboardMoves => UNCHANGED vars /\ used' = used
      BY DEF DashboardMoves
    <3>4. QED
      BY <3>1, <3>2, <3>3 DEF AccessNext
  <2>3. QED
    BY <2>1, <2>2
<1>3. QED
  BY <1>1, <1>2, PTL DEF ShownSpec, Spec, AccessSpec

\* Whatever is exposed, every variable of both parts has values of its kind.
THEOREM ShownTypeCorrect == ShownSpec => []ShownTypeOK
<1>1. TypeOK /\ AccessTypeOK => ShownTypeOK
  BY DEF ShownTypeOK
<1>2. QED
  BY <1>1, ShownAreParts, TypeCorrect, AccessTypeCorrect, PTL
=============================================================================
