--------------------------- MODULE DashboardAccess ---------------------------
(***************************************************************************)
(* The dashboard of a node behind Cloudflare: the setup of the account,    *)
(* enabling and disabling the access (cluster_routes.py, cf_routes.py,     *)
(* cloudflared.py), and the cleanup when the node is uninstalled           *)
(* (cf_cleanup.py).  Every call to Cloudflare may fail, the process may    *)
(* die between two of them, and nothing is rolled back: what has been made *)
(* stays, and a later request works with what it finds.                    *)
(***************************************************************************)
EXTENDS Naturals, FiniteSets

CONSTANTS
    DashboardHosts,  \* hostnames the dashboard may get
    ServiceHosts,    \* hostnames of services of this node
    OtherHosts,      \* hostnames of other nodes' apps in the same account
    HomeHosts,       \* those in the zone of the configuration
    AccessPolicies,
    TunnelIds,       \* in the order of their making
    TunnelNames,     \* names this node may be given
    HostSets,        \* bounds: a behaviour uses the hostnames of one of these sets
    Nothing

NodeHosts == DashboardHosts \cup ServiceHosts

NodeRecords ==
    [name : TunnelNames, cf : BOOLEAN, policy : AccessPolicies \cup {Nothing},
     tunnel : TunnelIds \cup {Nothing}, dashboard : DashboardHosts \cup {Nothing},
     aud : DashboardHosts \cup {Nothing}]

ASSUME DashboardAssumption ==
    /\ TunnelIds \subseteq Nat
    /\ HomeHosts \subseteq NodeHosts
    /\ HostSets \subseteq SUBSET (NodeHosts \cup OtherHosts)
    /\ OtherHosts \cap NodeHosts = {}
    /\ Nothing \notin NodeHosts \cup TunnelIds \cup AccessPolicies \cup TunnelNames
    /\ Nothing \notin NodeRecords

VARIABLES
    node,        \* node.json, or Nothing
    exposed,     \* services.json: hostnames of services
    connector,   \* the tunnel that the running cloudflared serves
    tunnelOf,    \* Cloudflare: tunnels by name
    routesOf,    \* the hostnames each tunnel's configuration routes
    records,     \* DNS: the tunnel a hostname leads to
    accessApps,  \* Access apps: the policy of the app in front of a hostname
    policies,    \* the policies of the account
    call,        \* the request, or the uninstallation, in progress
    known,       \* history: see HistoryRecords
    used         \* the hostnames this behaviour uses, which never change

cloudflare == <<tunnelOf, routesOf, records, accessApps, policies>>
accessVars == <<node, exposed, connector, cloudflare, call, known, used>>

\* policy: the default one, if any; cf: whether credentials are stored.
Configuration(name) ==
    [name |-> name, cf |-> FALSE, policy |-> Nothing, tunnel |-> Nothing,
     dashboard |-> Nothing, aud |-> Nothing]

Waiting == [op |-> "none"]

\* Of the recorded dashboard, guarded: it was enabled with a policy; leaving: its removal
\* has begun.  givenUp: hostnames to whose objects no record leads any more, as the
\* operator was told, or chose.  cut: an enabling ended between the tunnel id and the
\* connector.  cleaned: an uninstallation has just ended without a failing call.
HistoryRecords ==
    [guarded : BOOLEAN, leaving : BOOLEAN, givenUp : SUBSET NodeHosts,
     cut : BOOLEAN, cleaned : BOOLEAN]

AccessInit ==
    /\ node = Nothing
    /\ exposed = {}
    /\ connector = Nothing
    /\ tunnelOf = [n \in TunnelNames |-> Nothing]
    /\ routesOf = [t \in TunnelIds |-> {}]
    /\ records = [h \in NodeHosts |-> Nothing]
    /\ accessApps = [h \in NodeHosts \cup OtherHosts |-> Nothing]
    /\ policies = AccessPolicies
    /\ call = Waiting
    /\ known = [guarded |-> FALSE, leaving |-> FALSE, givenUp |-> {}, cut |-> FALSE, cleaned |-> FALSE]
    /\ used \in HostSets

IsConfigured == node # Nothing
HasCf == node # Nothing /\ node.cf
Routed(t) == IF t = Nothing THEN {} ELSE routesOf[t]
HostObjects == {h \in NodeHosts : records[h] # Nothing \/ accessApps[h] # Nothing}

-----------------------------------------------------------------------------
(* The configuration.                                                      *)

\* init_as_master, init_as_worker.
InitNode(name) ==
    /\ node = Nothing
    /\ call = Waiting
    /\ node' = Configuration(name)
    /\ UNCHANGED <<exposed, connector, cloudflare, call, known>>

\* cf_setup_save, after the account has answered; the policy is one it lists.
SaveSetup(policy) ==
    /\ IsConfigured
    /\ policy \in policies \cup {Nothing}
    /\ node' = [node EXCEPT !.cf = TRUE, !.policy = policy]
    /\ UNCHANGED <<exposed, connector, cloudflare, call, known>>

\* cf_setup_clear.
ClearSetup ==
    /\ IsConfigured
    /\ node' = [node EXCEPT !.cf = FALSE, !.policy = Nothing, !.aud = Nothing]
    /\ UNCHANGED <<exposed, connector, cloudflare, call, known>>

\* config_reset: the objects stay at Cloudflare, and the node forgets them.
ResetNode ==
    /\ IsConfigured
    /\ node' = Nothing
    /\ known' = [known EXCEPT !.givenUp = @ \cup HostObjects \cup
                   (IF call.op = "enable" THEN {call.host} ELSE {}), !.cut = TRUE]
    /\ UNCHANGED <<exposed, connector, cloudflare, call>>

\* cf_setup_create_policy, and what other nodes of the account make with its policies.
CreatePolicyAgain(policy) ==
    /\ policy \notin policies
    /\ policies' = policies \cup {policy}
    /\ UNCHANGED <<node, exposed, connector, tunnelOf, routesOf, records, accessApps, call, known>>

OtherApp(h, policy) ==
    /\ call.op # "uninstall"
    /\ policy \in policies \cup {Nothing}
    /\ accessApps' = [accessApps EXCEPT ![h] = policy]
    /\ UNCHANGED <<node, exposed, connector, tunnelOf, routesOf, records, policies, call, known>>

\* A service gets a hostname: route, record and app (register_service, without faults).
ExposeHost(h) ==
    /\ HasCf /\ node.tunnel # Nothing /\ node.policy \in policies
    /\ call = Waiting
    /\ h \notin exposed \cup HostObjects \cup Routed(node.tunnel)
    /\ exposed' = exposed \cup {h}
    /\ routesOf' = [routesOf EXCEPT ![node.tunnel] = @ \cup {h}]
    /\ records' = [records EXCEPT ![h] = node.tunnel]
    /\ accessApps' = [accessApps EXCEPT ![h] = node.policy]
    /\ known' = [known EXCEPT !.cleaned = FALSE]
    /\ UNCHANGED <<node, connector, tunnelOf, policies, call>>

-----------------------------------------------------------------------------
(* config_enable_dashboard_access.                                         *)

In(op, at) == call.op = op /\ call.at = at
Step(at) == [call EXCEPT !.at = at]

\* Zones and team domain are asked for before anything is changed.  A careful operator
\* repeats a disabling that broke off: the next hostname replaces the recorded one.
BeginEnable(h) ==
    /\ call = Waiting
    /\ HasCf
    /\ node.dashboard # Nothing => ~known.leaving
    /\ call' = [op |-> "enable", at |-> IF node.tunnel = Nothing THEN "create" ELSE "route",
                host |-> h, tunnel |-> node.tunnel, policy |-> node.policy, new |-> node.tunnel = Nothing]
    /\ known' = [known EXCEPT !.cleaned = FALSE]
    /\ UNCHANGED <<node, exposed, connector, cloudflare>>

\* An error of Cloudflare, of systemd, or of a configuration that is gone; or the
\* process dies.
GivesUp ==
    /\ call.op = "enable"
    /\ call' = Waiting
    /\ known' = [known EXCEPT !.cut = @ \/ (call.new /\ call.at \in {"route", "token", "connector"})]
    /\ UNCHANGED <<node, exposed, connector, cloudflare>>

\* create_tunnel: the tunnel of this name, or a new one.
MakeTunnel ==
    /\ In("enable", "create")
    /\ HasCf
    /\ IF tunnelOf[node.name] # Nothing
       THEN /\ call' = [Step("init") EXCEPT !.tunnel = tunnelOf[node.name]]
            /\ UNCHANGED tunnelOf
       ELSE \E t \in TunnelIds :
              /\ \A n \in TunnelNames : tunnelOf[n] # t
              /\ \A u \in TunnelIds : u < t => \E n \in TunnelNames : tunnelOf[n] = u
              /\ call' = [Step("init") EXCEPT !.tunnel = t]
              /\ tunnelOf' = [tunnelOf EXCEPT ![node.name] = t]
    /\ UNCHANGED <<node, exposed, connector, routesOf, records, accessApps, policies, known>>

\* init_tunnel_config, whose refusal is not noticed; then set_tunnel_id.  The routes a
\* reused tunnel had are gone.
InitTunnel ==
    /\ In("enable", "init")
    /\ HasCf
    /\ \E done \in BOOLEAN :
         routesOf' = IF done THEN [routesOf EXCEPT ![call.tunnel] = {}] ELSE routesOf
    /\ node' = [node EXCEPT !.tunnel = call.tunnel]
    /\ call' = Step("route")
    /\ UNCHANGED <<exposed, connector, tunnelOf, records, accessApps, policies, known>>

\* add_tunnel_route refuses a hostname the tunnel has.
AddRoute ==
    /\ In("enable", "route")
    /\ HasCf
    /\ call.host \notin routesOf[call.tunnel]
    /\ routesOf' = [routesOf EXCEPT ![call.tunnel] = @ \cup {call.host}]
    /\ call' = Step(IF call.new THEN "connector" ELSE "dns")
    /\ UNCHANGED <<node, exposed, connector, tunnelOf, records, accessApps, policies, known>>

\* setup_cloudflared_user_service: `enable --now` leaves a connector that runs as it is.
InstallConnector ==
    /\ In("enable", "connector")
    /\ connector' = IF connector = Nothing THEN call.tunnel ELSE connector
    /\ call' = Step("dns")
    /\ UNCHANGED <<node, exposed, cloudflare, known>>

\* The id of the app, if there is one, and set_dashboard_hostname, in one step.
RecordedHost(h) ==
    [node EXCEPT !.dashboard = h, !.aud = IF call.policy = Nothing THEN @ ELSE h]

EnabledAs(h) ==
    /\ IsConfigured
    /\ node' = RecordedHost(h)
    /\ call' = Waiting
    /\ known' = [known EXCEPT !.leaving = FALSE, !.givenUp = @ \ {h},
                   !.guarded = call.policy # Nothing]

\* create_dns_record; without a policy the enabling ends here.
MakeRecord ==
    LET h == call.host IN
    /\ In("enable", "dns")
    /\ HasCf
    /\ records[h] = Nothing
    /\ records' = [records EXCEPT ![h] = call.tunnel]
    /\ IF call.policy = Nothing THEN EnabledAs(h) ELSE call' = Step("app") /\ UNCHANGED <<node, known>>
    /\ UNCHANGED <<exposed, connector, tunnelOf, routesOf, accessApps, policies>>

\* create_access_app.
MakeApp ==
    LET h == call.host IN
    /\ In("enable", "app")
    /\ HasCf
    /\ accessApps[h] = Nothing /\ call.policy \in policies
    /\ accessApps' = [accessApps EXCEPT ![h] = call.policy]
    /\ EnabledAs(h)
    /\ UNCHANGED <<exposed, connector, tunnelOf, routesOf, records, policies>>

-----------------------------------------------------------------------------
(* config_disable_dashboard_access: each failure is a warning.             *)

BeginDisable ==
    /\ call = Waiting
    /\ IsConfigured /\ node.dashboard # Nothing
    /\ call' = [op |-> "disable", at |-> "route", host |-> node.dashboard]
    /\ known' = [known EXCEPT !.leaving = TRUE, !.cleaned = FALSE]
    /\ UNCHANGED <<node, exposed, connector, cloudflare>>

RemoveDashboardRoute ==
    /\ In("disable", "route")
    /\ \E done \in BOOLEAN :
         routesOf' = IF done /\ HasCf /\ node.tunnel # Nothing
                     THEN [routesOf EXCEPT ![node.tunnel] = @ \ {call.host}] ELSE routesOf
    /\ call' = Step("dns")
    /\ UNCHANGED <<node, exposed, connector, tunnelOf, records, accessApps, policies, known>>

RemoveRecord ==
    /\ In("disable", "dns")
    /\ \E done \in BOOLEAN :
         records' = IF done /\ HasCf THEN [records EXCEPT ![call.host] = Nothing] ELSE records
    /\ call' = Step("app")
    /\ UNCHANGED <<node, exposed, connector, tunnelOf, routesOf, accessApps, policies, known>>

\* What is left is named in the warnings, and nowhere else.
AfterDisable(left) == [known EXCEPT !.givenUp = @ \cup left]

RemoveApp ==
    LET h == call.host IN
    /\ In("disable", "app")
    /\ \E done \in BOOLEAN :
         accessApps' = IF done /\ HasCf THEN [accessApps EXCEPT ![h] = Nothing] ELSE accessApps
    /\ node' = IF IsConfigured THEN [node EXCEPT !.dashboard = Nothing] ELSE node
    /\ known' = AfterDisable(IF records[h] # Nothing \/ accessApps'[h] # Nothing THEN {h} ELSE {})
    /\ call' = Waiting
    /\ UNCHANGED <<exposed, connector, tunnelOf, routesOf, records, policies>>

-----------------------------------------------------------------------------
(* cf_cleanup.py: the plan is made and confirmed, then carried out whatever *)
(* fails.  The server runs on until the cleanup has ended.                 *)

\* Variant of PoliciesInUse: only the apps of this node are looked at.
NoneInUse(doomed) == {}

\* Policies of the apps that are kept.
PoliciesInUse(doomed) == {accessApps[h] : h \in (NodeHosts \cup OtherHosts) \ doomed}

\* Reads that fail leave their part of the plan empty.
Plan(failed) ==
    LET own == exposed \cup {node.dashboard} \cup
               (IF "routes" \in failed THEN {} ELSE Routed(node.tunnel))
        doomed == IF "apps" \in failed THEN {} ELSE {h \in own \cap NodeHosts : accessApps[h] # Nothing} IN
    [dns |-> IF "dns" \in failed THEN {} ELSE {h \in own \cap HomeHosts : records[h] # Nothing},
     apps |-> doomed,
     policies |-> {accessApps[h] : h \in doomed} \ PoliciesInUse(doomed),
     tunnel |-> node.tunnel]

BeginUninstall ==
    /\ call = Waiting
    /\ HasCf
    /\ \E failed \in SUBSET {"routes", "dns", "apps"} :
         call' = [op |-> "uninstall", at |-> "apps", plan |-> Plan(failed), clean |-> failed = {}]
    /\ known' = [known EXCEPT !.leaving = TRUE]
    /\ UNCHANGED <<node, exposed, connector, cloudflare>>

\* Of what one kind has in the plan, some deletions fail.
NextDeletion(at, kept) == [call EXCEPT !.at = at, !.clean = @ /\ kept = {}]

DeleteApps ==
    /\ In("uninstall", "apps")
    /\ \E kept \in SUBSET call.plan.apps :
         /\ accessApps' = [h \in DOMAIN accessApps |-> IF h \in call.plan.apps \ kept THEN Nothing ELSE accessApps[h]]
         /\ call' = NextDeletion("dns", kept)
    /\ UNCHANGED <<node, exposed, connector, tunnelOf, routesOf, records, policies, known>>

DeleteRecords ==
    /\ In("uninstall", "dns")
    /\ \E kept \in SUBSET call.plan.dns :
         /\ records' = [h \in NodeHosts |-> IF h \in call.plan.dns \ kept THEN Nothing ELSE records[h]]
         /\ call' = NextDeletion("policies", kept)
    /\ UNCHANGED <<node, exposed, connector, tunnelOf, routesOf, accessApps, policies, known>>

DeletePolicies ==
    /\ In("uninstall", "policies")
    /\ \E kept \in SUBSET call.plan.policies :
         /\ policies' = policies \ (call.plan.policies \ kept)
         /\ call' = NextDeletion("tunnel", kept)
    /\ UNCHANGED <<node, exposed, connector, tunnelOf, routesOf, records, accessApps, known>>

\* Records are looked for in the configured zone only.
ElsewhereOnly == {h \in NodeHosts \ HomeHosts : records[h] # Nothing /\ accessApps[h] = Nothing}

\* The tunnel, then the rest of `uninstall`: services, connector, server, configuration.
\* What no deletion reached is left for good.
FinishUninstall ==
    LET t == call.plan.tunnel IN
    /\ In("uninstall", "tunnel")
    /\ \E done \in BOOLEAN :
         /\ routesOf' = IF done /\ t # Nothing THEN [routesOf EXCEPT ![t] = {}] ELSE routesOf
         /\ tunnelOf' = IF done /\ t # Nothing
                        THEN [n \in TunnelNames |-> IF tunnelOf[n] = t THEN Nothing ELSE tunnelOf[n]]
                        ELSE tunnelOf
         /\ known' = [known EXCEPT !.cleaned = call.clean /\ done, !.cut = TRUE,
                        !.givenUp = IF call.clean /\ done THEN @ \cup ElsewhereOnly ELSE HostObjects]
    /\ node' = Nothing
    /\ exposed' = {}
    /\ connector' = Nothing
    /\ call' = Waiting
    /\ UNCHANGED <<records, accessApps, policies>>

\* The process dies in the middle of a disabling, or the cleanup is interrupted.
BreakOff ==
    /\ call.op \in {"disable", "uninstall"}
    /\ call' = Waiting
    /\ UNCHANGED <<node, exposed, connector, cloudflare, known>>

AccessStep ==
    \/ \E n \in TunnelNames : InitNode(n)
    \/ \E policy \in AccessPolicies \cup {Nothing} :
         \/ SaveSetup(policy)
         \/ \E h \in OtherHosts \cap used : OtherApp(h, policy)
    \/ \E policy \in AccessPolicies : CreatePolicyAgain(policy)
    \/ ClearSetup \/ ResetNode
    \/ \E h \in ServiceHosts \cap used : ExposeHost(h)
    \/ \E h \in DashboardHosts \cap used : BeginEnable(h)
    \/ GivesUp \/ MakeTunnel \/ InitTunnel \/ AddRoute \/ InstallConnector
    \/ MakeRecord \/ MakeApp
    \/ BeginDisable \/ RemoveDashboardRoute \/ RemoveRecord \/ RemoveApp
    \/ BeginUninstall \/ DeleteApps \/ DeleteRecords \/ DeletePolicies \/ FinishUninstall
    \/ BreakOff

AccessNext == AccessStep /\ used' = used

AccessSpec == AccessInit /\ [][AccessNext]_accessVars

-----------------------------------------------------------------------------
(* Properties.                                                             *)

AccessTypeOK ==
    /\ node \in NodeRecords \cup {Nothing}
    /\ exposed \subseteq ServiceHosts
    /\ connector \in TunnelIds \cup {Nothing}
    /\ tunnelOf \in [TunnelNames -> TunnelIds \cup {Nothing}]
    /\ routesOf \in [TunnelIds -> SUBSET NodeHosts]
    /\ records \in [NodeHosts -> TunnelIds \cup {Nothing}]
    /\ accessApps \in [NodeHosts \cup OtherHosts -> AccessPolicies \cup {Nothing}]
    /\ policies \subseteq AccessPolicies
    /\ call.op \in {"none", "enable", "disable", "uninstall"}
    /\ known \in HistoryRecords
    /\ used \in HostSets

\* A recorded dashboard is reached through the tunnel of the node, by a connector, and
\* behind its app if it was enabled with a policy.
DashboardReachable ==
    LET h == node.dashboard IN
    IsConfigured /\ node.dashboard # Nothing /\ ~known.leaving =>
        /\ h \in Routed(node.tunnel)
        /\ records[h] = node.tunnel
        /\ connector = node.tunnel \/ known.cut
        /\ known.guarded => accessApps[h] # Nothing /\ node.aud \in {h, Nothing}

\* Whatever fails on the way, a later request or the cleanup finds every object the
\* node has made: by the recorded hostnames, or by the routes of its tunnel.
ObjectsFound ==
    \A h \in HostObjects \ known.givenUp :
        \/ h \in exposed
        \/ IsConfigured /\ (h = node.dashboard \/ h \in Routed(node.tunnel))
        \/ call.op \in {"disable", "uninstall"}

\* The cleanup takes no policy from an app that it leaves.
PoliciesKept == \A h \in OtherHosts : accessApps[h] # Nothing => accessApps[h] \in policies

\* After a cleanup in which nothing failed only what had been given up before is left,
\* and records in other zones than the configured one.
NothingLeft ==
    known.cleaned => HostObjects \subseteq known.givenUp

\* What the access of the dashboard promises in every order of its steps and failures.
DashboardSound == DashboardReachable /\ ObjectsFound /\ PoliciesKept /\ NothingLeft
=============================================================================
