------------------------- MODULE CloudflareExposure -------------------------
(***************************************************************************)
(* The public exposure of inference profiles through Cloudflare            *)
(* (inference_connect.py, with the calls of tunnel.py it makes).  A        *)
(* profile is exposed by five objects at Cloudflare: a tunnel route, a DNS *)
(* record and an Access application, named by their hostname, and a policy *)
(* and one or more service tokens, named by ids.  Every call may fail; a   *)
(* deletion that fails becomes a cleanup record that is retried or         *)
(* forgotten by the operator.  Each await of a handler is a step.          *)
(***************************************************************************)
EXTENDS Naturals, FiniteSets, Sequences, SequencesExt

CONSTANTS
    Profiles, Hosts, Policies,
    OwnedTokens,     \* ids of the tokens Cloudflare creates for inframatik
    ExternalTokens,  \* tokens that exist already and are managed elsewhere
    Requests,        \* requests that may be in flight at once
    Faults,          \* how a call may go wrong: "fails", "lost", "refused"
    Careless,        \* the operator may name hosts and tokens of other profiles
    MaxForgotten,    \* bound: cleanup records the operator drops
    None

ASSUME ExposureAssumption ==
    /\ OwnedTokens \cap ExternalTokens = {}
    /\ Faults \subseteq {"fails", "lost", "refused"}
    /\ Careless \in BOOLEAN
    /\ MaxForgotten \in Nat
    /\ None \notin Profiles \cup Hosts \cup Policies \cup OwnedTokens \cup ExternalTokens

VARIABLES
    route,      \* the tunnel configuration: the profile a hostname leads to
    dns,        \* hostnames with a DNS record
    app,        \* the policy of the Access application of a hostname
    include,    \* the tokens a policy admits; a policy that admits none does not exist
    tokens,     \* service tokens that exist
    issued,     \* ids of policies and tokens given out so far
    profiles,   \* profiles in the registry
    cf,         \* the cloudflare record of each profile
    wish,       \* the exposure.hostname of each profile
    cleanup,    \* inference_cleanup.json
    forgotten,  \* objects whose cleanup record the operator has dropped
    req         \* the requests in flight

remote == <<route, dns, app, include, tokens, issued>>
local == <<profiles, cf, wish, cleanup, forgotten>>
vars == <<remote, local, req>>

-----------------------------------------------------------------------------
(* Objects, records and requests.                                          *)

Tokens == OwnedTokens \cup ExternalTokens

Object(kind, name) == [kind |-> kind, name |-> name]

Objects ==
    [kind : {"route", "dns", "app"}, name : Hosts]
      \cup [kind : {"policy"}, name : Policies]
      \cup [kind : {"token"}, name : Tokens]

TokenStates == {"none", "active", "retired"}

CloudflareRecords ==
    [host : Hosts \cup {None}, policy : Policies \cup {None},
     state : [Tokens -> TokenStates], owned : SUBSET Tokens]

NoCloudflare ==
    [host |-> None, policy |-> None, state |-> [t \in Tokens |-> "none"], owned |-> {}]

\* _cleanup_id: records are kept by profile, kind and hostname or id, and the
\* payload of a token has a hostname.
KeyOf(object, host) == IF object.kind = "token" THEN host ELSE object.name

Record(p, object, host) == [profile |-> p, object |-> object, key |-> KeyOf(object, host)]

SameId(a, b) ==
    a.profile = b.profile /\ a.object.kind = b.object.kind /\ a.key = b.key

\* _record_cleanup: a record of the same id is replaced.
Recorded(record) == {c \in cleanup : ~SameId(c, record)} \cup {record}

Idle ==
    [op |-> "none", profile |-> None, at |-> "idle", host |-> None, token |-> None,
     policy |-> None, seen |-> [h \in Hosts |-> None], cf |-> NoCloudflare,
     todo |-> <<>>, made |-> <<>>, discard |-> FALSE, record |-> None]

Active(c) == {t \in Tokens : c.state[t] = "active"}

\* Every call is answered, fails without effect, takes effect with its answer
\* lost, or is answered with success = false.
Answers == {"ok"} \cup Faults
Applied(a) == a \in {"ok", "lost"}

-----------------------------------------------------------------------------
Init ==
    /\ route = [h \in Hosts |-> None]
    /\ dns = {}
    /\ app = [h \in Hosts |-> None]
    /\ include = [i \in Policies |-> {}]
    /\ tokens = ExternalTokens
    /\ issued = {}
    /\ profiles = Profiles
    /\ cf = [p \in Profiles |-> NoCloudflare]
    /\ wish = [p \in Profiles |-> None]
    /\ cleanup = {}
    /\ forgotten = {}
    /\ req = [r \in Requests |-> Idle]

At(r, op, at) == req[r].op = op /\ req[r].at = at

-----------------------------------------------------------------------------
(* provision_cloudflare_exposure.                                          *)

\* The operator gives each profile a hostname of its own.
OwnHost(p, h) == \A q \in Profiles \ {p} : h \notin {cf[q].host, wish[q]}

\* `existing` is the service_token_id of the request, or None for a new token.
BeginProvision(r, p, h, existing) ==
    /\ req[r].op = "none"
    /\ p \in profiles
    /\ cf[p].host \in {None, h}
    /\ Careless \/ (OwnHost(p, h) /\ existing \notin OwnedTokens)
    /\ req' = [req EXCEPT ![r] = [Idle EXCEPT
            !.op = "provision", !.profile = p, !.at = "readRoutes", !.host = h,
            !.token = existing, !.cf = cf[p]]]
    /\ UNCHANGED <<remote, local>>

\* An exception: what was made so far is undone, the last object first.
Raised(r) ==
    IF req[r].made = <<>> THEN Idle
    ELSE [req[r] EXCEPT !.at = "clean", !.todo = Reverse(req[r].made)]

Made(r, object, next) ==
    [req[r] EXCEPT !.at = next, !.made = Append(@, object)]

\* Variant of RouteFree: a hostname is given a second rule.
RouteAssumedFree(r) == req[r].host # None

\* add_tunnel_route refuses a hostname that has a rule.
RouteFree(r) == route[req[r].host] = None

\* It reads the whole tunnel configuration ...
ReadRoutes(r) ==
    /\ At(r, "provision", "readRoutes")
    /\ \E a \in Answers :
         req' = [req EXCEPT ![r] =
            IF a = "ok" /\ RouteFree(r)
            THEN [@ EXCEPT !.at = "writeRoutes", !.seen = route]
            ELSE Raised(r)]
    /\ UNCHANGED <<remote, local>>

\* ... and writes it back with the new rule.
WriteRoutes(r) ==
    LET h == req[r].host IN
    /\ At(r, "provision", "writeRoutes")
    /\ \E a \in Answers :
         /\ route' = IF Applied(a) THEN [req[r].seen EXCEPT ![h] = req[r].profile] ELSE route
         /\ req' = [req EXCEPT ![r] =
                IF a = "ok" THEN Made(r, Object("route", h), "dns") ELSE Raised(r)]
    /\ UNCHANGED <<dns, app, include, tokens, issued, local>>

\* Variant of AfterDns: the policy is made for a token that is not there yet.
NeverToken(r) == "policy"

\* A token is created unless the request names one.
AfterDns(r) == IF req[r].token = None THEN "token" ELSE "policy"

\* Cloudflare refuses a second record of the same name.
CreateDns(r) ==
    LET h == req[r].host IN
    /\ At(r, "provision", "dns")
    /\ \E a \in Answers :
         /\ dns' = IF Applied(a) THEN dns \cup {h} ELSE dns
         /\ req' = [req EXCEPT ![r] =
                IF a = "ok" /\ h \notin dns
                THEN Made(r, Object("dns", h), AfterDns(r))
                ELSE Raised(r)]
    /\ UNCHANGED <<route, app, include, tokens, issued, local>>

NextToken == CHOOSE t \in OwnedTokens \ issued : TRUE

\* A call that creates a token; `next` is what follows when it is answered.
CreateToken(r, next) ==
    /\ OwnedTokens \ issued # {}
    /\ \E a \in Answers :
         /\ tokens' = IF Applied(a) THEN tokens \cup {NextToken} ELSE tokens
         /\ issued' = IF Applied(a) THEN issued \cup {NextToken} ELSE issued
         /\ req' = [req EXCEPT ![r] = IF a = "ok" THEN next ELSE Raised(r)]
    /\ UNCHANGED <<route, dns, app, include, local>>

ProvisionToken(r) ==
    /\ At(r, "provision", "token")
    /\ CreateToken(r, [Made(r, Object("token", NextToken), "policy") EXCEPT !.token = NextToken])

NextPolicy == CHOOSE i \in Policies \ issued : TRUE

CreatePolicy(r) ==
    /\ At(r, "provision", "policy")
    /\ Policies \ issued # {}
    /\ \E a \in Answers :
         /\ include' = IF Applied(a) THEN [include EXCEPT ![NextPolicy] = {req[r].token}]
                       ELSE include
         /\ issued' = IF Applied(a) THEN issued \cup {NextPolicy} ELSE issued
         /\ req' = [req EXCEPT ![r] =
                IF a = "ok"
                THEN [Made(r, Object("policy", NextPolicy), "app") EXCEPT !.policy = NextPolicy]
                ELSE Raised(r)]
    /\ UNCHANGED <<route, dns, app, tokens, local>>

\* The record of a profile that has just been exposed: its only token is the one
\* of this request.
Exposed(r) ==
    [host |-> req[r].host, policy |-> req[r].policy,
     state |-> [t \in Tokens |-> IF t = req[r].token THEN "active" ELSE "none"],
     owned |-> {req[r].token} \cap OwnedTokens \cap
               {o.name : o \in ToSet(req[r].made)}]

\* _update_profile_cloudflare: fails when the profile is gone.
Stored(p, record) == IF p \in profiles THEN [cf EXCEPT ![p] = record] ELSE cf

\* The last object, and the record of the profile with it.  Cloudflare refuses a
\* second application for a hostname.
CreateApp(r) ==
    LET h == req[r].host
        p == req[r].profile IN
    /\ At(r, "provision", "app")
    /\ \E a \in Answers :
         LET done == a = "ok" /\ app[h] = None IN
         /\ app' = IF Applied(a) /\ app[h] = None THEN [app EXCEPT ![h] = req[r].policy] ELSE app
         /\ cf' = IF done THEN Stored(p, Exposed(r)) ELSE cf
         /\ wish' = IF done /\ p \in profiles THEN [wish EXCEPT ![p] = h] ELSE wish
         /\ req' = [req EXCEPT ![r] = IF done THEN Idle ELSE Raised(r)]
    /\ UNCHANGED <<route, dns, include, tokens, issued, profiles, cleanup, forgotten>>

-----------------------------------------------------------------------------
(* Deletions: the undoing of a failed provisioning, the removal of an      *)
(* exposure, and the retry of a cleanup record share _run_cleanup_action.  *)

\* remove_cloudflare_exposure and delete_profile_with_cleanup.
HostOf(p) == IF cf[p].host # None THEN cf[p].host ELSE wish[p]

\* Variant of OwnedObjects: all tokens of the profile go, also those it only uses.
AllTokenObjects(p) == SetToSeq({Object("token", t) : t \in {u \in Tokens : cf[p].state[u] # "none"}})

OwnedObjects(p) ==
    SetToSeq({Object("token", t) : t \in {u \in cf[p].owned : cf[p].state[u] # "none"}})

ToRemove(p, withTokens) ==
    <<Object("route", HostOf(p)), Object("dns", HostOf(p)), Object("app", HostOf(p))>>
      \o (IF cf[p].policy = None THEN <<>> ELSE <<Object("policy", cf[p].policy)>>)
      \o (IF withTokens THEN OwnedObjects(p) ELSE <<>>)

BeginRemove(r, p, op, withTokens) ==
    /\ req[r].op = "none"
    /\ p \in profiles
    /\ HostOf(p) # None
    /\ op = "delete" => cf[p].host # None
    /\ req' = [req EXCEPT ![r] = [Idle EXCEPT
            !.op = op, !.profile = p, !.at = "clean", !.host = HostOf(p),
            !.todo = ToRemove(p, withTokens), !.discard = withTokens]]
    /\ UNCHANGED <<remote, local>>

BeginRetry(r, record) ==
    /\ req[r].op = "none"
    /\ record \in cleanup
    /\ req' = [req EXCEPT ![r] = [Idle EXCEPT
            !.op = "retry", !.profile = record.profile, !.at = "clean",
            !.host = record.key, !.todo = <<record.object>>, !.record = record]]
    /\ UNCHANGED <<remote, local>>

\* What is left to do once an object is dealt with, and the end of the request:
\* a removal clears the record of the profile, a deletion drops the profile too
\* unless delete_profile refuses it.
Proceed(r, rest, refused) ==
    LET p == req[r].profile
        ends == rest = <<>> IN
    /\ req' = [req EXCEPT ![r] = IF ends THEN Idle
                                 ELSE [@ EXCEPT !.at = "clean", !.todo = rest]]
    /\ cf' = IF ends /\ req[r].op \in {"remove", "delete"} THEN Stored(p, NoCloudflare) ELSE cf
    /\ wish' = IF ends /\ req[r].op \in {"remove", "delete"} THEN [wish EXCEPT ![p] = None]
               ELSE wish
    /\ profiles' = IF ends /\ req[r].op = "delete" /\ ~refused THEN profiles \ {p} ELSE profiles

\* Variant of Kept: the failure is only logged.
KeptNothing(r, object) == cleanup

\* The outcome of a deletion in the cleanup registry.
Kept(r, object) ==
    IF req[r].op = "retry"
    THEN IF \E c \in cleanup : SameId(c, req[r].record) THEN cleanup
         ELSE cleanup \cup {req[r].record}
    ELSE Recorded(Record(req[r].profile, object, req[r].host))

Cleaned(r) ==
    IF req[r].op = "retry" THEN {c \in cleanup : ~SameId(c, req[r].record)} ELSE cleanup

Outcome(r, object, raised) ==
    /\ cleanup' = IF raised THEN Kept(r, object) ELSE Cleaned(r)
    /\ \E refused \in IF req[r].op = "delete" THEN BOOLEAN ELSE {FALSE} :
         Proceed(r, Tail(req[r].todo), refused)
    /\ UNCHANGED <<issued, forgotten>>

\* remove_tunnel_route reads the configuration, and raises when the route is not
\* in it ...
ReadForRemoval(r) ==
    LET o == Head(req[r].todo) IN
    /\ req[r].at = "clean"
    /\ o.kind = "route"
    /\ \E a \in Answers :
         IF a = "ok" /\ route[o.name] # None
         THEN /\ req' = [req EXCEPT ![r].at = "removeRoute", ![r].seen = route]
              /\ UNCHANGED local
         ELSE Outcome(r, o, TRUE)
    /\ UNCHANGED remote

\* ... and writes the rest back.
RemoveRoute(r) ==
    LET o == Head(req[r].todo) IN
    /\ req[r].at = "removeRoute"
    /\ \E a \in Answers :
         /\ route' = IF Applied(a) THEN [req[r].seen EXCEPT ![o.name] = None] ELSE route
         /\ Outcome(r, o, a # "ok")
    /\ UNCHANGED <<dns, app, include, tokens>>

\* The other kinds.  A deletion answered with success = false, or that finds
\* nothing to delete, returns False and counts as done.
DeleteObject(r) ==
    LET o == Head(req[r].todo) IN
    /\ req[r].at = "clean"
    /\ o.kind # "route"
    /\ \E a \in Answers :
         /\ dns' = IF Applied(a) THEN {h \in dns : o # Object("dns", h)} ELSE dns
         /\ app' = IF Applied(a) THEN [h \in Hosts |-> IF o = Object("app", h) THEN None ELSE app[h]]
                   ELSE app
         /\ include' = IF Applied(a)
                       THEN [i \in Policies |-> IF o = Object("policy", i) THEN {} ELSE include[i]]
                       ELSE include
         /\ tokens' = IF Applied(a) THEN {t \in tokens : o # Object("token", t)} ELSE tokens
         /\ Outcome(r, o, a \in {"fails", "lost"})
    /\ UNCHANGED route

\* forget_cleanup_record.
Forget(record) ==
    /\ record \in cleanup
    /\ Cardinality(forgotten) < MaxForgotten
    /\ cleanup' = cleanup \ {record}
    /\ forgotten' = forgotten \cup {record.object}
    /\ UNCHANGED <<remote, profiles, cf, wish, req>>

-----------------------------------------------------------------------------
(* Service tokens of an exposed profile.  Each handler works on a copy of  *)
(* the profile's record and writes it back after its awaits.               *)

BeginToken(r, p, op, t, discard) ==
    /\ req[r].op = "none"
    /\ p \in profiles
    /\ req' = [req EXCEPT ![r] = [Idle EXCEPT
            !.op = op, !.profile = p, !.at = "call", !.token = t, !.cf = cf[p],
            !.policy = cf[p].policy, !.discard = discard]]
    /\ UNCHANGED <<remote, local>>

\* generate_cloudflare_service_token: a new token ...
BeginGenerate(r, p) ==
    /\ cf[p].policy # None
    /\ BeginToken(r, p, "generate", None, FALSE)

GenerateToken(r) ==
    /\ At(r, "generate", "call")
    /\ CreateToken(r, [req[r] EXCEPT
            !.at = "policy", !.token = NextToken,
            !.cf.state[NextToken] = "active", !.cf.owned = @ \cup {NextToken}])

Save(r) ==
    /\ cf' = Stored(req[r].profile, req[r].cf)
    /\ req' = [req EXCEPT ![r] = Idle]
    /\ UNCHANGED <<profiles, wish, cleanup, forgotten>>

GiveUp(r) ==
    /\ req' = [req EXCEPT ![r] = Idle]
    /\ UNCHANGED local

\* update_service_auth_policy_tokens: reads the policy, and puts the given tokens.
Admits(i, admitted, a) ==
    include' = IF Applied(a) /\ include[i] # {} THEN [include EXCEPT ![i] = admitted] ELSE include

\* ... is admitted by the policy with the other active ones, and recorded.
GenerateAdmit(r) ==
    LET i == req[r].policy IN
    /\ At(r, "generate", "policy")
    /\ \E a \in Answers :
         /\ Admits(i, Active(req[r].cf), a)
         /\ IF a = "ok" /\ include[i] # {} THEN Save(r) ELSE GiveUp(r)
    /\ UNCHANGED <<route, dns, app, tokens, issued>>

\* rotate_cloudflare_service_token: a new secret for a token; its id stays.
BeginRotate(r, p, t) ==
    /\ cf[p].state[t] # "none"
    /\ BeginToken(r, p, "rotate", t, FALSE)

Rotate(r) ==
    /\ At(r, "rotate", "call")
    /\ \E a \in Answers : IF a = "ok" /\ req[r].token \in tokens THEN Save(r) ELSE GiveUp(r)
    /\ UNCHANGED remote

\* Variant of OtherActive: a retired token counts as a remaining one.
OtherKnown(c, t) == {u \in Tokens : c.state[u] # "none"} \ {t}

\* retire_cloudflare_service_token: another active token must remain.
OtherActive(c, t) == Active(c) \ {t}

MayRetire(p, t) == cf[p].state[t] # "none" /\ OtherActive(cf[p], t) # {}

BeginRetire(r, p, t, deleteIfOwned) ==
    /\ MayRetire(p, t)
    /\ BeginToken(r, p, "retire", t, deleteIfOwned)

RetireAdmit(r) ==
    LET i == req[r].policy
        t == req[r].token
        retired == [req[r].cf EXCEPT !.state[t] = "retired"] IN
    /\ At(r, "retire", "call")
    /\ \E a \in Answers :
         /\ Admits(i, OtherActive(req[r].cf, t), a)
         /\ IF a # "ok" \/ include[i] = {} THEN GiveUp(r)
            ELSE IF req[r].discard /\ t \in req[r].cf.owned
            THEN /\ req' = [req EXCEPT ![r].at = "delete", ![r].cf = retired]
                 /\ UNCHANGED local
            ELSE /\ cf' = Stored(req[r].profile, retired)
                 /\ req' = [req EXCEPT ![r] = Idle]
                 /\ UNCHANGED <<profiles, wish, cleanup, forgotten>>
    /\ UNCHANGED <<route, dns, app, tokens, issued>>

\* A deletion that is refused still counts as done.
RetireDelete(r) ==
    /\ At(r, "retire", "delete")
    /\ \E a \in Answers :
         /\ tokens' = IF Applied(a) THEN tokens \ {req[r].token} ELSE tokens
         /\ IF a \in {"ok", "refused"} THEN Save(r) ELSE GiveUp(r)
    /\ UNCHANGED <<route, dns, app, include, issued>>

-----------------------------------------------------------------------------
(* Profiles come and go.                                                   *)

Configure(p, h) ==
    /\ h # None => Careless
    /\ profiles' = profiles \cup {p}
    /\ wish' = [wish EXCEPT ![p] = h]
    /\ cf[p].host = None
    /\ UNCHANGED <<remote, cf, cleanup, forgotten, req>>

\* delete_profile_with_cleanup of a profile that is not exposed; a careful operator
\* does not delete a profile that is being exposed.
DeleteUnexposed(p) ==
    /\ p \in profiles
    /\ Careless \/ \A r \in Requests : req[r].profile # p
    /\ cf[p].host = None
    /\ profiles' = profiles \ {p}
    /\ wish' = [wish EXCEPT ![p] = None]
    /\ UNCHANGED <<remote, cf, cleanup, forgotten, req>>

RequestStep(r) ==
    \/ ReadRoutes(r) \/ WriteRoutes(r) \/ CreateDns(r) \/ ProvisionToken(r)
    \/ CreatePolicy(r) \/ CreateApp(r)
    \/ ReadForRemoval(r) \/ RemoveRoute(r) \/ DeleteObject(r)
    \/ GenerateToken(r) \/ GenerateAdmit(r) \/ Rotate(r) \/ RetireAdmit(r) \/ RetireDelete(r)

Begin(r) ==
    \/ \E p \in Profiles, h \in Hosts, t \in Tokens \cup {None} : BeginProvision(r, p, h, t)
    \/ \E p \in Profiles, op \in {"remove", "delete"}, d \in BOOLEAN : BeginRemove(r, p, op, d)
    \/ \E record \in cleanup : BeginRetry(r, record)
    \/ \E p \in Profiles : BeginGenerate(r, p)
    \/ \E p \in Profiles, t \in Tokens : BeginRotate(r, p, t)
    \/ \E p \in Profiles, t \in Tokens, d \in BOOLEAN : BeginRetire(r, p, t, d)

Next ==
    \/ \E r \in Requests : Begin(r) \/ RequestStep(r)
    \/ \E record \in cleanup : Forget(record)
    \/ \E p \in Profiles, h \in Hosts \cup {None} : Configure(p, h)
    \/ \E p \in Profiles : DeleteUnexposed(p)

Spec == Init /\ [][Next]_vars

-----------------------------------------------------------------------------
(* Properties.                                                             *)

TypeOK ==
    /\ route \in [Hosts -> Profiles \cup {None}]
    /\ dns \subseteq Hosts
    /\ app \in [Hosts -> Policies \cup {None}]
    /\ include \in [Policies -> SUBSET Tokens]
    /\ tokens \subseteq Tokens
    /\ issued \subseteq Policies \cup OwnedTokens
    /\ profiles \subseteq Profiles
    /\ cf \in [Profiles -> CloudflareRecords]
    /\ wish \in [Profiles -> Hosts \cup {None}]
    /\ cleanup \subseteq [profile : Profiles, object : Objects, key : Hosts \cup Policies]
    /\ forgotten \subseteq Objects

\* The objects the record of a profile relies on.
UsedBy(p) ==
    IF cf[p].host = None THEN {}
    ELSE {Object("route", cf[p].host), Object("dns", cf[p].host), Object("app", cf[p].host),
          Object("policy", cf[p].policy)}

Exists(o) ==
    \/ \E h \in Hosts : \/ o = Object("route", h) /\ route[h] # None
                        \/ o = Object("dns", h) /\ h \in dns
                        \/ o = Object("app", h) /\ app[h] # None
    \/ \E i \in Policies : o = Object("policy", i) /\ include[i] # {}
    \/ \E t \in tokens : o = Object("token", t)

\* The objects a request in flight still has to record or to undo.
HeldBy(r) ==
    ToSet(IF req[r].at \in {"clean", "removeRoute"} THEN req[r].todo ELSE req[r].made)

Removing(p) == \E r \in Requests : req[r].profile = p /\ req[r].op \in {"remove", "delete"}

\* Every route, DNS record, application and policy that exists is in the record of
\* a profile, in the hands of a request, owed by a cleanup record, or was given up
\* by the operator: nothing is left at Cloudflare that nobody knows of.
Accounted ==
    \A o \in Objects : o.kind # "token" /\ Exists(o) =>
        \/ \E p \in Profiles : o \in UsedBy(p)
        \/ \E c \in cleanup : c.object = o
        \/ \E r \in Requests : o \in HeldBy(r)
        \/ o \in forgotten

\* No pending cleanup names an object that an exposed profile relies on: a retry,
\* however late, never takes down a live exposure.
PendingNotInUse ==
    \A c \in cleanup, p \in Profiles : ~Removing(p) => c.object \notin UsedBy(p)

\* A profile recorded as exposed, with no request under way, can be reached: its
\* hostname leads to it, its application has its policy, and one of the tokens it
\* shows as active exists and is admitted.
ExposureWorks ==
    \A p \in Profiles :
        cf[p].host # None /\ (\A r \in Requests : req[r].profile # p) =>
            /\ route[cf[p].host] = p
            /\ cf[p].host \in dns
            /\ app[cf[p].host] = cf[p].policy
            /\ Active(cf[p]) \cap include[cf[p].policy] \cap tokens # {}

\* A token that was not created by inframatik is never deleted by it.
ExternalTokensKept == [][ExternalTokens \cap tokens \subseteq tokens']_vars
=============================================================================
