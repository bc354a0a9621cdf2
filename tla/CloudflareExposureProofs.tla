---------------------- MODULE CloudflareExposureProofs ----------------------
(***************************************************************************)
(* Theorems about CloudflareExposure: its types, and that tokens managed   *)
(* elsewhere are never deleted, for any number of requests in flight and   *)
(* any faults of the calls.                                                *)
(***************************************************************************)
EXTENDS CloudflareExposure, FiniteSetTheorems, TLAPS

\* Objects whose deletion takes no external token.
Harmless == {o \in Objects : o.kind = "token" => o.name \in OwnedTokens}

OwnRecords ==
    {c \in CloudflareRecords : c.owned \subseteq OwnedTokens /\ IsFiniteSet(c.owned)}

CleanupRecords == [profile : Profiles, object : Harmless, key : Hosts \cup Policies]

RequestRecords ==
    [op : {"none", "provision", "remove", "delete", "retry", "generate", "rotate", "retire"},
     at : {"idle", "readRoutes", "writeRoutes", "dns", "token", "policy", "app", "clean",
           "removeRoute", "call", "delete"},
     profile : Profiles \cup {None}, host : Hosts \cup Policies \cup {None},
     token : Tokens \cup {None}, policy : Policies \cup {None},
     seen : [Hosts -> Profiles \cup {None}], cf : OwnRecords,
     todo : Seq(Harmless), made : Seq(Harmless), discard : BOOLEAN,
     record : CleanupRecords \cup {None}]

\* What a request knows at its position.
Prepared(q) ==
    /\ q.op # "none" => q.profile \in Profiles
    /\ q.op \in {"provision", "remove", "delete"} => q.host \in Hosts
    /\ q.op = "retry" => q.record \in CleanupRecords
    /\ q.at \in {"clean", "removeRoute"} =>
         /\ q.op \in {"provision", "remove", "delete", "retry"}
         /\ q.todo # <<>>
    /\ q.op = "provision" /\ q.at \in {"policy", "app"} => q.token \in Tokens
    /\ q.op = "provision" /\ q.at = "app" => q.policy \in Policies
    /\ q.op \in {"rotate", "retire"} => q.token \in Tokens
    /\ q.op = "retire" /\ q.at = "delete" => q.token \in OwnedTokens
    /\ q.op # "provision" => q.made = <<>>

RemoteOK ==
    /\ route \in [Hosts -> Profiles \cup {None}]
    /\ dns \subseteq Hosts
    /\ app \in [Hosts -> Policies \cup {None}]
    /\ include \in [Policies -> SUBSET Tokens]
    /\ tokens \subseteq Tokens
    /\ issued \subseteq Policies \cup OwnedTokens

LocalOK ==
    /\ profiles \subseteq Profiles
    /\ cf \in [Profiles -> OwnRecords]
    /\ wish \in [Profiles -> Hosts \cup {None}]
    /\ cleanup \subseteq CleanupRecords
    /\ forgotten \subseteq Objects

RequestsOK ==
    /\ req \in [Requests -> RequestRecords]
    /\ \A r \in Requests : Prepared(req[r])

Inv == RemoteOK /\ LocalOK /\ RequestsOK

-----------------------------------------------------------------------------
(* Sets in some order, and sequences backwards.                            *)

\* A finite set put in some order is a sequence of its members.
LEMMA SetToSeqType ==
    ASSUME NEW S, IsFiniteSet(S)
    PROVE  SetToSeq(S) \in Seq(S)
<1>1. Cardinality(S) \in Nat /\ ExistsBijection(1..Cardinality(S), S)
  BY FS_CardinalityType
<1>2. \E f \in [1..Cardinality(S) -> S] : IsInjective(f)
  BY <1>1 DEF ExistsBijection, Bijection, Injection, Surjection, IsInjective
<1>3. SetToSeq(S) \in [1..Cardinality(S) -> S]
  BY <1>2 DEF SetToSeq
<1>4. QED
  BY <1>1, <1>3

\* A sequence backwards has the same members.
LEMMA ReverseType ==
    ASSUME NEW S, NEW s \in Seq(S)
    PROVE  Reverse(s) \in Seq(S) /\ (s # <<>> => Reverse(s) # <<>>)
  BY DEF Reverse

\* The tokens that go with an exposure are inframatik's own.
LEMMA OwnedObjectsHarmless ==
    ASSUME Inv, NEW p \in Profiles
    PROVE  OwnedObjects(p) \in Seq(Harmless)
<1> DEFINE us == {u \in cf[p].owned : cf[p].state[u] # "none"}
           S == {Object("token", t) : t \in us}
<1>1. us \subseteq OwnedTokens /\ IsFiniteSet(us)
  BY FS_Subset DEF Inv, LocalOK, OwnRecords
<1>2. IsFiniteSet(S)
  <2> DEFINE f == [t \in us |-> Object("token", t)]
  <2>1. f \in Bijection(us, S)
    BY DEF Bijection, Injection, Surjection, IsInjective, Object
  <2>2. QED
    BY <1>1, <2>1, FS_Bijection DEF ExistsBijection
<1>3. S \subseteq Harmless
  BY <1>1 DEF Harmless, Objects, Object, Tokens
<1>4. SetToSeq(S) \in Seq(S)
  BY <1>2, SetToSeqType
<1>5. SetToSeq(S) \in Seq(Harmless)
  BY <1>3, <1>4
<1>6. QED
  BY <1>5 DEF OwnedObjects

-----------------------------------------------------------------------------
(* Requests.                                                               *)

\* None is nothing else.
LEMMA NoneApart == None \notin Profiles \cup Hosts \cup Policies \cup Tokens
  BY ExposureAssumption DEF Tokens

\* An idle request knows nothing.
LEMMA IdleType == Idle \in RequestRecords /\ Prepared(Idle)
<1>1. NoCloudflare \in OwnRecords
  BY FS_EmptySet DEF NoCloudflare, OwnRecords, CloudflareRecords, TokenStates
<1>2. QED
  BY <1>1 DEF Idle, RequestRecords, Prepared

\* One request changes, the others keep what they know.
LEMMA RequestChanges ==
    ASSUME Inv, NEW r \in Requests, NEW q \in RequestRecords, Prepared(q),
           req' = [req EXCEPT ![r] = q]
    PROVE  RequestsOK'
  BY DEF Inv, RequestsOK, RequestRecords, Prepared, OwnRecords, CloudflareRecords,
     CleanupRecords, Harmless, Objects

\* What an exception leaves to undo is what was made.
LEMMA RaisedType ==
    ASSUME Inv, NEW r \in Requests, req[r].op = "provision"
    PROVE  Raised(r) \in RequestRecords /\ Prepared(Raised(r))
<1> DEFINE q == req[r]
<1>1. q \in RequestRecords /\ Prepared(q)
  BY DEF Inv, RequestsOK
<1>2. CASE q.made = <<>>
  BY <1>2, IdleType DEF Raised
<1>3. CASE q.made # <<>>
  <2>1. Reverse(q.made) \in Seq(Harmless) /\ Reverse(q.made) # <<>>
    BY <1>1, <1>3, ReverseType DEF RequestRecords
  <2>2. Raised(r) = [q EXCEPT !.at = "clean", !.todo = Reverse(q.made)]
    BY <1>3 DEF Raised
  <2>3. Raised(r) \in RequestRecords
    BY <1>1, <2>1, <2>2, ZenonT(60) DEF RequestRecords
  <2>4. Prepared(Raised(r))
    BY <1>1, <2>1, <2>2 DEF RequestRecords, Prepared
  <2>5. QED
    BY <2>3, <2>4
<1>4. QED
  BY <1>2, <1>3

\* What is made goes to the list of what there would be to undo.
LEMMA MadeType ==
    ASSUME Inv, NEW r \in Requests, NEW o \in Harmless,
           NEW next \in {"dns", "token", "policy", "app"}
    PROVE  Made(r, o, next) \in RequestRecords
<1>1. req[r] \in RequestRecords
  BY DEF Inv, RequestsOK
<1>2. Append(req[r].made, o) \in Seq(Harmless)
  BY <1>1 DEF RequestRecords
<1>3. QED
  BY <1>1, <1>2, ZenonT(60) DEF RequestRecords, Made

-----------------------------------------------------------------------------
(* Deletions.                                                              *)

\* A cleanup record that a request leaves behind is for an object it was about to
\* delete.
LEMMA OutcomeKeeps ==
    ASSUME Inv, NEW r \in Requests, NEW raised \in BOOLEAN,
           req[r].at \in {"clean", "removeRoute"},
           Outcome(r, Head(req[r].todo), raised)
    PROVE  LocalOK' /\ RequestsOK' /\ issued' = issued
<1> DEFINE q == req[r]  o == Head(q.todo)  rest == Tail(q.todo)
<1>1. q \in RequestRecords /\ Prepared(q)
  BY DEF Inv, RequestsOK
<1>2. q.op \in {"provision", "remove", "delete", "retry"} /\ q.todo # <<>> /\ q.profile \in Profiles
  BY <1>1 DEF Prepared
<1>3. o \in Harmless /\ rest \in Seq(Harmless)
  BY <1>1, <1>2 DEF RequestRecords
<1>4. PICK refused \in BOOLEAN : Proceed(r, rest, refused)
  BY DEF Outcome
<1>5. cleanup' \subseteq CleanupRecords
  <2>1. CASE q.op = "retry"
    BY <1>1, <2>1 DEF Outcome, Kept, Cleaned, Prepared, Inv, LocalOK
  <2>2. CASE q.op # "retry"
    <3>1. q.host \in Hosts
      BY <1>1, <1>2, <2>2 DEF Prepared
    <3>2. Record(q.profile, o, q.host) \in CleanupRecords
      BY <1>2, <1>3, <3>1 DEF Record, CleanupRecords, KeyOf, Harmless, Objects
    <3>3. QED
      BY <2>2, <3>2 DEF Outcome, Kept, Cleaned, Recorded, Inv, LocalOK
  <2>3. QED
    BY <2>1, <2>2
<1>6. LocalOK'
  <2>1. NoCloudflare \in OwnRecords
    BY IdleType DEF Idle, RequestRecords
  <2>2. cf' \in [Profiles -> OwnRecords]
    BY <1>2, <1>4, <2>1 DEF Proceed, Stored, Inv, LocalOK
  <2>3. wish' \in [Profiles -> Hosts \cup {None}] /\ profiles' \subseteq Profiles
    BY <1>2, <1>4 DEF Proceed, Inv, LocalOK
  <2>4. forgotten' \subseteq Objects
    BY DEF Outcome, Inv, LocalOK
  <2>5. QED
    BY <1>5, <2>2, <2>3, <2>4 DEF LocalOK, OwnRecords, CloudflareRecords, CleanupRecords,
       Harmless, Objects
<1>7. RequestsOK'
  <2> DEFINE n == IF rest = <<>> THEN Idle ELSE [q EXCEPT !.at = "clean", !.todo = rest]
  <2>1. req' = [req EXCEPT ![r] = n]
    BY <1>4 DEF Proceed
  <2>2. n \in RequestRecords /\ Prepared(n)
    <3>1. CASE rest = <<>>
      BY <3>1, IdleType
    <3>2. CASE rest # <<>>
      <4>1. n = [q EXCEPT !.at = "clean", !.todo = rest]
        BY <3>2
      <4>2. n \in RequestRecords
        BY <1>1, <1>3, <4>1, ZenonT(120) DEF RequestRecords
      <4>3. Prepared(n)
        BY <1>1, <1>2, <3>2, <4>1 DEF RequestRecords, Prepared
      <4>4. QED
        BY <4>2, <4>3
    <3>3. QED
      BY <3>1, <3>2
  <2>3. QED
    BY <2>1, <2>2, RequestChanges
<1>8. QED
  BY <1>6, <1>7 DEF Outcome

-----------------------------------------------------------------------------
(* The steps of provisioning.                                              *)

\* The next steps keep the invariant and leave the local files alone.
LEMMA RoutesKept ==
    ASSUME Inv, NEW r \in Requests, ReadRoutes(r) \/ WriteRoutes(r) \/ CreateDns(r)
    PROVE  Inv' /\ tokens' = tokens
<1> DEFINE q == req[r]
<1>1. q \in RequestRecords /\ Prepared(q) /\ q.op = "provision"
  BY DEF Inv, RequestsOK, ReadRoutes, WriteRoutes, CreateDns, At
<1>2. q.host \in Hosts /\ q.profile \in Profiles
  BY <1>1 DEF Prepared
<1>3. Raised(r) \in RequestRecords /\ Prepared(Raised(r))
  BY <1>1, RaisedType
<1>4. CASE ReadRoutes(r)
  <2> DEFINE n == [q EXCEPT !.at = "writeRoutes", !.seen = route]
  <2>1. n \in RequestRecords /\ Prepared(n)
    BY <1>1, ZenonT(120) DEF RequestRecords, Prepared, Inv, RemoteOK
  <2>2. RequestsOK'
    BY <1>3, <1>4, <2>1, RequestChanges DEF ReadRoutes
  <2>3. QED
    BY <1>4, <2>2 DEF ReadRoutes, remote, local, Inv, RemoteOK, LocalOK, OwnRecords,
       CloudflareRecords, CleanupRecords, Harmless, Objects
<1>5. CASE WriteRoutes(r)
  <2> DEFINE n == Made(r, Object("route", q.host), "dns")
  <2>1. Object("route", q.host) \in Harmless
    BY <1>2 DEF Harmless, Objects, Object
  <2>2. n \in RequestRecords
    BY <2>1, MadeType
  <2>3. Prepared(n)
    BY <1>1 DEF Made, Prepared, RequestRecords
  <2>4. RequestsOK'
    BY <1>3, <1>5, <2>2, <2>3, RequestChanges DEF WriteRoutes
  <2>5. route' \in [Hosts -> Profiles \cup {None}]
    BY <1>1, <1>2, <1>5 DEF WriteRoutes, RequestRecords, Inv, RemoteOK
  <2>6. QED
    BY <1>5, <2>4, <2>5 DEF WriteRoutes, local, Inv, RemoteOK, LocalOK
<1>6. CASE CreateDns(r)
  <2> DEFINE n == Made(r, Object("dns", q.host), AfterDns(r))
  <2>1. Object("dns", q.host) \in Harmless
    BY <1>2 DEF Harmless, Objects, Object
  <2>2. n \in RequestRecords
    BY <2>1, MadeType DEF AfterDns
  <2>3. Prepared(n)
    BY <1>1 DEF Made, Prepared, RequestRecords, AfterDns
  <2>4. RequestsOK'
    BY <1>3, <1>6, <2>2, <2>3, RequestChanges DEF CreateDns
  <2>5. dns' \subseteq Hosts
    BY <1>2, <1>6 DEF CreateDns, Inv, RemoteOK
  <2>6. QED
    BY <1>6, <2>4, <2>5 DEF CreateDns, local, Inv, RemoteOK, LocalOK
<1>7. QED
  BY <1>4, <1>5, <1>6 DEF ReadRoutes, WriteRoutes, CreateDns, remote

\* What Cloudflare creates is a token of inframatik, by an id it has not used before.
LEMMA NextTokenOwned ==
    ASSUME OwnedTokens \ issued # {}
    PROVE  NextToken \in OwnedTokens
  BY DEF NextToken

\* A call that creates a token takes none away.
LEMMA CreateTokenKeeps ==
    ASSUME Inv, NEW r \in Requests, NEW next \in RequestRecords, Prepared(next),
           Raised(r) \in RequestRecords, Prepared(Raised(r)), CreateToken(r, next)
    PROVE  Inv' /\ tokens \subseteq tokens'
<1>1. NextToken \in OwnedTokens
  BY NextTokenOwned DEF CreateToken
<1>2. RequestsOK'
  BY RequestChanges DEF CreateToken
<1>3. tokens' \subseteq Tokens /\ issued' \subseteq Policies \cup OwnedTokens /\ tokens \subseteq tokens'
  BY <1>1 DEF CreateToken, Inv, RemoteOK, Tokens
<1>4. QED
  BY <1>2, <1>3 DEF CreateToken, local, Inv, RemoteOK, LocalOK

\* A token of a provisioning is made, or not.
LEMMA ProvisionTokenKept ==
    ASSUME Inv, NEW r \in Requests, ProvisionToken(r)
    PROVE  Inv' /\ tokens \subseteq tokens'
<1> DEFINE q == req[r]
           o == Object("token", NextToken)
           n == [Made(r, o, "policy") EXCEPT !.token = NextToken]
<1>1. q \in RequestRecords /\ Prepared(q) /\ q.op = "provision" /\ q.at = "token"
  BY DEF Inv, RequestsOK, ProvisionToken, At
<1>2. NextToken \in OwnedTokens
  BY NextTokenOwned DEF ProvisionToken, CreateToken
<1>3. o \in Harmless
  BY <1>2 DEF Harmless, Objects, Object, Tokens
<1>4. Made(r, o, "policy") \in RequestRecords
  BY <1>3, MadeType
<1>5. n \in RequestRecords
  BY <1>2, <1>4 DEF RequestRecords, Tokens
<1>6. Prepared(n)
  <2>1. /\ n.op = "provision" /\ n.at = "policy" /\ n.token = NextToken
        /\ n.profile = q.profile /\ n.host = q.host
    BY <1>1, <1>4 DEF RequestRecords, Made
  <2>2. QED
    BY <1>1, <1>2, <2>1 DEF Prepared, Tokens
<1>7. Raised(r) \in RequestRecords /\ Prepared(Raised(r))
  BY <1>1, RaisedType
<1>8. CreateToken(r, n)
  BY DEF ProvisionToken
<1>9. QED
  BY <1>5, <1>6, <1>7, <1>8, CreateTokenKeeps

\* The policy of a provisioning is made for a token that is known.
LEMMA CreatePolicyKept ==
    ASSUME Inv, NEW r \in Requests, CreatePolicy(r)
    PROVE  Inv' /\ tokens' = tokens
<1> DEFINE q == req[r]
           o == Object("policy", NextPolicy)
           n == [Made(r, o, "app") EXCEPT !.policy = NextPolicy]
<1>1. q \in RequestRecords /\ Prepared(q) /\ q.op = "provision" /\ q.at = "policy"
  BY DEF Inv, RequestsOK, CreatePolicy, At
<1>2. q.token \in Tokens
  BY <1>1 DEF Prepared
<1>3. NextPolicy \in Policies
  BY DEF CreatePolicy, NextPolicy
<1>4. o \in Harmless
  BY <1>3 DEF Harmless, Objects, Object
<1>5. Made(r, o, "app") \in RequestRecords
  BY <1>4, MadeType
<1>6. n \in RequestRecords
  BY <1>3, <1>5 DEF RequestRecords
<1>7. Prepared(n)
  <2>1. /\ n.op = "provision" /\ n.at = "app" /\ n.token = q.token /\ n.policy = NextPolicy
        /\ n.profile = q.profile /\ n.host = q.host
    BY <1>1, <1>5 DEF RequestRecords, Made
  <2>2. QED
    BY <1>1, <1>2, <1>3, <2>1 DEF Prepared
<1>8. Raised(r) \in RequestRecords /\ Prepared(Raised(r))
  BY <1>1, RaisedType
<1>9. RequestsOK'
  BY <1>6, <1>7, <1>8, RequestChanges DEF CreatePolicy
<1>10. include' \in [Policies -> SUBSET Tokens] /\ issued' \subseteq Policies \cup OwnedTokens
  BY <1>2, <1>3 DEF CreatePolicy, Inv, RemoteOK
<1>11. QED
  BY <1>9, <1>10 DEF CreatePolicy, local, Inv, RemoteOK, LocalOK

\* The record of an exposed profile owns tokens of inframatik only.
LEMMA CreateAppKept ==
    ASSUME Inv, NEW r \in Requests, CreateApp(r)
    PROVE  Inv' /\ tokens' = tokens
<1> DEFINE q == req[r]
<1>1. q \in RequestRecords /\ Prepared(q) /\ q.op = "provision" /\ q.at = "app"
  BY DEF Inv, RequestsOK, CreateApp, At
<1>2. q.token \in Tokens /\ q.policy \in Policies /\ q.host \in Hosts /\ q.profile \in Profiles
  BY <1>1 DEF Prepared
<1>3. Exposed(r) \in OwnRecords
  <2> DEFINE made == {x.name : x \in ToSet(q.made)}
  <2>1. IsFiniteSet({q.token} \cap OwnedTokens \cap made)
    <3>1. IsFiniteSet({q.token})
      BY FS_Singleton
    <3>2. {q.token} \cap OwnedTokens \cap made \in SUBSET {q.token}
      OBVIOUS
    <3>3. QED
      BY <3>1, <3>2, FS_Subset
  <2>2. Exposed(r) \in CloudflareRecords
    BY <1>2 DEF Exposed, CloudflareRecords, TokenStates, Tokens
  <2>3. Exposed(r).owned \subseteq OwnedTokens /\ IsFiniteSet(Exposed(r).owned)
    BY <2>1 DEF Exposed
  <2>4. QED
    BY <2>2, <2>3 DEF OwnRecords
<1>4. Raised(r) \in RequestRecords /\ Prepared(Raised(r))
  BY <1>1, RaisedType
<1>5. RequestsOK'
  BY <1>4, IdleType, RequestChanges DEF CreateApp
<1>6. app' \in [Hosts -> Policies \cup {None}]
  BY <1>2 DEF CreateApp, Inv, RemoteOK
<1>7. cf' \in [Profiles -> OwnRecords]
  BY <1>2, <1>3 DEF CreateApp, Stored, Inv, LocalOK
<1>8. wish' \in [Profiles -> Hosts \cup {None}]
  BY <1>2 DEF CreateApp, Inv, LocalOK
<1>9. QED
  BY <1>5, <1>6, <1>7, <1>8 DEF CreateApp, Inv, RemoteOK, LocalOK

-----------------------------------------------------------------------------
(* The steps of deletions.                                                 *)

\* Reading the routes, and deleting anything but a token, concerns no token.
LEMMA RemovalKept ==
    ASSUME Inv, NEW r \in Requests, ReadForRemoval(r) \/ RemoveRoute(r)
    PROVE  Inv' /\ tokens' = tokens
<1> DEFINE q == req[r]  o == Head(q.todo)
<1>1. q \in RequestRecords /\ Prepared(q) /\ q.at \in {"clean", "removeRoute"}
  BY DEF Inv, RequestsOK, ReadForRemoval, RemoveRoute
<1>2. CASE ReadForRemoval(r)
  <2>1. RemoteOK' /\ tokens' = tokens
    BY <1>2 DEF ReadForRemoval, remote, Inv, RemoteOK
  <2>2. CASE Outcome(r, o, TRUE)
    BY <1>1, <2>1, <2>2, OutcomeKeeps DEF Inv
  <2>3. CASE ~Outcome(r, o, TRUE)
    <3> DEFINE n == [q EXCEPT !.at = "removeRoute", !.seen = route]
    <3>1. q.at = "clean" /\ UNCHANGED local /\ req' = [req EXCEPT ![r].at = "removeRoute", ![r].seen = route]
      BY <1>2, <2>3 DEF ReadForRemoval
    <3>2. req' = [req EXCEPT ![r] = n]
      BY <1>1, <3>1 DEF Inv, RequestsOK, RequestRecords
    <3>3. n \in RequestRecords
      BY <1>1 DEF RequestRecords, Inv, RemoteOK
    <3>4. Prepared(n)
      BY <1>1, <3>1 DEF RequestRecords, Prepared
    <3>5. RequestsOK'
      BY <3>2, <3>3, <3>4, RequestChanges
    <3>6. QED
      BY <2>1, <3>1, <3>5 DEF local, Inv, LocalOK
  <2>4. QED
    BY <2>2, <2>3
<1>3. CASE RemoveRoute(r)
  <2>1. PICK a \in Answers : Outcome(r, o, a # "ok")
    BY <1>3 DEF RemoveRoute
  <2>2. LocalOK' /\ RequestsOK' /\ issued' = issued
    BY <1>1, <2>1, OutcomeKeeps
  <2>3. route' \in [Hosts -> Profiles \cup {None}]
    BY <1>1, <1>3 DEF RemoveRoute, RequestRecords, Inv, RemoteOK
  <2>4. QED
    BY <1>3, <2>2, <2>3 DEF RemoveRoute, Inv, RemoteOK
<1>4. QED
  BY <1>2, <1>3

\* A deletion takes only the object it is about: a token of inframatik at most.
LEMMA DeleteObjectKept ==
    ASSUME Inv, NEW r \in Requests, DeleteObject(r)
    PROVE  Inv' /\ ExternalTokens \cap tokens \subseteq tokens'
<1> DEFINE q == req[r]  o == Head(q.todo)
<1>1. q \in RequestRecords /\ Prepared(q) /\ q.at \in {"clean", "removeRoute"}
  BY DEF Inv, RequestsOK, DeleteObject
<1>2. o \in Harmless
  <2>1. q.todo \in Seq(Harmless) /\ q.todo # <<>>
    BY <1>1 DEF Prepared, RequestRecords
  <2>2. QED
    BY <2>1
<1>3. PICK a \in Answers :
        /\ dns' = IF Applied(a) THEN {h \in dns : o # Object("dns", h)} ELSE dns
        /\ app' = IF Applied(a) THEN [h \in Hosts |-> IF o = Object("app", h) THEN None ELSE app[h]]
                  ELSE app
        /\ include' = IF Applied(a)
                      THEN [i \in Policies |-> IF o = Object("policy", i) THEN {} ELSE include[i]]
                      ELSE include
        /\ tokens' = IF Applied(a) THEN {t \in tokens : o # Object("token", t)} ELSE tokens
        /\ Outcome(r, o, a \in {"fails", "lost"})
  BY DEF DeleteObject
<1>4. LocalOK' /\ RequestsOK' /\ issued' = issued
  <2> DEFINE raised == a \in {"fails", "lost"}
  <2>1. raised \in BOOLEAN
    OBVIOUS
  <2>2. Outcome(r, o, raised)
    BY <1>3
  <2> HIDE DEF raised
  <2>3. QED
    BY <1>1, <2>1, <2>2, OutcomeKeeps
<1>5. /\ dns' \subseteq Hosts /\ app' \in [Hosts -> Policies \cup {None}]
      /\ include' \in [Policies -> SUBSET Tokens] /\ tokens' \subseteq Tokens
  BY <1>3 DEF Inv, RemoteOK
<1>6. \A t \in ExternalTokens : o # Object("token", t)
  BY <1>2, ExposureAssumption DEF Harmless, Object
<1>7. QED
  BY <1>3, <1>4, <1>5, <1>6 DEF DeleteObject, Inv, RemoteOK

-----------------------------------------------------------------------------
(* The steps with service tokens.                                          *)

\* What a request writes back is a record, and the request is over.
LEMMA SaveKeeps ==
    ASSUME Inv, NEW r \in Requests, req[r].op # "none", NEW record \in OwnRecords,
           cf' = Stored(req[r].profile, record), req' = [req EXCEPT ![r] = Idle],
           UNCHANGED <<profiles, wish, cleanup, forgotten>>
    PROVE  LocalOK' /\ RequestsOK'
<1>1. req[r].profile \in Profiles
  BY DEF Inv, RequestsOK, Prepared
<1>2. cf' \in [Profiles -> OwnRecords]
  BY <1>1 DEF Stored, Inv, LocalOK
<1>3. RequestsOK'
  BY IdleType, RequestChanges
<1>4. QED
  BY <1>2, <1>3 DEF Inv, LocalOK

\* So it is when it gives up, or writes back the record it has.
LEMMA SaveOrGiveUp ==
    ASSUME Inv, NEW r \in Requests, req[r].op # "none", Save(r) \/ GiveUp(r)
    PROVE  LocalOK' /\ RequestsOK'
<1>1. req[r].cf \in OwnRecords
  BY DEF Inv, RequestsOK, RequestRecords
<1>2. CASE Save(r)
  BY <1>1, <1>2, SaveKeeps DEF Save
<1>3. CASE GiveUp(r)
  <2>1. RequestsOK'
    BY <1>3, IdleType, RequestChanges DEF GiveUp
  <2>2. QED
    BY <1>3, <2>1 DEF GiveUp, local, Inv, LocalOK
<1>4. QED
  BY <1>2, <1>3

\* A policy admits tokens.
LEMMA AdmitsType ==
    ASSUME Inv, NEW i, NEW admitted \in SUBSET Tokens, NEW a, Admits(i, admitted, a)
    PROVE  include' \in [Policies -> SUBSET Tokens]
  BY DEF Admits, Inv, RemoteOK

\* A token that is generated joins the copy of the record that the request holds.
LEMMA GenerateTokenKept ==
    ASSUME Inv, NEW r \in Requests, GenerateToken(r)
    PROVE  Inv' /\ tokens \subseteq tokens'
<1> DEFINE q == req[r]
           c == [q.cf EXCEPT !.state[NextToken] = "active", !.owned = @ \cup {NextToken}]
           n == [q EXCEPT !.at = "policy", !.token = NextToken,
                    !.cf.state[NextToken] = "active", !.cf.owned = @ \cup {NextToken}]
<1>1. q \in RequestRecords /\ Prepared(q) /\ q.op = "generate"
  BY DEF Inv, RequestsOK, GenerateToken, At
<1>2. NextToken \in OwnedTokens
  BY NextTokenOwned DEF GenerateToken, CreateToken
<1>3. c \in OwnRecords
  <2>1. q.cf \in CloudflareRecords /\ q.cf.owned \subseteq OwnedTokens /\ IsFiniteSet(q.cf.owned)
    BY <1>1 DEF RequestRecords, OwnRecords
  <2>2. IsFiniteSet(q.cf.owned \cup {NextToken})
    BY <2>1, FS_AddElement
  <2> DEFINE states == [q.cf.state EXCEPT ![NextToken] = "active"]
  <2>3. c = [q.cf EXCEPT !.state = states, !.owned = q.cf.owned \cup {NextToken}]
    BY <2>1 DEF CloudflareRecords
  <2>4. states \in [Tokens -> TokenStates]
    BY <2>1 DEF CloudflareRecords, TokenStates
  <2>5. q.cf.owned \cup {NextToken} \in SUBSET Tokens
    BY <1>2, <2>1 DEF Tokens
  <2>6. c \in CloudflareRecords /\ c.owned = q.cf.owned \cup {NextToken}
    BY <2>1, <2>3, <2>4, <2>5 DEF CloudflareRecords
  <2>7. QED
    BY <1>2, <2>1, <2>2, <2>6 DEF OwnRecords
<1>4. n = [q EXCEPT !.at = "policy", !.token = NextToken, !.cf = c]
  BY <1>1 DEF RequestRecords, OwnRecords, CloudflareRecords
<1>5. n \in RequestRecords
  BY <1>1, <1>2, <1>3, <1>4 DEF RequestRecords, Tokens
<1>6. Prepared(n)
  BY <1>1, <1>4 DEF RequestRecords, Prepared
<1>7. Raised(r) \in RequestRecords /\ Prepared(Raised(r))
  BY <1>1, IdleType DEF Raised, Prepared
<1>8. CreateToken(r, n)
  BY DEF GenerateToken
<1>9. QED
  BY <1>5, <1>6, <1>7, <1>8, CreateTokenKeeps

\* Admitting tokens, and a new secret, leave the tokens as they are.
LEMMA AdmissionKept ==
    ASSUME Inv, NEW r \in Requests, GenerateAdmit(r) \/ Rotate(r) \/ RetireAdmit(r)
    PROVE  Inv' /\ tokens' = tokens
<1> DEFINE q == req[r]
<1>1. q \in RequestRecords /\ Prepared(q) /\ q.op \in {"generate", "rotate", "retire"}
  BY DEF Inv, RequestsOK, GenerateAdmit, Rotate, RetireAdmit, At
<1>2. CASE GenerateAdmit(r)
  <2>1. LocalOK' /\ RequestsOK'
    BY <1>1, <1>2, SaveOrGiveUp DEF GenerateAdmit
  <2>2. include' \in [Policies -> SUBSET Tokens]
    BY <1>2, AdmitsType DEF GenerateAdmit, Active
  <2>3. QED
    BY <1>2, <2>1, <2>2 DEF GenerateAdmit, Inv, RemoteOK
<1>3. CASE Rotate(r)
  <2>1. LocalOK' /\ RequestsOK'
    BY <1>1, <1>3, SaveOrGiveUp DEF Rotate
  <2>2. QED
    BY <1>3, <2>1 DEF Rotate, remote, Inv, RemoteOK
<1>4. CASE RetireAdmit(r)
  <2> DEFINE t == q.token
             states == [q.cf.state EXCEPT ![t] = "retired"]
             retired == [q.cf EXCEPT !.state = states]
             n == [q EXCEPT !.at = "delete", !.cf = retired]
  <2>1. q.op = "retire" /\ t \in Tokens /\ q.cf \in OwnRecords
    BY <1>1, <1>4 DEF RetireAdmit, At, Prepared, RequestRecords
  <2>2. retired \in OwnRecords /\ retired = [q.cf EXCEPT !.state[t] = "retired"]
    BY <2>1 DEF OwnRecords, CloudflareRecords, TokenStates
  <2>3. include' \in [Policies -> SUBSET Tokens]
    BY <1>4, AdmitsType DEF RetireAdmit, OtherActive, Active
  <2>4. LocalOK' /\ RequestsOK'
    <3>1. CASE GiveUp(r)
      BY <1>1, <3>1, SaveOrGiveUp
    <3>2. CASE /\ t \in q.cf.owned
               /\ req' = [req EXCEPT ![r].at = "delete", ![r].cf = retired]
               /\ UNCHANGED local
      <4>1. req' = [req EXCEPT ![r] = n]
        BY <3>2 DEF Inv, RequestsOK
      <4>2. n \in RequestRecords
        BY <1>1, <2>2 DEF RequestRecords
      <4>3. Prepared(n)
        BY <1>1, <2>1, <3>2 DEF RequestRecords, Prepared, OwnRecords
      <4>4. RequestsOK'
        BY <4>1, <4>2, <4>3, RequestChanges
      <4>5. QED
        BY <3>2, <4>4 DEF local, Inv, LocalOK
    <3>3. CASE /\ cf' = Stored(q.profile, retired)
               /\ req' = [req EXCEPT ![r] = Idle]
               /\ UNCHANGED <<profiles, wish, cleanup, forgotten>>
      BY <2>1, <2>2, <3>3, SaveKeeps
    <3>4. QED
      BY <1>4, <2>2, <3>1, <3>2, <3>3 DEF RetireAdmit
  <2>5. QED
    BY <1>4, <2>3, <2>4 DEF RetireAdmit, Inv, RemoteOK
<1>5. QED
  BY <1>2, <1>3, <1>4 DEF GenerateAdmit, Rotate, RetireAdmit, remote

\* A retirement deletes a token only when it is one that inframatik created.
LEMMA RetireDeleteKept ==
    ASSUME Inv, NEW r \in Requests, RetireDelete(r)
    PROVE  Inv' /\ ExternalTokens \cap tokens \subseteq tokens'
<1> DEFINE q == req[r]
<1>1. q.op = "retire" /\ q.token \in OwnedTokens
  BY DEF Inv, RequestsOK, RetireDelete, At, Prepared
<1>2. LocalOK' /\ RequestsOK'
  BY <1>1, SaveOrGiveUp DEF RetireDelete
<1>3. tokens' \subseteq Tokens /\ ExternalTokens \cap tokens \subseteq tokens'
  BY <1>1, ExposureAssumption DEF RetireDelete, Inv, RemoteOK
<1>4. QED
  BY <1>2, <1>3 DEF RetireDelete, Inv, RemoteOK

-----------------------------------------------------------------------------
(* Requests begin, and profiles come and go.                               *)

\* A request that begins changes nothing but itself.
LEMMA BeginKeeps ==
    ASSUME Inv, NEW r \in Requests, NEW q \in RequestRecords, Prepared(q),
           req' = [req EXCEPT ![r] = q], UNCHANGED <<remote, local>>
    PROVE  Inv' /\ tokens' = tokens
<1>1. RequestsOK'
  BY RequestChanges
<1>2. QED
  BY <1>1 DEF remote, local, Inv, RemoteOK, LocalOK

\* A provisioning begins.
LEMMA BeginProvisionKept ==
    ASSUME Inv, NEW r \in Requests, NEW p \in Profiles, NEW h \in Hosts,
           NEW t \in Tokens \cup {None}, BeginProvision(r, p, h, t)
    PROVE  Inv' /\ tokens' = tokens
<1> DEFINE n == [Idle EXCEPT !.op = "provision", !.profile = p, !.at = "readRoutes",
                   !.host = h, !.token = t, !.cf = cf[p]]
<1>1. n \in RequestRecords
  BY IdleType DEF RequestRecords, Inv, LocalOK
<1>2. Prepared(n)
  BY DEF Idle, Prepared
<1>3. QED
  BY <1>1, <1>2, BeginKeeps DEF BeginProvision

\* What a removal is about to delete is the profile's own.
LEMMA BeginRemoveKept ==
    ASSUME Inv, NEW r \in Requests, NEW p \in Profiles, NEW op \in {"remove", "delete"},
           NEW d \in BOOLEAN, BeginRemove(r, p, op, d)
    PROVE  Inv' /\ tokens' = tokens
<1> DEFINE n == [Idle EXCEPT !.op = op, !.profile = p, !.at = "clean", !.host = HostOf(p),
                   !.todo = ToRemove(p, d), !.discard = d]
<1>1. HostOf(p) \in Hosts
  BY DEF BeginRemove, HostOf, Inv, LocalOK, OwnRecords, CloudflareRecords
<1>2. ToRemove(p, d) \in Seq(Harmless) /\ ToRemove(p, d) # <<>>
  <2> DEFINE three == <<Object("route", HostOf(p)), Object("dns", HostOf(p)), Object("app", HostOf(p))>>
             policy == IF cf[p].policy = None THEN <<>> ELSE <<Object("policy", cf[p].policy)>>
             owned == IF d THEN OwnedObjects(p) ELSE <<>>
  <2>1. three \in Seq(Harmless) /\ three # <<>>
    BY <1>1 DEF Harmless, Objects, Object
  <2>2. policy \in Seq(Harmless)
    <3>1. cf[p].policy \in Policies \cup {None}
      BY DEF Inv, LocalOK, OwnRecords, CloudflareRecords
    <3>2. CASE cf[p].policy = None
      BY <3>2
    <3>3. CASE cf[p].policy \in Policies
      <4>1. Object("policy", cf[p].policy) \in Harmless
        BY <3>3 DEF Harmless, Objects, Object
      <4>2. cf[p].policy # None
        BY <3>3, NoneApart
      <4>3. QED
        BY <4>1, <4>2
    <3>4. QED
      BY <3>1, <3>2, <3>3
  <2>3. owned \in Seq(Harmless)
    BY OwnedObjectsHarmless
  <2>4. ToRemove(p, d) = three \o policy \o owned
    BY DEF ToRemove
  <2> HIDE DEF three, policy, owned
  <2>5. QED
    BY <2>1, <2>2, <2>3, <2>4
<1>3. n \in RequestRecords
  BY <1>1, <1>2, IdleType DEF RequestRecords
<1>4. Prepared(n)
  BY <1>1, <1>2 DEF Idle, Prepared
<1>5. QED
  BY <1>3, <1>4, BeginKeeps DEF BeginRemove

\* The retry of a cleanup record deletes what the record names.
LEMMA BeginRetryKept ==
    ASSUME Inv, NEW r \in Requests, NEW record \in cleanup, BeginRetry(r, record)
    PROVE  Inv' /\ tokens' = tokens
<1> DEFINE n == [Idle EXCEPT !.op = "retry", !.profile = record.profile, !.at = "clean",
                   !.host = record.key, !.todo = <<record.object>>, !.record = record]
<1>1. /\ record \in CleanupRecords /\ record.profile \in Profiles
      /\ record.object \in Harmless /\ record.key \in Hosts \cup Policies
  BY DEF Inv, LocalOK, CleanupRecords
<1>2. <<record.object>> \in Seq(Harmless) /\ <<record.object>> # <<>>
  BY <1>1
<1>3. n \in RequestRecords
  BY <1>1, <1>2, IdleType DEF RequestRecords
<1>4. Prepared(n)
  BY <1>1, <1>2 DEF Idle, Prepared
<1>5. QED
  BY <1>3, <1>4, BeginKeeps DEF BeginRetry

\* A request about a token begins.
LEMMA BeginTokenKept ==
    ASSUME Inv, NEW r \in Requests, NEW p \in Profiles, NEW d \in BOOLEAN,
           NEW op \in {"generate", "rotate", "retire"},
           NEW t \in Tokens \cup {None}, op # "generate" => t \in Tokens,
           BeginToken(r, p, op, t, d)
    PROVE  Inv' /\ tokens' = tokens
<1> DEFINE n == [Idle EXCEPT !.op = op, !.profile = p, !.at = "call", !.token = t,
                   !.cf = cf[p], !.policy = cf[p].policy, !.discard = d]
<1>1. cf[p] \in OwnRecords /\ cf[p].policy \in Policies \cup {None}
  BY DEF Inv, LocalOK, OwnRecords, CloudflareRecords
<1>2. n \in RequestRecords
  BY <1>1, IdleType, ZenonT(60) DEF RequestRecords
<1>3. Prepared(n)
  BY DEF Idle, Prepared
<1>4. QED
  BY <1>2, <1>3, BeginKeeps DEF BeginToken

\* Whichever request begins, no token goes.
LEMMA BeginKept ==
    ASSUME Inv, NEW r \in Requests, Begin(r)
    PROVE  Inv' /\ tokens' = tokens
<1>1. CASE \E p \in Profiles, h \in Hosts, t \in Tokens \cup {None} : BeginProvision(r, p, h, t)
  BY <1>1, BeginProvisionKept
<1>2. CASE \E p \in Profiles, op \in {"remove", "delete"}, d \in BOOLEAN : BeginRemove(r, p, op, d)
  BY <1>2, BeginRemoveKept
<1>3. CASE \E record \in cleanup : BeginRetry(r, record)
  BY <1>3, BeginRetryKept
<1>4. CASE \E p \in Profiles : BeginGenerate(r, p)
  BY <1>4, BeginTokenKept DEF BeginGenerate
<1>5. CASE \E p \in Profiles, t \in Tokens : BeginRotate(r, p, t)
  BY <1>5, BeginTokenKept DEF BeginRotate
<1>6. CASE \E p \in Profiles, t \in Tokens, d \in BOOLEAN : BeginRetire(r, p, t, d)
  BY <1>6, BeginTokenKept DEF BeginRetire
<1>7. QED
  BY <1>1, <1>2, <1>3, <1>4, <1>5, <1>6 DEF Begin

\* The operator drops a cleanup record, and configures and deletes profiles.
LEMMA OperatorKept ==
    ASSUME Inv,
           \/ \E record \in cleanup : Forget(record)
           \/ \E p \in Profiles, h \in Hosts \cup {None} : Configure(p, h)
           \/ \E p \in Profiles : DeleteUnexposed(p)
    PROVE  Inv' /\ tokens' = tokens
<1>1. req' = req /\ RemoteOK' /\ tokens' = tokens
  BY DEF Forget, Configure, DeleteUnexposed, remote, Inv, RemoteOK
<1>2. LocalOK'
  <2>1. CASE \E record \in cleanup : Forget(record)
    BY <2>1 DEF Forget, Inv, LocalOK, CleanupRecords, Harmless
  <2>2. CASE \E p \in Profiles, h \in Hosts \cup {None} : Configure(p, h)
    BY <2>2 DEF Configure, Inv, LocalOK
  <2>3. CASE \E p \in Profiles : DeleteUnexposed(p)
    BY <2>3 DEF DeleteUnexposed, Inv, LocalOK
  <2>4. QED
    BY <2>1, <2>2, <2>3
<1>3. RequestsOK'
  BY <1>1 DEF Inv, RequestsOK
<1>4. QED
  BY <1>1, <1>2, <1>3 DEF Inv

-----------------------------------------------------------------------------
(* The theorems.                                                           *)

\* Nothing is exposed at the start.
LEMMA InitInv == Init => Inv
<1> SUFFICES ASSUME Init PROVE Inv
  OBVIOUS
<1>1. NoCloudflare \in OwnRecords /\ Idle \in RequestRecords /\ Prepared(Idle)
  BY IdleType DEF Idle, RequestRecords
<1>2. RemoteOK
  BY DEF Init, RemoteOK, Tokens
<1>3. LocalOK
  BY <1>1 DEF Init, LocalOK
<1>4. RequestsOK
  BY <1>1 DEF Init, RequestsOK
<1>5. QED
  BY <1>2, <1>3, <1>4 DEF Inv

\* Every step keeps the invariant and the external tokens.
LEMMA StepInv == Inv /\ [Next]_vars => Inv' /\ ExternalTokens \cap tokens \subseteq tokens'
<1> SUFFICES ASSUME Inv, [Next]_vars
             PROVE  Inv' /\ ExternalTokens \cap tokens \subseteq tokens'
  OBVIOUS
<1>1. CASE \E r \in Requests : Begin(r)
  BY <1>1, BeginKept
<1>2. ASSUME NEW r \in Requests, RequestStep(r)
      PROVE  Inv' /\ ExternalTokens \cap tokens \subseteq tokens'
  <2>1. CASE ReadRoutes(r) \/ WriteRoutes(r) \/ CreateDns(r)
    BY <2>1, RoutesKept
  <2>2. CASE ProvisionToken(r)
    BY <2>2, ProvisionTokenKept
  <2>3. CASE CreatePolicy(r)
    BY <2>3, CreatePolicyKept
  <2>4. CASE CreateApp(r)
    BY <2>4, CreateAppKept
  <2>5. CASE ReadForRemoval(r) \/ RemoveRoute(r)
    BY <2>5, RemovalKept
  <2>6. CASE DeleteObject(r)
    BY <2>6, DeleteObjectKept
  <2>7. CASE GenerateToken(r)
    BY <2>7, GenerateTokenKept
  <2>8. CASE GenerateAdmit(r) \/ Rotate(r) \/ RetireAdmit(r)
    BY <2>8, AdmissionKept
  <2>9. CASE RetireDelete(r)
    BY <2>9, RetireDeleteKept
  <2>10. QED
    BY <1>2, <2>1, <2>2, <2>3, <2>4, <2>5, <2>6, <2>7, <2>8, <2>9 DEF RequestStep
<1>3. CASE \/ \E record \in cleanup : Forget(record)
           \/ \E p \in Profiles, h \in Hosts \cup {None} : Configure(p, h)
           \/ \E p \in Profiles : DeleteUnexposed(p)
  BY <1>3, OperatorKept
<1>4. CASE UNCHANGED vars
  BY <1>4 DEF vars, remote, local, Inv, RemoteOK, LocalOK, RequestsOK
<1>5. QED
  BY <1>1, <1>2, <1>3, <1>4 DEF Next

\* The invariant gives the types.
LEMMA InvTypes == Inv => TypeOK
  BY DEF Inv, RemoteOK, LocalOK, TypeOK, OwnRecords, CleanupRecords, Harmless

\* What is at Cloudflare, in the registry and in the cleanup file is what these can
\* hold, whatever the requests in flight and the faults of the calls.
THEOREM TypeCorrect == Spec => []TypeOK
<1>1. Inv /\ [Next]_vars => Inv'
  BY StepInv
<1>2. QED
  BY InitInv, InvTypes, <1>1, PTL DEF Spec

\* A token that was not created by inframatik is never deleted by it: ownership is
\* recorded with the copy of a record each request works on, in the lists of objects
\* to undo and to remove, and in the cleanup records, and agrees in all of them.
THEOREM ExternalTokensKeptHolds == Spec => ExternalTokensKept
<1>1. Inv /\ [Next]_vars => Inv'
  BY StepInv
<1>2. Inv /\ [Next]_vars => [ExternalTokens \cap tokens \subseteq tokens']_vars
  BY StepInv
<1>3. QED
  BY InitInv, <1>1, <1>2, PTL DEF Spec, ExternalTokensKept
=============================================================================
