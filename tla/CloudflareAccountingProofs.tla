--------------------- MODULE CloudflareAccountingProofs ---------------------
(***************************************************************************)
(* Theorems about CloudflareExposure under a careful operator, one request *)
(* at a time and calls that fail without effect: every object inframatik   *)
(* made is in use, owed or in the hands of a request, what is owed is not  *)
(* in use, and what is recorded as exposed works.                          *)
(***************************************************************************)
EXTENDS CloudflareExposureProofs
-----------------------------------------------------------------------------
(* One request at a time, calls that fail without effect, and an operator  *)
(* who gives each profile a hostname of its own: what holds between the    *)
(* steps of a request r, the only one.                                     *)

Known(c) == {t \in Tokens : c.state[t] # "none"}

\* An exposed profile that no request is taking down.
Live(p, r) ==
    cf[p].host # None /\ ~(req[r].profile = p /\ req[r].op \in {"remove", "delete"})

\* Exists, and membership in UsedBy, by the kind of the object.
There(o) ==
    /\ o.kind = "route" => route[o.name] # None
    /\ o.kind = "dns" => o.name \in dns
    /\ o.kind = "app" => app[o.name] # None
    /\ o.kind = "policy" => include[o.name] # {}
    /\ o.kind = "token" => o.name \in tokens

Uses(p, o) ==
    /\ o.kind # "token"
    /\ o.name = IF o.kind = "policy" THEN cf[p].policy ELSE cf[p].host

InUse(o, r) == \E p \in Profiles : Live(p, r) /\ Uses(p, o)

TokenInUse(t, r) == \E p \in Profiles : Live(p, r) /\ t \in Known(cf[p])

Pending(o) == \E c \in cleanup : c.object = o

TokenPending(t) == \E c \in cleanup : c.object.kind = "token" /\ c.object.name = t

Undoing(r) == req[r].at \in {"clean", "removeRoute"}
HeldList(r) == IF Undoing(r) THEN req[r].todo ELSE req[r].made
Held(r) == ToSet(HeldList(r))

\* A list of objects has at most one of each kind but tokens.
KindsOnce(s) ==
    \A i, j \in DOMAIN s : i # j /\ s[i].kind = s[j].kind => s[i].kind = "token"

\* The record of a profile is whole or empty, and refers to what was given out.
RecordsWhole ==
    \A p \in Profiles :
        /\ wish[p] = cf[p].host
        /\ cf[p].host = None => cf[p] = NoCloudflare
        /\ cf[p].host # None => p \in profiles /\ cf[p].policy \in Policies \cap issued
        /\ Known(cf[p]) \cap OwnedTokens \subseteq issued

\* No two profiles share a hostname, a policy or a token of inframatik.
RecordsApart ==
    \A p, o \in Profiles : p # o =>
        /\ cf[p].host # None => cf[p].host # cf[o].host
        /\ cf[p].policy # None => cf[p].policy # cf[o].policy
        /\ Known(cf[p]) \cap Known(cf[o]) \cap OwnedTokens = {}

\* What an exposed profile relies on is there, and its policy admits active tokens only.
LiveWorks(r) ==
    \A p \in Profiles : Live(p, r) =>
        /\ route[cf[p].host] = p
        /\ cf[p].host \in dns
        /\ app[cf[p].host] = cf[p].policy
        /\ include[cf[p].policy] # {}
        /\ include[cf[p].policy] \subseteq Active(cf[p])
        /\ Active(cf[p]) \subseteq tokens

\* What is owed exists, is owed once, and is in no exposed profile's record.
PendingApart(r) ==
    \A c \in cleanup :
        IF c.object.kind = "token"
        THEN c.object.name \in issued /\ ~TokenInUse(c.object.name, r)
        ELSE /\ c.key = c.object.name
             /\ There(c.object)
             /\ ~InUse(c.object, r)
             /\ \A d \in cleanup : d.object = c.object => d = c

\* So does what the request holds, and only a retry holds what is owed.
HeldApart(r) ==
    /\ KindsOnce(HeldList(r))
    /\ \A o \in Held(r) :
        IF o.kind = "token"
        THEN /\ o.name \in issued /\ ~TokenInUse(o.name, r)
             /\ ~Undoing(r) => ~TokenPending(o.name)
        ELSE /\ There(o) /\ ~InUse(o, r)
             /\ \A c \in cleanup : c.object = o => req[r].op = "retry" /\ c = req[r].record

AllAccounted(r) ==
    \A o \in Objects : o.kind # "token" /\ There(o) =>
        InUse(o, r) \/ Pending(o) \/ o \in Held(r) \/ o \in forgotten

\* The policies and tokens that exist at all were given out.
GivenOut ==
    /\ ExternalTokens \subseteq tokens
    /\ \A i \in Policies : include[i] # {} => i \in issued

Provisioning == {"readRoutes", "writeRoutes", "dns", "token", "policy", "app"}

\* Where a request can be.
Positions(q) ==
    /\ q.op = "none" => q.at = "idle"
    /\ q.op = "provision" => q.at \in Provisioning \cup {"clean", "removeRoute"}
    /\ q.op \in {"remove", "delete", "retry"} => q.at \in {"clean", "removeRoute"}
    /\ q.op = "generate" => q.at \in {"call", "policy"}
    /\ q.op = "rotate" => q.at = "call"
    /\ q.op = "retire" => q.at \in {"call", "delete"}

\* The objects that a provisioning has made when it comes to a position.
MadeAt(q) ==
    (IF q.at \in {"dns", "token", "policy", "app"} THEN {Object("route", q.host)} ELSE {})
      \cup (IF q.at \in {"token", "policy", "app"} THEN {Object("dns", q.host)} ELSE {})
      \cup (IF q.at \in {"policy", "app"} /\ q.token \in OwnedTokens
            THEN {Object("token", q.token)} ELSE {})
      \cup (IF q.at = "app" THEN {Object("policy", q.policy)} ELSE {})

\* A provisioning is of a hostname that no profile has, and what it has made is as it
\* was made.
ProvisionSound(r) ==
    LET q == req[r] IN
    q.op = "provision" /\ q.at \in Provisioning =>
        /\ q.profile \in profiles
        /\ \A o \in Profiles \ {q.profile} : cf[o].host # q.host
        /\ cf[q.profile].host \in {None, q.host}
        /\ q.at # "readRoutes" => cf[q.profile].host = None
        /\ ToSet(q.made) = MadeAt(q)
        /\ q.at \notin {"policy", "app"} => q.token \notin OwnedTokens
        /\ q.at = "token" => q.token = None
        /\ q.at = "writeRoutes" => q.seen = route /\ route[q.host] = None
        /\ q.at \in {"dns", "token", "policy", "app"} => route[q.host] = q.profile
        /\ q.at \in {"policy", "app"} => q.token \in tokens
        /\ q.at = "app" => include[q.policy] = {q.token} /\ q.policy \in issued

\* A removal of a route writes what it has read, a removal of an exposure is of a profile,
\* and a retry is of one object.
RemovalSound(r) ==
    LET q == req[r] IN
    /\ q.at = "removeRoute" => q.seen = route /\ Head(q.todo).kind = "route"
    /\ q.op \in {"remove", "delete"} => q.profile \in profiles
    /\ q.op = "retry" =>
         /\ q.todo = <<q.record.object>>
         /\ q.record.object.kind # "token" => q.record.key = q.record.object.name

\* A record that is given a token of its own, and one whose token is retired.
WithToken(c, t) == [c EXCEPT !.state[t] = "active", !.owned = @ \cup {t}]
WithRetired(c, t) == [c EXCEPT !.state[t] = "retired"]

\* The copy that a token request works on differs from the record by its own token.
TokenSound(r) ==
    LET q == req[r]
        p == q.profile
        t == q.token IN
    q.op \in {"generate", "rotate", "retire"} =>
        /\ cf[p].host # None
        /\ q.policy = cf[p].policy
        /\ q.at = "call" => q.cf = cf[p]
        /\ q.op = "generate" /\ q.at = "policy" =>
             /\ t \in OwnedTokens \cap issued \cap tokens
             /\ ~TokenPending(t)
             /\ \A o \in Profiles : t \notin Known(cf[o])
             /\ q.cf = WithToken(cf[p], t)
        /\ q.op = "retire" => t \in Known(cf[p]) /\ OtherActive(cf[p], t) # {}
        /\ q.op = "retire" /\ q.at = "delete" =>
             /\ q.cf = WithRetired(cf[p], t)
             /\ include[q.policy] = OtherActive(cf[p], t)

RequestSound(r) == Positions(req[r]) /\ ProvisionSound(r) /\ RemovalSound(r) /\ TokenSound(r)

Sound(r) ==
    /\ RecordsWhole /\ RecordsApart /\ LiveWorks(r) /\ PendingApart(r) /\ HeldApart(r)
    /\ AllAccounted(r) /\ GivenOut /\ RequestSound(r)

-----------------------------------------------------------------------------
(* Lists of objects.                                                       *)

\* The members of a list that is extended.
LEMMA AppendSet ==
    ASSUME NEW S, NEW s \in Seq(S), NEW x \in S
    PROVE  ToSet(Append(s, x)) = ToSet(s) \cup {x}
<1>1. DOMAIN s = 1..Len(s) /\ DOMAIN Append(s, x) = 1..(Len(s) + 1) /\ Len(s) \in Nat
  OBVIOUS
<1>2. (\A i \in 1..Len(s) : Append(s, x)[i] = s[i]) /\ Append(s, x)[Len(s) + 1] = x
  OBVIOUS
<1>3. 1..(Len(s) + 1) = 1..Len(s) \cup {Len(s) + 1}
  BY <1>1
<1>4. QED
  BY <1>1, <1>2, <1>3 DEF ToSet

\* The members of a list joined to another.
LEMMA ConcatSet ==
    ASSUME NEW S, NEW s \in Seq(S), NEW t \in Seq(S)
    PROVE  ToSet(s \o t) = ToSet(s) \cup ToSet(t)
<1>1. \A i \in DOMAIN s : s[i] \in ToSet(s \o t)
  BY DEF ToSet
<1>2. \A i \in DOMAIN t : t[i] \in ToSet(s \o t)
  <2>1. \A i \in DOMAIN t : Len(s) + i \in DOMAIN (s \o t) /\ (s \o t)[Len(s) + i] = t[i]
    OBVIOUS
  <2>2. QED
    BY <2>1 DEF ToSet
<1>3. \A i \in DOMAIN (s \o t) : (s \o t)[i] \in ToSet(s) \cup ToSet(t)
  BY DEF ToSet
<1>4. QED
  BY <1>1, <1>2, <1>3 DEF ToSet

\* The members of a list turned round.
LEMMA ReverseSet ==
    ASSUME NEW S, NEW s \in Seq(S)
    PROVE  ToSet(Reverse(s)) = ToSet(s)
<1>1. DOMAIN Reverse(s) = 1..Len(s) /\ \A i \in 1..Len(s) : Reverse(s)[i] = s[Len(s) - i + 1]
  BY DEF Reverse
<1>2. \A i \in 1..Len(s) : Len(s) - i + 1 \in 1..Len(s) /\ Reverse(s)[Len(s) - i + 1] = s[i]
  BY DEF Reverse
<1>3. QED
  BY <1>1, <1>2, SMTT(60) DEF ToSet

\* The first member of a list, and the others.
LEMMA TailSet ==
    ASSUME NEW S, NEW s \in Seq(S), s # <<>>
    PROVE  Head(s) \in S /\ Tail(s) \in Seq(S) /\ ToSet(s) = {Head(s)} \cup ToSet(Tail(s))
<1>1. \A i \in DOMAIN Tail(s) : i + 1 \in DOMAIN s /\ Tail(s)[i] = s[i + 1]
  OBVIOUS
<1>2. \A i \in DOMAIN s : i = 1 \/ (i - 1 \in DOMAIN Tail(s) /\ Tail(s)[i - 1] = s[i])
  OBVIOUS
<1>3. Head(s) = s[1] /\ 1 \in DOMAIN s
  OBVIOUS
<1>4. QED
  BY <1>1, <1>2, <1>3 DEF ToSet

\* A list with one object of each kind is given one of another kind ...
LEMMA AppendOnce ==
    ASSUME NEW S, NEW s \in Seq(S), NEW x \in S, KindsOnce(s),
           x.kind = "token" \/ \A o \in ToSet(s) : o.kind # x.kind
    PROVE  KindsOnce(Append(s, x))
<1>1. \A i \in DOMAIN s : s[i] \in ToSet(s) /\ Append(s, x)[i] = s[i]
  BY DEF ToSet
<1>2. \A i \in DOMAIN Append(s, x) : i \in DOMAIN s \/ (i = Len(s) + 1 /\ Append(s, x)[i] = x)
  <2>1. DOMAIN s = 1..Len(s) /\ DOMAIN Append(s, x) = 1..(Len(s) + 1) /\ Len(s) \in Nat
    OBVIOUS
  <2>2. Append(s, x)[Len(s) + 1] = x
    OBVIOUS
  <2>3. QED
    BY <2>1, <2>2
<1>3. QED
  BY <1>1, <1>2 DEF KindsOnce

\* ... or several ...
LEMMA ConcatOnce ==
    ASSUME NEW S, NEW s \in Seq(S), NEW t \in Seq(S), KindsOnce(s), KindsOnce(t),
           \A o \in ToSet(s), x \in ToSet(t) : o.kind = x.kind => o.kind = "token"
    PROVE  KindsOnce(s \o t)
<1>1. \A i \in DOMAIN (s \o t) :
        \/ i \in DOMAIN s /\ (s \o t)[i] = s[i]
        \/ i - Len(s) \in DOMAIN t /\ (s \o t)[i] = t[i - Len(s)]
  OBVIOUS
<1>2. SUFFICES ASSUME NEW i \in DOMAIN (s \o t), NEW j \in DOMAIN (s \o t), i # j,
                      (s \o t)[i].kind = (s \o t)[j].kind
               PROVE  (s \o t)[i].kind = "token"
  BY DEF KindsOnce
<1>3. /\ \A k \in DOMAIN s : s[k] \in ToSet(s)
      /\ \A k \in DOMAIN t : t[k] \in ToSet(t)
  BY DEF ToSet
<1>4. i \in Int /\ j \in Int /\ Len(s) \in Int
  OBVIOUS
<1>5. CASE i \in DOMAIN s /\ (s \o t)[i] = s[i] /\ j \in DOMAIN s /\ (s \o t)[j] = s[j]
  BY <1>2, <1>5 DEF KindsOnce
<1>6. CASE /\ i - Len(s) \in DOMAIN t /\ (s \o t)[i] = t[i - Len(s)]
           /\ j - Len(s) \in DOMAIN t /\ (s \o t)[j] = t[j - Len(s)]
  <2>1. i - Len(s) # j - Len(s)
    BY <1>2, <1>4
  <2>2. QED
    BY <1>2, <1>6, <2>1 DEF KindsOnce
<1>7. CASE /\ i \in DOMAIN s /\ (s \o t)[i] = s[i]
           /\ j - Len(s) \in DOMAIN t /\ (s \o t)[j] = t[j - Len(s)]
  BY <1>2, <1>3, <1>7
<1>8. CASE /\ i - Len(s) \in DOMAIN t /\ (s \o t)[i] = t[i - Len(s)]
           /\ j \in DOMAIN s /\ (s \o t)[j] = s[j]
  BY <1>2, <1>3, <1>8
<1>9. QED
  BY <1>1, <1>5, <1>6, <1>7, <1>8

\* ... or turned round ...
LEMMA ReverseOnce ==
    ASSUME NEW S, NEW s \in Seq(S), KindsOnce(s)
    PROVE  KindsOnce(Reverse(s))
<1>1. DOMAIN Reverse(s) = 1..Len(s)
  BY DEF Reverse
<1>2. \A i \in 1..Len(s) : Len(s) - i + 1 \in 1..Len(s) /\ Reverse(s)[i] = s[Len(s) - i + 1]
  BY DEF Reverse
<1>3. ASSUME NEW i \in 1..Len(s), NEW j \in 1..Len(s), i # j
      PROVE  Len(s) - i + 1 # Len(s) - j + 1
  <2>1. Len(s) \in Int /\ i \in Int /\ j \in Int
    OBVIOUS
  <2>2. QED
    BY <1>3, <2>1
<1>4. SUFFICES ASSUME NEW i \in 1..Len(s), NEW j \in 1..Len(s), i # j,
                      Reverse(s)[i].kind = Reverse(s)[j].kind
               PROVE  Reverse(s)[i].kind = "token"
  BY <1>1 DEF KindsOnce
<1>5. /\ Len(s) - i + 1 \in DOMAIN s /\ Len(s) - j + 1 \in DOMAIN s
      /\ Len(s) - i + 1 # Len(s) - j + 1
      /\ s[Len(s) - i + 1].kind = s[Len(s) - j + 1].kind
  BY <1>2, <1>3, <1>4
<1>6. s[Len(s) - i + 1].kind = "token"
  BY <1>5 DEF KindsOnce
<1>7. QED
  BY <1>2, <1>6

\* ... or loses its first member, whose kind the rest does not have then.
LEMMA TailOnce ==
    ASSUME NEW S, NEW s \in Seq(S), s # <<>>, KindsOnce(s)
    PROVE  /\ KindsOnce(Tail(s))
           /\ \A o \in ToSet(Tail(s)) : o.kind = Head(s).kind => o.kind = "token"
<1>1. \A i \in DOMAIN Tail(s) : i + 1 \in DOMAIN s /\ Tail(s)[i] = s[i + 1] /\ i + 1 # 1
  OBVIOUS
<1>2. Head(s) = s[1] /\ 1 \in DOMAIN s
  OBVIOUS
<1>3. KindsOnce(Tail(s))
  <2>1. \A i, j \in DOMAIN Tail(s) : i # j => i + 1 # j + 1
    OBVIOUS
  <2>2. QED
    BY <1>1, <2>1 DEF KindsOnce
<1>4. \A i \in DOMAIN Tail(s) : Tail(s)[i].kind = Head(s).kind => Tail(s)[i].kind = "token"
  BY <1>1, <1>2 DEF KindsOnce
<1>5. QED
  BY <1>3, <1>4 DEF ToSet

-----------------------------------------------------------------------------
(* What follows is about one request at a time, calls that fail without    *)
(* effect, and a careful operator.                                         *)

Careful(r) == Requests = {r} /\ Faults \subseteq {"fails"} /\ ~Careless

\* A call is answered, or fails and changes nothing.
LEMMA PlainAnswers ==
    ASSUME NEW r, Careful(r), NEW a \in Answers
    PROVE  (a = "ok" /\ Applied(a)) \/ (a = "fails" /\ ~Applied(a))
  BY DEF Careful, Answers, Applied

\* What the types say of the only request.
LEMMA RequestTypes ==
    ASSUME NEW r, Careful(r), Inv
    PROVE  /\ r \in Requests /\ req[r] \in RequestRecords /\ Prepared(req[r])
           /\ DOMAIN req = {r}
  BY DEF Careful, Inv, RequestsOK

\* Objects are named by kind.
LEMMA ObjectFields ==
    ASSUME NEW o \in Objects
    PROVE  /\ o.kind \in {"route", "dns", "app", "policy", "token"}
           /\ o.kind \in {"route", "dns", "app"} => o.name \in Hosts
           /\ o.kind = "policy" => o.name \in Policies
           /\ o.kind = "token" => o.name \in Tokens
           /\ o = Object(o.kind, o.name)
  BY DEF Objects, Object

\* Existence of an object by its kind.
LEMMA ExistsThere ==
    ASSUME Inv, NEW o \in Objects
    PROVE  Exists(o) <=> There(o)
<1>1. /\ o.kind \in {"route", "dns", "app", "policy", "token"}
      /\ o.kind \in {"route", "dns", "app"} => o.name \in Hosts
      /\ o.kind = "policy" => o.name \in Policies
      /\ \A k, n : o = Object(k, n) <=> o.kind = k /\ o.name = n
  BY DEF Objects, Object
<1>2. dns \subseteq Hosts /\ tokens \subseteq Tokens
  BY DEF Inv, RemoteOK
<1> HIDE DEF Objects
<1>3. CASE o.kind = "route"
  BY <1>1, <1>3 DEF Exists, There
<1>4. CASE o.kind = "dns"
  BY <1>1, <1>4 DEF Exists, There
<1>5. CASE o.kind = "app"
  BY <1>1, <1>5 DEF Exists, There
<1>6. CASE o.kind = "policy"
  BY <1>1, <1>6 DEF Exists, There
<1>7. CASE o.kind = "token"
  BY <1>1, <1>2, <1>7 DEF Exists, There
<1>8. QED
  BY <1>1, <1>3, <1>4, <1>5, <1>6, <1>7

\* Objects that a record relies on, by their kind.
LEMMA UsedByUses ==
    ASSUME NEW p \in Profiles, NEW o \in Objects
    PROVE  o \in UsedBy(p) <=> cf[p].host # None /\ Uses(p, o)
<1>1. /\ o.kind \in {"route", "dns", "app", "policy", "token"}
      /\ \A k, n : o = Object(k, n) <=> o.kind = k /\ o.name = n
  BY DEF Objects, Object
<1>2. QED
  BY <1>1 DEF UsedBy, Uses

\* A step of the request that changes nothing else and takes down no more.
LEMMA RequestOnly ==
    ASSUME NEW r, Careful(r), Inv, Sound(r), UNCHANGED <<remote, local>>,
           \A p \in Profiles : Live(p, r)' => Live(p, r),
           HeldApart(r)', AllAccounted(r)', RequestSound(r)'
    PROVE  Sound(r)'
<1>1. /\ route' = route /\ dns' = dns /\ app' = app /\ include' = include
      /\ tokens' = tokens /\ issued' = issued /\ profiles' = profiles /\ cf' = cf
      /\ wish' = wish /\ cleanup' = cleanup /\ forgotten' = forgotten
  BY DEF remote, local
<1>2. RecordsWhole'
  BY <1>1 DEF Sound, RecordsWhole, Known
<1>3. RecordsApart'
  BY <1>1 DEF Sound, RecordsApart, Known
<1>4. LiveWorks(r)'
  BY <1>1 DEF Sound, LiveWorks, Active
<1>5. PendingApart(r)'
  <2>1. \A o : InUse(o, r)' => InUse(o, r)
    BY <1>1 DEF InUse, Uses
  <2>2. \A t : TokenInUse(t, r)' => TokenInUse(t, r)
    BY <1>1 DEF TokenInUse, Known
  <2>3. \A o : There(o)' <=> There(o)
    BY <1>1 DEF There
  <2>4. PendingApart(r)
    BY DEF Sound
  <2>5. QED
    BY <1>1, <2>1, <2>2, <2>3, <2>4 DEF PendingApart
<1>6. GivenOut'
  BY <1>1 DEF Sound, GivenOut
<1>7. QED
  BY <1>2, <1>3, <1>4, <1>5, <1>6 DEF Sound

\* A step of the request that changes nothing else and holds the same objects.
LEMMA HeldSame ==
    ASSUME NEW r, Careful(r), Inv, Sound(r), UNCHANGED <<remote, local>>,
           \A p \in Profiles : Live(p, r)' <=> Live(p, r),
           Held(r)' = Held(r), KindsOnce(HeldList(r))', Undoing(r) => Undoing(r)' \/ Held(r) = {},
           req[r].op = "retry" /\ Held(r) # {} =>
              (req[r].op)' = "retry" /\ (req[r].record)' = req[r].record,
           RequestSound(r)'
    PROVE  Sound(r)'
<1>1. /\ route' = route /\ dns' = dns /\ app' = app /\ include' = include
      /\ tokens' = tokens /\ issued' = issued /\ profiles' = profiles /\ cf' = cf
      /\ wish' = wish /\ cleanup' = cleanup /\ forgotten' = forgotten
  BY DEF remote, local
<1>2. \A o : InUse(o, r)' <=> InUse(o, r)
  BY <1>1 DEF InUse, Uses
<1>3. \A t : TokenInUse(t, r)' <=> TokenInUse(t, r)
  BY <1>1 DEF TokenInUse, Known
<1>4. \A o : (There(o)' <=> There(o)) /\ (Pending(o)' <=> Pending(o))
  BY <1>1 DEF There, Pending
<1>5. \A t : TokenPending(t)' <=> TokenPending(t)
  BY <1>1 DEF TokenPending
<1>6. HeldApart(r)'
  <2>1. HeldApart(r)
    BY DEF Sound
  <2>2. QED
    BY <1>1, <1>2, <1>3, <1>4, <1>5, <2>1 DEF HeldApart
<1>7. AllAccounted(r)'
  <2>1. AllAccounted(r)
    BY DEF Sound
  <2>2. QED
    BY <1>1, <1>2, <1>4, <2>1 DEF AllAccounted
<1>8. QED
  BY <1>6, <1>7, RequestOnly

\* An idle request is sound, and holds nothing.
LEMMA IdleSound ==
    ASSUME NEW r, req[r] = Idle
    PROVE  RequestSound(r) /\ ~Undoing(r) /\ HeldList(r) = <<>> /\ Held(r) = {} /\ KindsOnce(HeldList(r))
<1>1. /\ req[r].op = "none" /\ req[r].at = "idle" /\ req[r].made = <<>>
  BY DEF Idle
<1>2. HeldList(r) = <<>> /\ ~Undoing(r)
  BY <1>1 DEF HeldList, Undoing
<1>3. Held(r) = {} /\ KindsOnce(HeldList(r))
  BY <1>2 DEF Held, ToSet, KindsOnce
<1>4. RequestSound(r)
  BY <1>1 DEF RequestSound, Positions, ProvisionSound, RemovalSound, TokenSound
<1>5. QED
  BY <1>2, <1>3, <1>4

\* So is one that becomes idle.
LEMMA IdleNext ==
    ASSUME NEW r, req'[r] = Idle
    PROVE  RequestSound(r)' /\ ~Undoing(r)' /\ HeldList(r)' = <<>> /\ Held(r)' = {} /\ KindsOnce(HeldList(r))'
<1>1. /\ req'[r].op = "none" /\ req'[r].at = "idle" /\ req'[r].made = <<>>
  BY DEF Idle
<1>2. HeldList(r)' = <<>> /\ ~Undoing(r)'
  BY <1>1 DEF HeldList, Undoing
<1>3. Held(r)' = {} /\ KindsOnce(HeldList(r))'
  BY <1>2 DEF Held, ToSet, KindsOnce
<1>4. RequestSound(r)'
  BY <1>1 DEF RequestSound, Positions, ProvisionSound, RemovalSound, TokenSound
<1>5. QED
  BY <1>2, <1>3, <1>4

\* A call that fails ends a request, or makes it undo what it has made.
LEMMA RaisedSound ==
    ASSUME NEW r, Careful(r), Inv, Sound(r), UNCHANGED <<remote, local>>,
           req[r].op \in {"provision", "generate"}, req' = [req EXCEPT ![r] = Raised(r)],
           ~Undoing(r)
    PROVE  Sound(r)'
<1> DEFINE q == req[r]
<1>1. q \in RequestRecords /\ Prepared(q) /\ DOMAIN req = {r}
  BY RequestTypes
<1>2. q.made \in Seq(Harmless) /\ HeldList(r) = q.made
  BY <1>1 DEF RequestRecords, HeldList
<1>3. req'[r] = Raised(r)
  BY <1>1
<1>4. cf' = cf
  BY DEF local
<1>5. CASE q.made = <<>>
  <2>1. req'[r] = Idle
    BY <1>3, <1>5 DEF Raised
  <2>2. /\ RequestSound(r)' /\ ~Undoing(r)' /\ Held(r)' = {} /\ KindsOnce(HeldList(r))'
    BY <2>1, IdleNext
  <2>3. Held(r) = {}
    BY <1>2, <1>5 DEF Held, ToSet
  <2>4. \A p \in Profiles : Live(p, r)' <=> Live(p, r)
    BY <1>4, <2>1 DEF Live, Idle
  <2>5. QED
    BY <2>2, <2>3, <2>4, HeldSame
<1>6. CASE q.made # <<>>
  <2>1. req'[r] = [q EXCEPT !.at = "clean", !.todo = Reverse(q.made)]
    BY <1>3, <1>6 DEF Raised
  <2>2. /\ req'[r].at = "clean" /\ req'[r].todo = Reverse(q.made) /\ req'[r].op = q.op
        /\ req'[r].profile = q.profile /\ req'[r].record = q.record
    BY <1>1, <2>1 DEF RequestRecords
  <2>3. q.op = "provision"
    BY <1>1, <1>6 DEF Prepared
  <2>4. Undoing(r)' /\ HeldList(r)' = Reverse(q.made)
    BY <2>2 DEF Undoing, HeldList
  <2>5. Held(r)' = Held(r)
    BY <1>2, <2>4, ReverseSet DEF Held
  <2>6. KindsOnce(q.made)
    BY <1>2 DEF Sound, HeldApart
  <2>7. KindsOnce(HeldList(r))'
    BY <1>2, <2>4, <2>6, ReverseOnce DEF KindsOnce
  <2>8. \A p \in Profiles : Live(p, r)' <=> Live(p, r)
    BY <1>4, <2>2 DEF Live
  <2>9. RequestSound(r)'
    BY <2>2, <2>3 DEF RequestSound, Positions, ProvisionSound, Provisioning,
       RemovalSound, TokenSound
  <2>10. QED
    BY <2>3, <2>4, <2>5, <2>7, <2>8, <2>9, HeldSame
<1>7. QED
  BY <1>5, <1>6
-----------------------------------------------------------------------------
(* Requests begin.                                                         *)

\* An idle request holds nothing.
LEMMA HoldsNothing ==
    ASSUME NEW r, Careful(r), Inv, Sound(r), req[r].op \notin {"provision", "remove", "delete", "retry"}
    PROVE  ~Undoing(r) /\ HeldList(r) = <<>> /\ Held(r) = {}
<1>1. req[r] \in RequestRecords /\ Prepared(req[r])
  BY RequestTypes
<1>2. ~Undoing(r) /\ req[r].made = <<>>
  BY <1>1 DEF RequestRecords, Undoing, Prepared
<1>3. QED
  BY <1>2 DEF HeldList, Held, ToSet

\* A request that begins, other than a removal or a retry, is sound when its own
\* record is.
LEMMA BeginSound ==
    ASSUME NEW r, Careful(r), Inv, Sound(r), UNCHANGED <<remote, local>>,
           req[r].op = "none",
           (req[r].op)' \in {"provision", "generate", "rotate", "retire"},
           (req[r].at)' \in {"readRoutes", "call"}, (req[r].made)' = <<>>,
           RequestSound(r)'
    PROVE  Sound(r)'
<1>1. ~Undoing(r) /\ Held(r) = {}
  BY HoldsNothing
<1>2. ~Undoing(r)' /\ HeldList(r)' = <<>>
  BY DEF Undoing, HeldList
<1>3. Held(r)' = {} /\ KindsOnce(HeldList(r))'
  BY <1>2 DEF Held, ToSet, KindsOnce
<1>4. \A p \in Profiles : Live(p, r)' <=> Live(p, r)
  BY DEF Live, local
<1>5. QED
  BY <1>1, <1>2, <1>3, <1>4, HeldSame

\* A provisioning begins with a hostname that no other profile has.
LEMMA BeginProvisionSound ==
    ASSUME NEW r, Careful(r), Inv, Sound(r), NEW p \in Profiles, NEW h \in Hosts,
           NEW t \in Tokens \cup {None}, BeginProvision(r, p, h, t)
    PROVE  Sound(r)'
<1> DEFINE n == [Idle EXCEPT !.op = "provision", !.profile = p, !.at = "readRoutes",
                   !.host = h, !.token = t, !.cf = cf[p]]
<1>1. req'[r] = n
  BY RequestTypes DEF BeginProvision
<1>2. /\ req'[r].op = "provision" /\ req'[r].profile = p /\ req'[r].at = "readRoutes"
      /\ req'[r].host = h /\ req'[r].token = t /\ req'[r].made = <<>>
  BY <1>1 DEF Idle
<1>3. cf' = cf /\ profiles' = profiles
  BY DEF BeginProvision, local
<1>4. /\ p \in profiles /\ cf[p].host \in {None, h} /\ t \notin OwnedTokens
      /\ \A o \in Profiles \ {p} : cf[o].host # h
  BY DEF BeginProvision, Careful, OwnHost
<1>5. ToSet(<<>>) = {}
  BY DEF ToSet
<1>6. ProvisionSound(r)'
  BY <1>2, <1>3, <1>4, <1>5 DEF ProvisionSound, MadeAt
<1>7. RequestSound(r)'
  BY <1>2, <1>6 DEF RequestSound, Positions, Provisioning, RemovalSound, TokenSound
<1>8. QED
  BY <1>2, <1>7, BeginSound DEF BeginProvision

\* A token request works on a copy of the record of an exposed profile.
LEMMA BeginTokenSound ==
    ASSUME NEW r, Careful(r), Inv, Sound(r), NEW p \in Profiles, NEW op, NEW t, NEW d,
           BeginToken(r, p, op, t, d), cf[p].host # None, op \in {"generate", "rotate", "retire"},
           op = "retire" => t \in Known(cf[p]) /\ OtherActive(cf[p], t) # {}
    PROVE  Sound(r)'
<1> DEFINE n == [Idle EXCEPT !.op = op, !.profile = p, !.at = "call", !.token = t,
                   !.cf = cf[p], !.policy = cf[p].policy, !.discard = d]
<1>1. req'[r] = n
  BY RequestTypes DEF BeginToken
<1>2. /\ req'[r].op = op /\ req'[r].profile = p /\ req'[r].at = "call" /\ req'[r].token = t
      /\ req'[r].cf = cf[p] /\ req'[r].policy = cf[p].policy /\ req'[r].made = <<>>
  BY <1>1 DEF Idle
<1>3. cf' = cf
  BY DEF BeginToken, local
<1>4. TokenSound(r)'
  BY <1>2, <1>3 DEF TokenSound, Known, OtherActive, Active
<1>5. RequestSound(r)'
  BY <1>2, <1>4 DEF RequestSound, Positions, ProvisionSound, RemovalSound
<1>6. QED
  BY <1>2, <1>5, BeginSound DEF BeginToken

\* Whichever token request begins.
LEMMA BeginTokensSound ==
    ASSUME NEW r, Careful(r), Inv, Sound(r),
           \/ \E p \in Profiles : BeginGenerate(r, p)
           \/ \E p \in Profiles, t \in Tokens : BeginRotate(r, p, t)
           \/ \E p \in Profiles, t \in Tokens, d \in BOOLEAN : BeginRetire(r, p, t, d)
    PROVE  Sound(r)'
<1>1. \A p \in Profiles : cf[p].host = None => cf[p].policy = None /\ \A t \in Tokens : cf[p].state[t] = "none"
  BY DEF Sound, RecordsWhole, NoCloudflare
<1>2. CASE \E p \in Profiles : BeginGenerate(r, p)
  BY <1>1, <1>2, BeginTokenSound DEF BeginGenerate
<1>3. CASE \E p \in Profiles, t \in Tokens : BeginRotate(r, p, t)
  BY <1>1, <1>3, BeginTokenSound DEF BeginRotate
<1>4. CASE \E p \in Profiles, t \in Tokens, d \in BOOLEAN : BeginRetire(r, p, t, d)
  BY <1>1, <1>4, BeginTokenSound DEF BeginRetire, MayRetire, Known
<1>5. QED
  BY <1>2, <1>3, <1>4

\* A retry holds what its record names, which no profile uses.
LEMMA BeginRetrySound ==
    ASSUME NEW r, Careful(r), Inv, Sound(r), NEW record \in cleanup, BeginRetry(r, record)
    PROVE  Sound(r)'
<1> DEFINE n == [Idle EXCEPT !.op = "retry", !.profile = record.profile, !.at = "clean",
                   !.host = record.key, !.todo = <<record.object>>, !.record = record]
           x == record.object
<1>1. req'[r] = n
  BY RequestTypes DEF BeginRetry
<1>2. /\ req'[r].op = "retry" /\ req'[r].profile = record.profile /\ req'[r].at = "clean"
      /\ req'[r].todo = <<x>> /\ req'[r].record = record
  BY <1>1 DEF Idle
<1>3. Undoing(r)' /\ HeldList(r)' = <<x>>
  BY <1>2 DEF Undoing, HeldList
<1>4. Held(r)' = {x} /\ KindsOnce(HeldList(r))'
  <2>1. DOMAIN <<x>> = {1} /\ <<x>>[1] = x
    OBVIOUS
  <2>2. QED
    BY <1>3, <2>1 DEF Held, ToSet, KindsOnce
<1>5. /\ req[r].op = "none" /\ UNCHANGED <<remote, local>>
      /\ route' = route /\ dns' = dns /\ app' = app /\ include' = include /\ tokens' = tokens
      /\ issued' = issued /\ cf' = cf /\ cleanup' = cleanup /\ forgotten' = forgotten
  BY DEF BeginRetry, remote, local
<1>6. Held(r) = {}
  BY <1>5, HoldsNothing
<1>7. \A p \in Profiles : Live(p, r)' <=> Live(p, r)
  BY <1>2, <1>5 DEF Live
<1>8. \A o : (InUse(o, r)' <=> InUse(o, r)) /\ (There(o)' <=> There(o)) /\ (Pending(o)' <=> Pending(o))
  BY <1>5, <1>7 DEF InUse, Uses, There, Pending
<1>9. \A t : TokenInUse(t, r)' <=> TokenInUse(t, r)
  BY <1>5, <1>7 DEF TokenInUse, Known
<1>10. IF x.kind = "token" THEN x.name \in issued /\ ~TokenInUse(x.name, r)
       ELSE record.key = x.name /\ There(x) /\ ~InUse(x, r) /\ \A d \in cleanup : d.object = x => d = record
  BY DEF Sound, PendingApart
<1>11. HeldApart(r)'
  BY <1>2, <1>3, <1>4, <1>5, <1>8, <1>9, <1>10 DEF HeldApart
<1>12. AllAccounted(r)'
  BY <1>5, <1>6, <1>8 DEF Sound, AllAccounted
<1>13. RequestSound(r)'
  BY <1>2, <1>10 DEF RequestSound, Positions, ProvisionSound, RemovalSound, TokenSound
<1>14. QED
  BY <1>5, <1>7, <1>11, <1>12, <1>13, RequestOnly
-----------------------------------------------------------------------------
(* A removal begins.                                                       *)

\* The tokens that go with an exposure are in the record of the profile.
LEMMA OwnedObjectsTokens ==
    ASSUME Inv, NEW p \in Profiles
    PROVE  /\ OwnedObjects(p) \in Seq(Harmless) /\ KindsOnce(OwnedObjects(p))
           /\ \A o \in ToSet(OwnedObjects(p)) :
                 o.kind = "token" /\ o.name \in Known(cf[p]) \cap OwnedTokens
<1> DEFINE us == {u \in cf[p].owned : cf[p].state[u] # "none"}
           S == {Object("token", t) : t \in us}
<1>1. us \subseteq OwnedTokens /\ IsFiniteSet(us)
  BY FS_Subset DEF Inv, LocalOK, OwnRecords
<1>2. IsFiniteSet(S)
  <2> DEFINE f == [t \in us |-> Object("token", t)]
  <2>1. f \in Bijection(us, S)
    BY DEF Bijection, Injection, Surjection, IsInjective, Object
  <2>2. QED
    BY <1>1, <2>1, FS_Bijection DEF ExistsBijection
<1>3. SetToSeq(S) \in Seq(S) /\ OwnedObjects(p) = SetToSeq(S)
  BY <1>2, SetToSeqType DEF OwnedObjects
<1>4. \A o \in S : o.kind = "token" /\ o.name \in Known(cf[p]) \cap OwnedTokens
  BY <1>1 DEF Object, Known, Tokens
<1> HIDE DEF S
<1>5. \A i \in DOMAIN OwnedObjects(p) : OwnedObjects(p)[i] \in S
  BY <1>3
<1>6. QED
  BY <1>4, <1>5, OwnedObjectsHarmless DEF ToSet, KindsOnce

\* What a removal is about to delete is what the profile uses, and its own tokens.
LEMMA ToRemoveSet ==
    ASSUME Inv, NEW p \in Profiles, NEW d \in BOOLEAN, RecordsWhole, cf[p].host # None
    PROVE  /\ ToRemove(p, d) \in Seq(Harmless) /\ KindsOnce(ToRemove(p, d))
           /\ \A o \in ToSet(ToRemove(p, d)) :
                 \/ o.kind = "token" /\ o.name \in Known(cf[p]) \cap OwnedTokens
                 \/ o.kind # "token" /\ Uses(p, o)
           /\ \A o \in Objects : Uses(p, o) => o \in ToSet(ToRemove(p, d))
<1> DEFINE h == cf[p].host
           three == <<Object("route", h), Object("dns", h), Object("app", h)>>
           policy == <<Object("policy", cf[p].policy)>>
           owned == IF d THEN OwnedObjects(p) ELSE <<>>
<1>1. HostOf(p) = h /\ h \in Hosts /\ cf[p].policy \in Policies /\ cf[p].policy # None
  BY NoneApart DEF RecordsWhole, HostOf, Inv, LocalOK, OwnRecords, CloudflareRecords
<1>2. ToRemove(p, d) = three \o policy \o owned
  BY <1>1 DEF ToRemove
<1>3. /\ three \in Seq(Harmless) /\ KindsOnce(three)
      /\ ToSet(three) = {Object("route", h), Object("dns", h), Object("app", h)}
  <2>1. DOMAIN three = {1, 2, 3} /\ three[1] = Object("route", h) /\ three[2] = Object("dns", h)
        /\ three[3] = Object("app", h)
    OBVIOUS
  <2>2. three \in Seq(Harmless)
    BY <1>1 DEF Harmless, Objects, Object
  <2>3. QED
    BY <2>1, <2>2 DEF KindsOnce, ToSet, Object
<1>4. policy \in Seq(Harmless) /\ KindsOnce(policy) /\ ToSet(policy) = {Object("policy", cf[p].policy)}
  <2>1. DOMAIN policy = {1} /\ policy[1] = Object("policy", cf[p].policy)
    OBVIOUS
  <2>2. policy \in Seq(Harmless)
    BY <1>1 DEF Harmless, Objects, Object
  <2>3. QED
    BY <2>1, <2>2 DEF KindsOnce, ToSet
<1>5. /\ owned \in Seq(Harmless) /\ KindsOnce(owned)
      /\ \A o \in ToSet(owned) : o.kind = "token" /\ o.name \in Known(cf[p]) \cap OwnedTokens
  <2>1. CASE d
    BY <2>1, OwnedObjectsTokens
  <2>2. CASE ~d
    <3>1. <<>> \in Seq(Harmless) /\ DOMAIN <<>> = {}
      OBVIOUS
    <3>2. KindsOnce(<<>>) /\ ToSet(<<>>) = {}
      BY <3>1 DEF KindsOnce, ToSet
    <3>3. owned = <<>>
      BY <2>2
    <3> HIDE DEF owned
    <3>4. QED
      BY <3>1, <3>2, <3>3
  <2>3. QED
    BY <2>1, <2>2
<1> HIDE DEF three, policy, owned
<1>6. /\ three \o policy \in Seq(Harmless) /\ KindsOnce(three \o policy)
      /\ ToSet(three \o policy) = ToSet(three) \cup ToSet(policy)
  <2>1. \A o \in ToSet(three), x \in ToSet(policy) : o.kind # x.kind
    BY <1>3, <1>4 DEF Object
  <2>2. QED
    BY <1>3, <1>4, <2>1, ConcatOnce, ConcatSet
<1> DEFINE used == three \o policy
<1>7. /\ used \o owned \in Seq(Harmless) /\ KindsOnce(used \o owned)
      /\ ToSet(used \o owned) = ToSet(three) \cup ToSet(policy) \cup ToSet(owned)
  <2>1. \A o \in ToSet(three) \cup ToSet(policy) : o.kind # "token"
    BY <1>3, <1>4 DEF Object
  <2>2. \A o \in ToSet(used), x \in ToSet(owned) : o.kind # x.kind
    BY <1>5, <1>6, <2>1
  <2>3. used \in Seq(Harmless) /\ KindsOnce(used) /\ ToSet(used) = ToSet(three) \cup ToSet(policy)
    BY <1>6
  <2> HIDE DEF used
  <2>4. KindsOnce(used \o owned)
    BY <1>5, <2>2, <2>3, ConcatOnce
  <2>5. ToSet(used \o owned) = ToSet(used) \cup ToSet(owned)
    BY <1>5, <2>3, ConcatSet
  <2>6. used \o owned \in Seq(Harmless)
    BY <1>5, <2>3
  <2>7. QED
    BY <2>3, <2>4, <2>5, <2>6
<1>8. \A o \in ToSet(three) \cup ToSet(policy) : o.kind # "token" /\ Uses(p, o)
  BY <1>3, <1>4 DEF Object, Uses
<1>9. \A o \in Objects : Uses(p, o) => o \in ToSet(three) \cup ToSet(policy)
  <2>1. SUFFICES ASSUME NEW o \in Objects, Uses(p, o) PROVE o \in ToSet(three) \cup ToSet(policy)
    OBVIOUS
  <2>2. o = Object(o.kind, o.name) /\ o.kind \in {"route", "dns", "app", "policy", "token"}
    BY ObjectFields
  <2>3. \/ o.kind \in {"route", "dns", "app"} /\ o.name = h
        \/ o.kind = "policy" /\ o.name = cf[p].policy
    BY <2>1, <2>2 DEF Uses
  <2>4. CASE o.kind \in {"route", "dns", "app"} /\ o.name = h
    <3>1. o = Object(o.kind, h)
      BY <2>2, <2>4
    <3>2. o \in {Object("route", h), Object("dns", h), Object("app", h)}
      BY <2>4, <3>1
    <3>3. QED
      BY <1>3, <3>2
  <2>5. CASE o.kind = "policy" /\ o.name = cf[p].policy
    <3>1. o = Object("policy", cf[p].policy)
      BY <2>2, <2>5
    <3>2. QED
      BY <1>4, <3>1
  <2>6. QED
    BY <2>3, <2>4, <2>5
<1>10. QED
  BY <1>2, <1>5, <1>7, <1>8, <1>9

\* What a profile uses is its own, and is there.
LEMMA UsedThere ==
    ASSUME NEW r, Sound(r), NEW p \in Profiles, Live(p, r), NEW o, Uses(p, o),
           o.kind \in {"route", "dns", "app", "policy"}, Inv
    PROVE  There(o) /\ \A c \in cleanup : c.object # o
<1>1. /\ route[cf[p].host] = p /\ cf[p].host \in dns /\ app[cf[p].host] = cf[p].policy
      /\ include[cf[p].policy] # {}
  BY DEF Sound, LiveWorks
<1>2. p # None /\ cf[p].policy # None
  BY NoneApart DEF Sound, RecordsWhole, Live
<1>3. There(o)
  <2>1. o.kind \in {"route", "dns", "app"} => o.name = cf[p].host
    BY DEF Uses
  <2>2. o.kind = "policy" => o.name = cf[p].policy
    BY DEF Uses
  <2>3. CASE o.kind = "route"
    BY <1>1, <1>2, <2>1, <2>3 DEF There
  <2>4. CASE o.kind = "dns"
    BY <1>1, <2>1, <2>4 DEF There
  <2>5. CASE o.kind = "app"
    BY <1>1, <1>2, <2>1, <2>5 DEF There
  <2>6. CASE o.kind = "policy"
    BY <1>1, <2>2, <2>6 DEF There
  <2>7. QED
    BY <2>3, <2>4, <2>5, <2>6
<1>4. InUse(o, r)
  BY DEF InUse
<1>5. QED
  BY <1>3, <1>4 DEF Sound, PendingApart

\* A removal takes over what the profile used, which no other profile uses.
LEMMA BeginRemoveSound ==
    ASSUME NEW r, Careful(r), Inv, Sound(r), NEW p \in Profiles, NEW op \in {"remove", "delete"},
           NEW d \in BOOLEAN, BeginRemove(r, p, op, d)
    PROVE  Sound(r)'
<1> DEFINE n == [Idle EXCEPT !.op = op, !.profile = p, !.at = "clean", !.host = HostOf(p),
                   !.todo = ToRemove(p, d), !.discard = d]
<1>1. req'[r] = n
  BY RequestTypes DEF BeginRemove
<1>2. /\ req'[r].op = op /\ req'[r].profile = p /\ req'[r].at = "clean"
      /\ req'[r].todo = ToRemove(p, d)
  BY <1>1 DEF Idle
<1>3. /\ req[r].op = "none" /\ p \in profiles /\ HostOf(p) # None /\ UNCHANGED <<remote, local>>
      /\ route' = route /\ dns' = dns /\ app' = app /\ include' = include /\ tokens' = tokens
      /\ issued' = issued /\ cf' = cf /\ cleanup' = cleanup /\ forgotten' = forgotten
      /\ profiles' = profiles
  BY DEF BeginRemove, remote, local
<1>4. cf[p].host # None
  BY <1>3 DEF HostOf, Sound, RecordsWhole
<1>5. Undoing(r)' /\ HeldList(r)' = ToRemove(p, d) /\ Held(r)' = ToSet(ToRemove(p, d))
  BY <1>2 DEF Undoing, HeldList, Held
<1>6. Held(r) = {}
  BY <1>3, HoldsNothing
<1>7. /\ \A o \in Profiles : Live(o, r)' <=> o # p /\ Live(o, r)
      /\ Live(p, r)
  BY <1>2, <1>3, <1>4 DEF Live
<1>8. RecordsWhole /\ RecordsApart
  BY DEF Sound
<1>9. /\ KindsOnce(ToRemove(p, d))
      /\ \A o \in ToSet(ToRemove(p, d)) :
            \/ o.kind = "token" /\ o.name \in Known(cf[p]) \cap OwnedTokens
            \/ o.kind # "token" /\ Uses(p, o)
      /\ \A o \in Objects : Uses(p, o) => o \in ToSet(ToRemove(p, d))
      /\ ToRemove(p, d) \in Seq(Harmless)
  BY <1>4, <1>8, ToRemoveSet
<1>10. ToSet(ToRemove(p, d)) \subseteq Objects
  BY <1>9 DEF ToSet, Harmless
<1>11. HeldApart(r)'
  <2>1. SUFFICES ASSUME NEW o \in ToSet(ToRemove(p, d))
                 PROVE  IF o.kind = "token"
                        THEN o.name \in issued /\ ~TokenInUse(o.name, r)'
                        ELSE There(o)' /\ ~InUse(o, r)' /\ \A c \in cleanup : c.object # o
    BY <1>3, <1>5, <1>9 DEF HeldApart, KindsOnce
  <2>2. CASE o.kind = "token"
    <3>1. o.name \in Known(cf[p]) \cap OwnedTokens
      BY <1>9, <2>2
    <3>2. o.name \in issued
      BY <1>8, <3>1 DEF RecordsWhole
    <3>3. \A x \in Profiles \ {p} : o.name \notin Known(cf[x])
      BY <1>8, <3>1 DEF RecordsApart
    <3>4. ~TokenInUse(o.name, r)'
      BY <1>3, <1>7, <3>3 DEF TokenInUse, Known
    <3>5. QED
      BY <2>2, <3>2, <3>4
  <2>3. CASE o.kind # "token"
    <3>1. Uses(p, o) /\ o.kind \in {"route", "dns", "app", "policy"}
      BY <1>9, <1>10, <2>3, ObjectFields
    <3>2. There(o) /\ \A c \in cleanup : c.object # o
      BY <1>7, <3>1, UsedThere
    <3>3. \A x \in Profiles : x # p /\ Live(x, r) => ~Uses(x, o)
      <4>1. cf[p].policy # None
        BY <1>4, <1>8, NoneApart DEF RecordsWhole
      <4>2. \A x \in Profiles : x # p => cf[p].host # cf[x].host /\ cf[p].policy # cf[x].policy
        BY <1>4, <1>8, <4>1 DEF RecordsApart
      <4>3. QED
        BY <3>1, <4>2 DEF Uses
    <3>4. ~InUse(o, r)'
      BY <1>3, <1>7, <3>3 DEF InUse, Uses
    <3>5. There(o)'
      BY <1>3, <3>2 DEF There
    <3>6. QED
      BY <2>3, <3>2, <3>4, <3>5
  <2>4. QED
    BY <2>2, <2>3
<1>12. AllAccounted(r)'
  <2>1. SUFFICES ASSUME NEW o \in Objects, o.kind # "token", There(o)'
                 PROVE  InUse(o, r)' \/ Pending(o)' \/ o \in Held(r)' \/ o \in forgotten'
    BY DEF AllAccounted
  <2>2. There(o) /\ (Pending(o)' <=> Pending(o))
    BY <1>3, <2>1 DEF There, Pending
  <2>3. InUse(o, r) \/ Pending(o) \/ o \in forgotten
    BY <1>6, <2>1, <2>2 DEF Sound, AllAccounted
  <2>4. ASSUME NEW x \in Profiles, Live(x, r), Uses(x, o)
        PROVE  InUse(o, r)' \/ o \in Held(r)'
    <3>1. CASE x = p
      BY <1>5, <1>9, <2>4, <3>1
    <3>2. CASE x # p
      BY <1>3, <1>7, <2>4, <3>2 DEF InUse, Uses
    <3>3. QED
      BY <3>1, <3>2
  <2>5. QED
    BY <1>3, <2>2, <2>3, <2>4 DEF InUse
<1>13. RequestSound(r)'
  BY <1>2, <1>3 DEF RequestSound, Positions, ProvisionSound, RemovalSound, TokenSound
<1>14. QED
  BY <1>3, <1>7, <1>11, <1>12, <1>13, RequestOnly
-----------------------------------------------------------------------------
(* Steps that change the request only.                                     *)

\* The whole configuration is read before a route is added; the hostname has none.
LEMMA ReadRoutesSound ==
    ASSUME NEW r, Careful(r), Inv, Sound(r), ReadRoutes(r)
    PROVE  Sound(r)'
<1> DEFINE q == req[r]
           n == [q EXCEPT !.at = "writeRoutes", !.seen = route]
<1>1. q \in RequestRecords /\ Prepared(q) /\ DOMAIN req = {r}
  BY RequestTypes
<1>2. q.op = "provision" /\ q.at = "readRoutes" /\ UNCHANGED <<remote, local>> /\ ~Undoing(r)
  BY DEF ReadRoutes, At, Undoing
<1>3. route' = route /\ cf' = cf /\ profiles' = profiles
  BY <1>2 DEF remote, local
<1>4. CASE req' = [req EXCEPT ![r] = Raised(r)]
  BY <1>2, <1>4, RaisedSound
<1>5. CASE RouteFree(r) /\ req' = [req EXCEPT ![r] = n]
  <2>1. req'[r] = n
    BY <1>1, <1>5
  <2>2. /\ req'[r].op = "provision" /\ req'[r].at = "writeRoutes" /\ req'[r].seen = route
        /\ req'[r].profile = q.profile /\ req'[r].host = q.host /\ req'[r].token = q.token
        /\ req'[r].made = q.made /\ req'[r].todo = q.todo
    BY <1>1, <1>2, <2>1 DEF RequestRecords
  <2>3. ~Undoing(r)' /\ HeldList(r)' = HeldList(r)
    BY <1>2, <2>2 DEF Undoing, HeldList
  <2>4. Held(r)' = Held(r) /\ KindsOnce(HeldList(r))'
    BY <2>3 DEF Held, Sound, HeldApart, KindsOnce
  <2>5. \A p \in Profiles : Live(p, r)' <=> Live(p, r)
    BY <1>2, <1>3, <2>2 DEF Live
  <2>6. /\ q.profile \in profiles /\ (\A o \in Profiles \ {q.profile} : cf[o].host # q.host)
        /\ ToSet(q.made) = {} /\ q.token \notin OwnedTokens
        /\ cf[q.profile].host \in {None, q.host}
    BY <1>2 DEF Sound, RequestSound, ProvisionSound, Provisioning, MadeAt
  <2>7. route[q.host] = None
    BY <1>5 DEF RouteFree
  <2>8. cf[q.profile].host = None
    <3>1. q.profile \in Profiles /\ q.host \in Hosts /\ q.host # None /\ q.profile # None
      BY <1>1, <1>2, NoneApart DEF Prepared
    <3>2. SUFFICES ASSUME cf[q.profile].host = q.host PROVE FALSE
      BY <2>6
    <3>3. Live(q.profile, r)
      BY <1>2, <3>1, <3>2 DEF Live
    <3>4. route[q.host] = q.profile
      BY <3>1, <3>2, <3>3 DEF Sound, LiveWorks
    <3>5. QED
      BY <2>7, <3>1, <3>4
  <2>9. ProvisionSound(r)'
    <3>1. ToSet(req'[r].made) = {} /\ MadeAt(req'[r]) = {}
      BY <2>2, <2>6 DEF MadeAt
    <3>2. QED
      BY <1>3, <2>2, <2>6, <2>7, <2>8, <3>1 DEF ProvisionSound
  <2>10. RequestSound(r)'
    BY <2>2, <2>9 DEF RequestSound, Positions, Provisioning, RemovalSound, TokenSound
  <2>11. QED
    BY <1>2, <2>2, <2>3, <2>4, <2>5, <2>10, HeldSame
<1>6. QED
  BY <1>4, <1>5 DEF ReadRoutes

\* The configuration is read before a route is removed.
LEMMA ReadRemovalSound ==
    ASSUME NEW r, Careful(r), Inv, Sound(r), req[r].at = "clean", Head(req[r].todo).kind = "route",
           req' = [req EXCEPT ![r] = [req[r] EXCEPT !.at = "removeRoute", !.seen = route]],
           UNCHANGED <<remote, local>>
    PROVE  Sound(r)'
<1> DEFINE q == req[r]
<1>1. q \in RequestRecords /\ Prepared(q) /\ DOMAIN req = {r}
  BY RequestTypes
<1>2. route' = route /\ cf' = cf /\ profiles' = profiles
  BY DEF remote, local
<1>3. /\ req'[r].op = q.op /\ req'[r].at = "removeRoute" /\ req'[r].seen = route
      /\ req'[r].profile = q.profile /\ req'[r].todo = q.todo /\ req'[r].record = q.record
  <2>1. req'[r] = [q EXCEPT !.at = "removeRoute", !.seen = route]
    BY <1>1
  <2>2. QED
    BY <1>1, <2>1 DEF RequestRecords
<1>4. q.op \in {"provision", "remove", "delete", "retry"}
  BY <1>1 DEF Prepared
<1>5. Undoing(r) /\ Undoing(r)' /\ HeldList(r)' = HeldList(r)
  <2>1. Undoing(r) /\ Undoing(r)'
    BY <1>3 DEF Undoing
  <2>2. QED
    BY <1>3, <2>1 DEF HeldList
<1>6. Held(r)' = Held(r) /\ KindsOnce(HeldList(r))'
  <2>1. KindsOnce(HeldList(r))
    BY DEF Sound, HeldApart
  <2>2. QED
    BY <1>5, <2>1 DEF Held, KindsOnce
<1>7. \A p \in Profiles : Live(p, r)' <=> Live(p, r)
  BY <1>2, <1>3 DEF Live
<1>8. RemovalSound(r)'
  <2>1. RemovalSound(r)
    BY DEF Sound, RequestSound
  <2>2. QED
    BY <1>2, <1>3, <2>1 DEF RemovalSound
<1>9. RequestSound(r)'
  BY <1>3, <1>4, <1>8 DEF RequestSound, Positions, ProvisionSound, Provisioning, TokenSound
<1>10. QED
  BY <1>3, <1>5, <1>6, <1>7, <1>9, HeldSame

\* A token request that ends without a trace.
LEMMA GiveUpSound ==
    ASSUME NEW r, Careful(r), Inv, Sound(r), req[r].op \in {"generate", "rotate", "retire"},
           req' = [req EXCEPT ![r] = Idle], UNCHANGED <<remote, local>>
    PROVE  Sound(r)'
<1>1. req'[r] = Idle
  BY RequestTypes
<1>2. RequestSound(r)' /\ Held(r)' = {} /\ KindsOnce(HeldList(r))'
  BY <1>1, IdleNext
<1>3. Held(r) = {}
  BY HoldsNothing
<1>4. \A p \in Profiles : Live(p, r)' <=> Live(p, r)
  BY <1>1 DEF Live, Idle, local
<1>5. QED
  BY <1>2, <1>3, <1>4, HeldSame

\* A new secret for a token leaves its record as it is.
LEMMA RotateSound ==
    ASSUME NEW r, Careful(r), Inv, Sound(r), Rotate(r)
    PROVE  Sound(r)'
<1> DEFINE q == req[r]
<1>1. q.op = "rotate" /\ q.at = "call" /\ UNCHANGED remote
  BY DEF Rotate, At
<1>2. q.cf = cf[q.profile]
  BY <1>1 DEF Sound, RequestSound, TokenSound
<1>3. Stored(q.profile, q.cf) = cf
  BY <1>2 DEF Stored, Inv, LocalOK
<1>4. UNCHANGED local /\ req' = [req EXCEPT ![r] = Idle]
  BY <1>3 DEF Rotate, Save, GiveUp, local
<1>5. QED
  BY <1>1, <1>4, GiveUpSound
-----------------------------------------------------------------------------
(* Objects are made.                                                       *)

\* What is owed, and what a request holds, are objects; those that are tokens are
\* inframatik's own.
LEMMA NamedObjects ==
    ASSUME NEW r, Careful(r), Inv
    PROVE  /\ \A c \in cleanup : c.object \in Harmless /\ c.object \in Objects
           /\ HeldList(r) \in Seq(Harmless) /\ Held(r) \subseteq Harmless /\ Held(r) \subseteq Objects
           /\ \A o \in Harmless : o.kind = "token" => o.name \in OwnedTokens
<1>1. \A c \in cleanup : c.object \in Harmless
  BY DEF Inv, LocalOK, CleanupRecords
<1>2. HeldList(r) \in Seq(Harmless)
  BY RequestTypes DEF HeldList, RequestRecords
<1>3. Held(r) \subseteq Harmless
  BY <1>2 DEF Held, ToSet
<1>4. QED
  BY <1>1, <1>2, <1>3 DEF Harmless

\* A provisioning is sound when its own record is.
LEMMA ProvisionOnly ==
    ASSUME NEW r, (req[r].op)' = "provision", (req[r].at)' \in Provisioning, ProvisionSound(r)'
    PROVE  RequestSound(r)'
  BY DEF RequestSound, Positions, Provisioning, RemovalSound, TokenSound

\* An object that is made was not there, so nothing owed and no profile names it.
LEMMA MadeSound ==
    ASSUME NEW r, Careful(r), Inv, Sound(r), UNCHANGED local, NEW x \in Harmless,
           req[r].op = "provision", req[r].at \in Provisioning,
           (req[r].op)' = "provision", (req[r].at)' \in Provisioning,
           (req[r].made)' = Append(req[r].made, x),
           issued \subseteq issued',
           \A o \in Objects : There(o)' <=> There(o) \/ o = x,
           IF x.kind = "token" THEN x.name \in issued' \ issued ELSE ~There(x),
           \A o \in Held(r) : o.kind # x.kind,
           LiveWorks(r)', GivenOut', ProvisionSound(r)'
    PROVE  Sound(r)'
<1>1. /\ profiles' = profiles /\ cf' = cf /\ wish' = wish /\ cleanup' = cleanup
      /\ forgotten' = forgotten
  BY DEF local
<1>2. /\ \A c \in cleanup : c.object \in Harmless /\ c.object \in Objects
      /\ HeldList(r) \in Seq(Harmless) /\ Held(r) \subseteq Harmless /\ Held(r) \subseteq Objects
      /\ \A o \in Harmless : o.kind = "token" => o.name \in OwnedTokens
      /\ x \in Objects
  BY NamedObjects DEF Harmless
<1>3. ~Undoing(r) /\ ~Undoing(r)' /\ HeldList(r)' = Append(HeldList(r), x)
  BY DEF Provisioning, Undoing, HeldList
<1>4. Held(r)' = Held(r) \cup {x} /\ KindsOnce(HeldList(r))'
  <2>1. Held(r)' = Held(r) \cup {x}
    BY <1>2, <1>3, AppendSet DEF Held
  <2>2. KindsOnce(HeldList(r))
    BY DEF Sound, HeldApart
  <2>3. KindsOnce(Append(HeldList(r), x))
    BY <1>2, <2>2, AppendOnce DEF Held
  <2>4. QED
    BY <1>3, <2>1, <2>3 DEF KindsOnce
<1>5. \A p \in Profiles : Live(p, r)' <=> Live(p, r)
  BY <1>1 DEF Live
<1>6. \A o : (InUse(o, r)' <=> InUse(o, r)) /\ (Pending(o)' <=> Pending(o))
  BY <1>1, <1>5 DEF InUse, Uses, Pending
<1>7. \A t : (TokenInUse(t, r)' <=> TokenInUse(t, r)) /\ (TokenPending(t)' <=> TokenPending(t))
  BY <1>1, <1>5 DEF TokenInUse, Known, TokenPending
<1>8. /\ x.kind # "token" => ~InUse(x, r) /\ \A c \in cleanup : c.object # x
      /\ x.kind = "token" => ~TokenInUse(x.name, r) /\ ~TokenPending(x.name)
  <2>1. CASE x.kind # "token"
    <3>1. ~There(x) /\ x.kind \in {"route", "dns", "app", "policy"}
      BY <1>2, <2>1, ObjectFields
    <3>2. \A p \in Profiles : Live(p, r) => ~Uses(p, x)
      BY <3>1, UsedThere
    <3>3. \A c \in cleanup : c.object # x
      BY <2>1, <3>1 DEF Sound, PendingApart
    <3>4. QED
      BY <2>1, <3>2, <3>3 DEF InUse
  <2>2. CASE x.kind = "token"
    <3>1. x.name \in OwnedTokens /\ x.name \notin issued
      BY <1>2, <2>2
    <3>2. \A p \in Profiles : x.name \notin Known(cf[p])
      BY <3>1 DEF Sound, RecordsWhole
    <3>3. ~TokenPending(x.name)
      BY <3>1 DEF TokenPending, Sound, PendingApart
    <3>4. QED
      BY <2>2, <3>2, <3>3 DEF TokenInUse
  <2>3. QED
    BY <2>1, <2>2
<1>9. RecordsWhole'
  BY <1>1 DEF Sound, RecordsWhole, Known
<1>10. RecordsApart'
  BY <1>1 DEF Sound, RecordsApart, Known
<1>11. PendingApart(r)'
  <2>1. PendingApart(r)
    BY DEF Sound
  <2>2. QED
    BY <1>1, <1>2, <1>6, <1>7, <2>1 DEF PendingApart
<1>12. HeldApart(r)'
  <2>1. SUFFICES ASSUME NEW o \in Held(r) \cup {x}
                 PROVE  IF o.kind = "token"
                        THEN o.name \in issued' /\ ~TokenInUse(o.name, r) /\ ~TokenPending(o.name)
                        ELSE There(o)' /\ ~InUse(o, r) /\ \A c \in cleanup : c.object # o
    BY <1>1, <1>4, <1>6, <1>7 DEF HeldApart
  <2>2. CASE o = x
    BY <1>2, <1>8, <2>2
  <2>3. CASE o \in Held(r)
    <3>1. o \in Objects
      BY <1>2, <2>3
    <3>2. IF o.kind = "token"
          THEN o.name \in issued /\ ~TokenInUse(o.name, r) /\ ~TokenPending(o.name)
          ELSE There(o) /\ ~InUse(o, r) /\ \A c \in cleanup : c.object # o
      BY <1>3, <2>3 DEF Sound, HeldApart
    <3>3. QED
      BY <3>1, <3>2
  <2>4. QED
    BY <2>1, <2>2, <2>3
<1>13. AllAccounted(r)'
  <2>1. AllAccounted(r)
    BY DEF Sound
  <2>2. QED
    BY <1>1, <1>4, <1>6, <2>1 DEF AllAccounted
<1>14. RequestSound(r)'
  BY ProvisionOnly
<1>15. QED
  BY <1>9, <1>10, <1>11, <1>12, <1>13, <1>14 DEF Sound

\* What a provisioning knows while it makes objects.
LEMMA ProvisionKnows ==
    ASSUME NEW r, Careful(r), Inv, Sound(r), req[r].op = "provision",
           req[r].at \in {"writeRoutes", "dns", "token", "policy", "app"}
    PROVE  /\ req[r].profile \in profiles /\ req[r].profile \in Profiles /\ req[r].host \in Hosts
           /\ req[r].profile # None /\ req[r].host # None
           /\ (\A o \in Profiles \ {req[r].profile} : cf[o].host # req[r].host)
           /\ cf[req[r].profile].host = None
           /\ Held(r) = MadeAt(req[r]) /\ ToSet(req[r].made) = MadeAt(req[r])
           /\ ~Undoing(r) /\ req[r].at \in Provisioning
           /\ \A p \in Profiles : Live(p, r) <=> cf[p].host # None
<1>1. req[r].profile \in Profiles /\ req[r].host \in Hosts
  BY RequestTypes DEF Prepared
<1>2. ~Undoing(r) /\ req[r].at \in Provisioning
  BY DEF Undoing, Provisioning
<1>3. /\ req[r].profile \in profiles /\ cf[req[r].profile].host = None
      /\ (\A o \in Profiles \ {req[r].profile} : cf[o].host # req[r].host)
      /\ ToSet(req[r].made) = MadeAt(req[r])
  BY <1>2 DEF Sound, RequestSound, ProvisionSound
<1>4. Held(r) = MadeAt(req[r])
  BY <1>2, <1>3 DEF Held, HeldList
<1>5. \A p \in Profiles : Live(p, r) <=> cf[p].host # None
  BY DEF Live
<1>6. QED
  BY <1>1, <1>2, <1>3, <1>4, <1>5, NoneApart

\* A route is written over what was read: the hostname had none, and no other request
\* has written since.
LEMMA WriteRoutesSound ==
    ASSUME NEW r, Careful(r), Inv, Sound(r), WriteRoutes(r)
    PROVE  Sound(r)'
<1> DEFINE q == req[r]
           h == q.host
           x == Object("route", h)
<1>1. q \in RequestRecords /\ Prepared(q) /\ DOMAIN req = {r}
  BY RequestTypes
<1>2. q.op = "provision" /\ q.at = "writeRoutes"
  BY DEF WriteRoutes, At
<1>3. /\ q.profile \in profiles /\ q.profile \in Profiles /\ h \in Hosts /\ q.profile # None
      /\ (\A o \in Profiles \ {q.profile} : cf[o].host # h) /\ cf[q.profile].host = None
      /\ Held(r) = MadeAt(q) /\ ToSet(q.made) = MadeAt(q) /\ ~Undoing(r) /\ q.at \in Provisioning
      /\ \A p \in Profiles : Live(p, r) <=> cf[p].host # None
  BY <1>2, ProvisionKnows
<1>4. q.seen = route /\ route[h] = None /\ q.token \notin OwnedTokens /\ MadeAt(q) = {}
  BY <1>2 DEF Sound, RequestSound, ProvisionSound, Provisioning, MadeAt
<1>5. UNCHANGED <<dns, app, include, tokens, issued, local>>
  BY DEF WriteRoutes
<1>6. CASE route' = route /\ req' = [req EXCEPT ![r] = Raised(r)]
  BY <1>2, <1>3, <1>5, <1>6, RaisedSound DEF remote
<1>7. CASE /\ route' = [route EXCEPT ![h] = q.profile]
           /\ req' = [req EXCEPT ![r] = Made(r, x, "dns")]
  <2>1. req'[r] = [q EXCEPT !.at = "dns", !.made = Append(q.made, x)]
    BY <1>1, <1>7 DEF Made
  <2>2. /\ req'[r].op = "provision" /\ req'[r].at = "dns" /\ req'[r].profile = q.profile
        /\ req'[r].host = h /\ req'[r].token = q.token /\ req'[r].made = Append(q.made, x)
    BY <1>1, <1>2, <2>1 DEF RequestRecords
  <2>3. x \in Harmless /\ x.kind = "route" /\ x.name = h
    BY <1>3 DEF Harmless, Objects, Object
  <2>4. route \in [Hosts -> Profiles \cup {None}]
    BY DEF Inv, RemoteOK
  <2>5. \A o \in Objects : There(o)' <=> There(o) \/ o = x
    <3>1. SUFFICES ASSUME NEW o \in Objects PROVE There(o)' <=> There(o) \/ o = x
      OBVIOUS
    <3>2. o = x <=> o.kind = "route" /\ o.name = h
      BY <2>3, ObjectFields
    <3>3. o.kind = "route" => o.name \in Hosts
      BY ObjectFields
    <3>4. CASE o.kind = "route"
      BY <1>3, <1>7, <2>4, <3>2, <3>3, <3>4 DEF There
    <3>5. CASE o.kind # "route"
      BY <1>5, <3>2, <3>5 DEF There
    <3>6. QED
      BY <3>4, <3>5
  <2>6. ~There(x)
    BY <1>4, <2>3 DEF There
  <2>7. cf' = cf /\ profiles' = profiles /\ issued' = issued
    BY <1>5 DEF local
  <2>8. LiveWorks(r)'
    <3>1. SUFFICES ASSUME NEW p \in Profiles, Live(p, r)'
                   PROVE  /\ (route[cf[p].host] = p)' /\ (cf[p].host \in dns)'
                          /\ (app[cf[p].host] = cf[p].policy)'
                          /\ (include[cf[p].policy] # {})'
                          /\ (include[cf[p].policy] \subseteq Active(cf[p]))'
                          /\ (Active(cf[p]) \subseteq tokens)'
      BY DEF LiveWorks
    <3>2. Live(p, r)
      BY <1>3, <2>7, <3>1 DEF Live
    <3>3. cf[p].host # h
      BY <1>3, <3>2
    <3>4. cf[p].host \in Hosts
      BY <3>2 DEF Live, Inv, LocalOK, OwnRecords, CloudflareRecords
    <3>5. route'[cf[p].host] = route[cf[p].host]
      BY <1>7, <2>4, <3>3, <3>4
    <3>6. QED
      BY <1>5, <2>7, <3>2, <3>5 DEF Sound, LiveWorks, Active
  <2>9. GivenOut'
    BY <1>5 DEF Sound, GivenOut
  <2>10. ProvisionSound(r)'
    <3>1. ToSet(req'[r].made) = {x} /\ MadeAt(req'[r]) = {x}
      <4>1. q.made \in Seq(Harmless)
        BY <1>1 DEF RequestRecords
      <4>2. ToSet(Append(q.made, x)) = {x}
        BY <1>3, <1>4, <2>3, <4>1, AppendSet
      <4>3. QED
        BY <2>2, <4>2 DEF MadeAt
    <3>2. route'[h] = q.profile
      BY <1>3, <1>7, <2>4
    <3>3. QED
      BY <1>3, <1>4, <2>2, <2>7, <3>1, <3>2 DEF ProvisionSound
  <2>11. (req[r].at)' \in Provisioning
    BY <2>2 DEF Provisioning
  <2>12. QED
    BY <1>2, <1>3, <1>4, <1>5, <2>2, <2>3, <2>5, <2>6, <2>7, <2>8, <2>9, <2>10, <2>11, MadeSound
<1>8. QED
  <2>1. PICK a \in Answers :
          /\ route' = IF Applied(a) THEN [q.seen EXCEPT ![h] = q.profile] ELSE route
          /\ req' = [req EXCEPT ![r] = IF a = "ok" THEN Made(r, x, "dns") ELSE Raised(r)]
    BY DEF WriteRoutes
  <2>2. (a = "ok" /\ Applied(a)) \/ (a = "fails" /\ ~Applied(a))
    BY PlainAnswers
  <2>3. QED
    BY <1>4, <1>6, <1>7, <2>1, <2>2
\* A DNS record is made only where there was none.
LEMMA CreateDnsSound ==
    ASSUME NEW r, Careful(r), Inv, Sound(r), CreateDns(r)
    PROVE  Sound(r)'
<1> DEFINE q == req[r]
           h == q.host
           x == Object("dns", h)
<1>1. q \in RequestRecords /\ Prepared(q) /\ DOMAIN req = {r}
  BY RequestTypes
<1>2. q.op = "provision" /\ q.at = "dns"
  BY DEF CreateDns, At
<1>3. /\ q.profile \in profiles /\ q.profile \in Profiles /\ h \in Hosts /\ q.profile # None
      /\ (\A o \in Profiles \ {q.profile} : cf[o].host # h) /\ cf[q.profile].host = None
      /\ Held(r) = MadeAt(q) /\ ToSet(q.made) = MadeAt(q) /\ ~Undoing(r) /\ q.at \in Provisioning
      /\ \A p \in Profiles : Live(p, r) <=> cf[p].host # None
  BY <1>2, ProvisionKnows
<1>4. route[h] = q.profile /\ q.token \notin OwnedTokens /\ MadeAt(q) = {Object("route", h)}
  BY <1>2 DEF Sound, RequestSound, ProvisionSound, Provisioning, MadeAt
<1>5. UNCHANGED <<route, app, include, tokens, issued, local>>
  BY DEF CreateDns
<1>6. CASE dns' = dns /\ req' = [req EXCEPT ![r] = Raised(r)]
  BY <1>2, <1>3, <1>5, <1>6, RaisedSound DEF remote
<1>7. CASE /\ h \notin dns /\ dns' = dns \cup {h}
           /\ req' = [req EXCEPT ![r] = Made(r, x, AfterDns(r))]
  <2>1. req'[r] = [q EXCEPT !.at = AfterDns(r), !.made = Append(q.made, x)]
    BY <1>1, <1>7 DEF Made
  <2>2. /\ req'[r].op = "provision" /\ req'[r].at = AfterDns(r) /\ req'[r].profile = q.profile
        /\ req'[r].host = h /\ req'[r].token = q.token /\ req'[r].made = Append(q.made, x)
    BY <1>1, <1>2, <2>1 DEF RequestRecords
  <2>3. x \in Harmless /\ x.kind = "dns" /\ x.name = h
    BY <1>3 DEF Harmless, Objects, Object
  <2>4. AfterDns(r) \in {"token", "policy"} /\ (AfterDns(r) = "token" <=> q.token = None)
    BY DEF AfterDns
  <2>5. \A o \in Objects : There(o)' <=> There(o) \/ o = x
    <3>1. SUFFICES ASSUME NEW o \in Objects PROVE There(o)' <=> There(o) \/ o = x
      OBVIOUS
    <3>2. o = x <=> o.kind = "dns" /\ o.name = h
      BY <2>3, ObjectFields
    <3>3. CASE o.kind = "dns"
      BY <1>7, <3>2, <3>3 DEF There
    <3>4. CASE o.kind # "dns"
      BY <1>5, <3>2, <3>4 DEF There
    <3>5. QED
      BY <3>3, <3>4
  <2>6. ~There(x)
    BY <1>7, <2>3 DEF There
  <2>7. cf' = cf /\ profiles' = profiles /\ issued' = issued
    BY <1>5 DEF local
  <2>8. LiveWorks(r)'
    <3>1. \A p \in Profiles : Live(p, r)' <=> Live(p, r)
      BY <1>3, <2>2, <2>7 DEF Live
    <3>2. QED
      BY <1>5, <1>7, <2>7, <3>1 DEF Sound, LiveWorks, Active
  <2>9. GivenOut'
    BY <1>5 DEF Sound, GivenOut
  <2>10. ProvisionSound(r)'
    <3>1. ToSet(req'[r].made) = {Object("route", h), x} /\ MadeAt(req'[r]) = {Object("route", h), x}
      <4>1. q.made \in Seq(Harmless)
        BY <1>1 DEF RequestRecords
      <4>2. ToSet(Append(q.made, x)) = {Object("route", h)} \cup {x}
        BY <1>3, <1>4, <2>3, <4>1, AppendSet
      <4>3. MadeAt(req'[r]) = {Object("route", h)} \cup {x}
        BY <1>4, <2>2, <2>4 DEF MadeAt
      <4>4. QED
        BY <2>2, <4>2, <4>3
    <3>2. q.token # None => q.token \in tokens
      BY <1>1, <1>4 DEF RequestRecords, Tokens, Sound, GivenOut
    <3>3. QED
      BY <1>3, <1>4, <1>5, <2>2, <2>4, <2>7, <3>1, <3>2 DEF ProvisionSound
  <2>11. (req[r].at)' \in Provisioning
    BY <2>2, <2>4 DEF Provisioning
  <2>12. \A o \in Held(r) : o.kind # x.kind
    BY <1>3, <1>4, <2>3 DEF Object
  <2>13. QED
    BY <1>2, <1>3, <1>5, <2>2, <2>3, <2>5, <2>6, <2>7, <2>8, <2>9, <2>10, <2>11, <2>12, MadeSound
<1>8. QED
  <2>1. PICK a \in Answers :
          /\ dns' = IF Applied(a) THEN dns \cup {h} ELSE dns
          /\ req' = [req EXCEPT ![r] = IF a = "ok" /\ h \notin dns
                                       THEN Made(r, x, AfterDns(r)) ELSE Raised(r)]
    BY DEF CreateDns
  <2>2. (a = "ok" /\ Applied(a)) \/ (a = "fails" /\ ~Applied(a))
    BY PlainAnswers
  <2>3. CASE a = "ok" /\ h \notin dns
    BY <1>7, <2>1, <2>2, <2>3
  <2>4. CASE ~(a = "ok" /\ h \notin dns)
    BY <1>6, <2>1, <2>2, <2>4
  <2>5. QED
    BY <2>3, <2>4

\* The id of a new token has not been given out before.
LEMMA NextTokenNew ==
    ASSUME OwnedTokens \ issued # {}
    PROVE  NextToken \in OwnedTokens \ issued
  BY DEF NextToken

\* A token is made for the exposure.
LEMMA ProvisionTokenSound ==
    ASSUME NEW r, Careful(r), Inv, Sound(r), ProvisionToken(r)
    PROVE  Sound(r)'
<1> DEFINE q == req[r]
           h == q.host
           x == Object("token", NextToken)
           n == [Made(r, x, "policy") EXCEPT !.token = NextToken]
<1>1. q \in RequestRecords /\ Prepared(q) /\ DOMAIN req = {r}
  BY RequestTypes
<1>2. q.op = "provision" /\ q.at = "token"
  BY DEF ProvisionToken, At
<1>3. /\ q.profile \in profiles /\ q.profile \in Profiles /\ h \in Hosts /\ q.profile # None
      /\ (\A o \in Profiles \ {q.profile} : cf[o].host # h) /\ cf[q.profile].host = None
      /\ Held(r) = MadeAt(q) /\ ToSet(q.made) = MadeAt(q) /\ ~Undoing(r) /\ q.at \in Provisioning
      /\ \A p \in Profiles : Live(p, r) <=> cf[p].host # None
  BY <1>2, ProvisionKnows
<1>4. route[h] = q.profile /\ MadeAt(q) = {Object("route", h), Object("dns", h)}
  <2>1. route[h] = q.profile
    BY <1>2 DEF Sound, RequestSound, ProvisionSound, Provisioning
  <2>2. MadeAt(q) = {Object("route", h)} \cup {Object("dns", h)}
    BY <1>2 DEF MadeAt
  <2>3. QED
    BY <2>1, <2>2
<1>5. UNCHANGED <<route, dns, app, include, local>> /\ OwnedTokens \ issued # {}
  BY DEF ProvisionToken, CreateToken
<1>6. CASE tokens' = tokens /\ issued' = issued /\ req' = [req EXCEPT ![r] = Raised(r)]
  BY <1>2, <1>3, <1>5, <1>6, RaisedSound DEF remote
<1>7. CASE /\ tokens' = tokens \cup {NextToken} /\ issued' = issued \cup {NextToken}
           /\ req' = [req EXCEPT ![r] = n]
  <2> DEFINE t == NextToken
  <2>1. t \in OwnedTokens /\ t \notin issued
    BY <1>5, NextTokenNew
  <2> HIDE DEF t
  <2>2. req'[r] = [q EXCEPT !.at = "policy", !.made = Append(q.made, x), !.token = t]
    BY <1>1, <1>7 DEF Made, t, RequestRecords
  <2>3. /\ req'[r].op = "provision" /\ req'[r].at = "policy" /\ req'[r].profile = q.profile
        /\ req'[r].host = h /\ req'[r].token = t /\ req'[r].made = Append(q.made, x)
    BY <1>1, <1>2, <2>2 DEF RequestRecords
  <2>4. x \in Harmless /\ x.kind = "token" /\ x.name = t
    BY <2>1 DEF Harmless, Objects, Object, Tokens, t
  <2>5. tokens' = tokens \cup {t} /\ issued' = issued \cup {t}
    BY <1>7 DEF t
  <2>6. \A o \in Objects : There(o)' <=> There(o) \/ o = x
    <3>1. SUFFICES ASSUME NEW o \in Objects PROVE There(o)' <=> There(o) \/ o = x
      OBVIOUS
    <3>2. o = x <=> o.kind = "token" /\ o.name = t
      BY <2>4, ObjectFields DEF t
    <3>3. CASE o.kind = "token"
      BY <2>5, <3>2, <3>3 DEF There
    <3>4. CASE o.kind # "token"
      BY <1>5, <3>2, <3>4 DEF There
    <3>5. QED
      BY <3>3, <3>4
  <2>7. cf' = cf /\ profiles' = profiles
    BY <1>5 DEF local
  <2>8. LiveWorks(r)'
    <3>1. \A p \in Profiles : Live(p, r)' <=> Live(p, r)
      BY <1>3, <2>3, <2>7 DEF Live
    <3>2. QED
      BY <1>5, <2>5, <2>7, <3>1 DEF Sound, LiveWorks, Active
  <2>9. GivenOut'
    BY <1>5, <2>5 DEF Sound, GivenOut
  <2>10. ProvisionSound(r)'
    <3>1. ToSet(req'[r].made) = MadeAt(q) \cup {x}
      <4>1. q.made \in Seq(Harmless)
        BY <1>1 DEF RequestRecords
      <4>2. ToSet(Append(q.made, x)) = MadeAt(q) \cup {x}
        BY <1>3, <2>4, <4>1, AppendSet
      <4>3. QED
        BY <2>3, <4>2
    <3>2. MadeAt(req'[r]) = {Object("route", h)} \cup {Object("dns", h)} \cup {Object("token", t)}
      BY <2>1, <2>3 DEF MadeAt
    <3>3. ToSet(req'[r].made) = MadeAt(req'[r])
      BY <1>4, <3>1, <3>2 DEF t
    <3>4. QED
      BY <1>3, <1>4, <1>5, <2>3, <2>5, <2>7, <3>3 DEF ProvisionSound
  <2>11. (req[r].at)' \in Provisioning
    BY <2>3 DEF Provisioning
  <2>12. \A o \in Held(r) : o.kind # x.kind
    BY <1>3, <1>4, <2>4 DEF Object
  <2>13. QED
    BY <1>2, <1>3, <1>5, <2>1, <2>3, <2>4, <2>5, <2>6, <2>8, <2>9, <2>10, <2>11, <2>12, MadeSound
<1>8. QED
  <2>1. PICK a \in Answers :
          /\ tokens' = IF Applied(a) THEN tokens \cup {NextToken} ELSE tokens
          /\ issued' = IF Applied(a) THEN issued \cup {NextToken} ELSE issued
          /\ req' = [req EXCEPT ![r] = IF a = "ok" THEN n ELSE Raised(r)]
    BY DEF ProvisionToken, CreateToken
  <2>2. (a = "ok" /\ Applied(a)) \/ (a = "fails" /\ ~Applied(a))
    BY PlainAnswers
  <2>3. QED
    BY <1>6, <1>7, <2>1, <2>2

\* A policy is made for the one token of the exposure.
LEMMA CreatePolicySound ==
    ASSUME NEW r, Careful(r), Inv, Sound(r), CreatePolicy(r)
    PROVE  Sound(r)'
<1> DEFINE q == req[r]
           h == q.host
           x == Object("policy", NextPolicy)
           n == [Made(r, x, "app") EXCEPT !.policy = NextPolicy]
<1>1. q \in RequestRecords /\ Prepared(q) /\ DOMAIN req = {r}
  BY RequestTypes
<1>2. q.op = "provision" /\ q.at = "policy"
  BY DEF CreatePolicy, At
<1>3. /\ q.profile \in profiles /\ q.profile \in Profiles /\ h \in Hosts /\ q.profile # None
      /\ (\A o \in Profiles \ {q.profile} : cf[o].host # h) /\ cf[q.profile].host = None
      /\ Held(r) = MadeAt(q) /\ ToSet(q.made) = MadeAt(q) /\ ~Undoing(r) /\ q.at \in Provisioning
      /\ \A p \in Profiles : Live(p, r) <=> cf[p].host # None
  BY <1>2, ProvisionKnows
<1>4. route[h] = q.profile /\ q.token \in tokens /\ \A o \in MadeAt(q) : o.kind # "policy"
  BY <1>2 DEF Sound, RequestSound, ProvisionSound, Provisioning, MadeAt, Object
<1>5. UNCHANGED <<route, dns, app, tokens, local>> /\ Policies \ issued # {}
  BY DEF CreatePolicy
<1>6. CASE include' = include /\ issued' = issued /\ req' = [req EXCEPT ![r] = Raised(r)]
  BY <1>2, <1>3, <1>5, <1>6, RaisedSound DEF remote
<1>7. CASE /\ include' = [include EXCEPT ![NextPolicy] = {q.token}]
           /\ issued' = issued \cup {NextPolicy} /\ req' = [req EXCEPT ![r] = n]
  <2> DEFINE i == NextPolicy
  <2>1. i \in Policies /\ i \notin issued
    BY <1>5 DEF NextPolicy
  <2> HIDE DEF i
  <2>2. req'[r] = [q EXCEPT !.at = "app", !.made = Append(q.made, x), !.policy = i]
    BY <1>1, <1>7 DEF Made, i, RequestRecords
  <2>3. /\ req'[r].op = "provision" /\ req'[r].at = "app" /\ req'[r].profile = q.profile
        /\ req'[r].host = h /\ req'[r].token = q.token /\ req'[r].made = Append(q.made, x)
        /\ req'[r].policy = i
    BY <1>1, <1>2, <2>2 DEF RequestRecords
  <2>4. x \in Harmless /\ x.kind = "policy" /\ x.name = i
    BY <2>1 DEF Harmless, Objects, Object, i
  <2>5. include' = [include EXCEPT ![i] = {q.token}] /\ issued' = issued \cup {i}
    BY <1>7 DEF i
  <2>6. include[i] = {} /\ include \in [Policies -> SUBSET Tokens]
    BY <2>1 DEF Sound, GivenOut, Inv, RemoteOK
  <2>7. \A o \in Objects : There(o)' <=> There(o) \/ o = x
    <3>1. SUFFICES ASSUME NEW o \in Objects PROVE There(o)' <=> There(o) \/ o = x
      OBVIOUS
    <3>2. o = x <=> o.kind = "policy" /\ o.name = i
      BY <2>4, ObjectFields DEF i
    <3>3. o.kind = "policy" => o.name \in Policies
      BY ObjectFields
    <3>4. CASE o.kind = "policy"
      BY <2>1, <2>5, <2>6, <3>2, <3>3, <3>4 DEF There
    <3>5. CASE o.kind # "policy"
      BY <1>5, <3>2, <3>5 DEF There
    <3>6. QED
      BY <3>4, <3>5
  <2>8. ~There(x)
    BY <2>4, <2>6 DEF There
  <2>9. cf' = cf /\ profiles' = profiles
    BY <1>5 DEF local
  <2>10. LiveWorks(r)'
    <3>1. \A p \in Profiles : Live(p, r)' <=> Live(p, r)
      BY <1>3, <2>3, <2>9 DEF Live
    <3>2. \A p \in Profiles : Live(p, r) => cf[p].policy \in Policies /\ cf[p].policy # i
      BY <1>3, <2>1 DEF Sound, RecordsWhole
    <3>3. \A p \in Profiles : Live(p, r) => include'[cf[p].policy] = include[cf[p].policy]
      BY <2>5, <2>6, <3>2
    <3>4. QED
      BY <1>5, <2>9, <3>1, <3>3 DEF Sound, LiveWorks, Active
  <2>11. GivenOut'
    BY <1>5, <2>5, <2>6 DEF Sound, GivenOut
  <2>12. ProvisionSound(r)'
    <3>1. ToSet(req'[r].made) = MadeAt(q) \cup {x}
      <4>1. q.made \in Seq(Harmless)
        BY <1>1 DEF RequestRecords
      <4>2. ToSet(Append(q.made, x)) = MadeAt(q) \cup {x}
        BY <1>3, <2>4, <4>1, AppendSet
      <4>3. QED
        BY <2>3, <4>2
    <3>2. MadeAt(req'[r]) = MadeAt(q) \cup {Object("policy", i)}
      BY <1>2, <2>3 DEF MadeAt
    <3>3. ToSet(req'[r].made) = MadeAt(req'[r])
      BY <3>1, <3>2 DEF i
    <3>4. include'[i] = {q.token} /\ i \in issued'
      BY <2>1, <2>5, <2>6
    <3>5. QED
      BY <1>3, <1>4, <1>5, <2>3, <2>9, <3>3, <3>4 DEF ProvisionSound
  <2>13. (req[r].at)' \in Provisioning
    BY <2>3 DEF Provisioning
  <2>14. \A o \in Held(r) : o.kind # x.kind
    BY <1>3, <1>4, <2>4
  <2>15. QED
    BY <1>2, <1>3, <1>5, <2>3, <2>4, <2>5, <2>7, <2>8, <2>10, <2>11, <2>12, <2>13, <2>14, MadeSound
<1>8. QED
  <2>1. PICK a \in Answers :
          /\ include' = IF Applied(a) THEN [include EXCEPT ![NextPolicy] = {q.token}] ELSE include
          /\ issued' = IF Applied(a) THEN issued \cup {NextPolicy} ELSE issued
          /\ req' = [req EXCEPT ![r] = IF a = "ok" THEN n ELSE Raised(r)]
    BY DEF CreatePolicy
  <2>2. (a = "ok" /\ Applied(a)) \/ (a = "fails" /\ ~Applied(a))
    BY PlainAnswers
  <2>3. QED
    BY <1>6, <1>7, <2>1, <2>2
-----------------------------------------------------------------------------
(* The exposure is complete.                                               *)

\* The last object is made, and the record of the profile takes over what the request
\* held: from nowhere in between is an object without an owner.
LEMMA CreateAppSound ==
    ASSUME NEW r, Careful(r), Inv, Sound(r), CreateApp(r)
    PROVE  Sound(r)'
<1> DEFINE q == req[r]
           h == q.host
           p == q.profile
           e == Exposed(r)
           x == Object("app", h)
<1>1. q \in RequestRecords /\ Prepared(q) /\ DOMAIN req = {r}
  BY RequestTypes
<1>2. q.op = "provision" /\ q.at = "app"
  BY DEF CreateApp, At
<1>3. /\ p \in profiles /\ p \in Profiles /\ h \in Hosts /\ p # None /\ h # None
      /\ (\A o \in Profiles \ {p} : cf[o].host # h) /\ cf[p].host = None
      /\ Held(r) = MadeAt(q) /\ ~Undoing(r) /\ q.at \in Provisioning
      /\ \A o \in Profiles : Live(o, r) <=> cf[o].host # None
  BY <1>2, ProvisionKnows
<1>4. /\ route[h] = p /\ q.token \in tokens /\ include[q.policy] = {q.token}
      /\ q.policy \in issued /\ q.policy \in Policies /\ q.policy # None /\ q.token \in Tokens
  <2>1. route[h] = p /\ q.token \in tokens /\ include[q.policy] = {q.token} /\ q.policy \in issued
    BY <1>2 DEF Sound, RequestSound, ProvisionSound, Provisioning
  <2>2. q.policy \in Policies /\ q.token \in Tokens
    BY <1>1, <1>2 DEF Prepared
  <2>3. QED
    BY <2>1, <2>2, NoneApart
<1>5. /\ Object("route", h) \in Held(r) /\ Object("dns", h) \in Held(r)
      /\ Object("policy", q.policy) \in Held(r)
      /\ q.token \in OwnedTokens => Object("token", q.token) \in Held(r)
      /\ \A o \in Held(r) : \/ o = Object("route", h) \/ o = Object("dns", h)
                            \/ o = Object("policy", q.policy)
                            \/ o = Object("token", q.token)
  BY <1>2, <1>3 DEF MadeAt
<1>6. /\ \A o \in Held(r) :
            IF o.kind = "token"
            THEN o.name \in issued /\ ~TokenInUse(o.name, r) /\ ~TokenPending(o.name)
            ELSE There(o) /\ ~InUse(o, r) /\ \A c \in cleanup : c.object # o
  BY <1>2, <1>3 DEF Sound, HeldApart
<1>7. UNCHANGED <<route, dns, include, tokens, issued, profiles, cleanup, forgotten>>
  BY DEF CreateApp
<1>8. CASE app' = app /\ cf' = cf /\ wish' = wish /\ req' = [req EXCEPT ![r] = Raised(r)]
  BY <1>2, <1>3, <1>7, <1>8, RaisedSound DEF remote, local
<1>9. CASE /\ app[h] = None /\ app' = [app EXCEPT ![h] = q.policy]
           /\ cf' = [cf EXCEPT ![p] = e] /\ wish' = [wish EXCEPT ![p] = h]
           /\ req' = [req EXCEPT ![r] = Idle]
  <2>1. req'[r] = Idle /\ req'[r].op = "none"
    BY <1>1, <1>9 DEF Idle
  <2>2. RequestSound(r)' /\ ~Undoing(r)' /\ Held(r)' = {} /\ KindsOnce(HeldList(r))'
    BY <2>1, IdleNext
  <2>3. /\ cf'[p] = e /\ \A o \in Profiles \ {p} : cf'[o] = cf[o]
        /\ wish'[p] = h /\ \A o \in Profiles \ {p} : wish'[o] = wish[o]
    BY <1>3, <1>9 DEF Inv, LocalOK
  <2>4. e.host = h /\ e.policy = q.policy
    BY DEF Exposed
  <2>5. Known(e) = {q.token} /\ Active(e) = {q.token}
    BY <1>4 DEF Exposed, Known, Active
  <2> HIDE DEF e
  <2>6. /\ app'[h] = q.policy /\ \A k \in Hosts \ {h} : app'[k] = app[k]
    BY <1>3, <1>9 DEF Inv, RemoteOK
  <2>7. \A o \in Profiles : Live(o, r)' <=> o = p \/ Live(o, r)
    BY <1>3, <2>1, <2>3, <2>4 DEF Live
  <2>8. /\ q.token \in OwnedTokens => q.token \in issued /\ ~TokenInUse(q.token, r) /\ ~TokenPending(q.token)
        /\ h \in dns
        /\ ~InUse(Object("policy", q.policy), r)
    <3>1. Object("token", q.token).kind = "token" /\ Object("token", q.token).name = q.token
      BY DEF Object
    <3>2. Object("dns", h).kind = "dns" /\ Object("dns", h).name = h
      BY DEF Object
    <3>3. Object("policy", q.policy).kind = "policy"
      BY DEF Object
    <3>4. There(Object("dns", h))
      BY <1>5, <1>6, <3>2
    <3>5. h \in dns
      BY <3>2, <3>4 DEF There
    <3>6. ~InUse(Object("policy", q.policy), r)
      BY <1>5, <1>6, <3>3
    <3>7. q.token \in OwnedTokens => q.token \in issued /\ ~TokenInUse(q.token, r) /\ ~TokenPending(q.token)
      BY <1>5, <1>6, <3>1
    <3>8. QED
      BY <3>5, <3>6, <3>7
  <2>9. \A o \in Profiles \ {p} : cf[o].policy # q.policy
    <3>1. SUFFICES ASSUME NEW o \in Profiles \ {p}, cf[o].policy = q.policy PROVE FALSE
      OBVIOUS
    <3>2. cf[o].host # None
      BY <1>4, <3>1 DEF Sound, RecordsWhole, NoCloudflare
    <3>3. Uses(o, Object("policy", q.policy))
      BY <3>1 DEF Uses, Object
    <3>4. QED
      BY <1>3, <2>8, <3>2, <3>3 DEF InUse
  <2>10. \A o \in Profiles \ {p} : q.token \in OwnedTokens => q.token \notin Known(cf[o])
    <3>1. SUFFICES ASSUME NEW o \in Profiles \ {p}, q.token \in OwnedTokens, q.token \in Known(cf[o])
                   PROVE  FALSE
      OBVIOUS
    <3>2. cf[o].host # None
      BY <3>1 DEF Sound, RecordsWhole, NoCloudflare, Known
    <3>3. QED
      BY <1>3, <2>8, <3>1, <3>2 DEF TokenInUse
  <2>11. RecordsWhole'
    <3>1. RecordsWhole
      BY DEF Sound
    <3>2. SUFFICES ASSUME NEW o \in Profiles
                   PROVE  /\ wish'[o] = cf'[o].host
                          /\ cf'[o].host = None => cf'[o] = NoCloudflare
                          /\ cf'[o].host # None => o \in profiles' /\ cf'[o].policy \in Policies \cap issued'
                          /\ Known(cf'[o]) \cap OwnedTokens \subseteq issued'
      BY DEF RecordsWhole, Known
    <3>3. CASE o = p
      BY <1>3, <1>4, <1>7, <2>3, <2>4, <2>5, <2>8, <3>3
    <3>4. CASE o # p
      BY <1>7, <2>3, <3>1, <3>4 DEF RecordsWhole
    <3>5. QED
      BY <3>3, <3>4
  <2>12. RecordsApart'
    <3>1. RecordsApart
      BY DEF Sound
    <3>2. SUFFICES ASSUME NEW a \in Profiles, NEW b \in Profiles, a # b
                   PROVE  /\ cf'[a].host # None => cf'[a].host # cf'[b].host
                          /\ cf'[a].policy # None => cf'[a].policy # cf'[b].policy
                          /\ Known(cf'[a]) \cap Known(cf'[b]) \cap OwnedTokens = {}
      BY DEF RecordsApart, Known
    <3>3. CASE a = p
      BY <1>3, <2>3, <2>4, <2>5, <2>9, <2>10, <3>2, <3>3
    <3>4. CASE b = p
      BY <1>3, <2>3, <2>4, <2>5, <2>9, <2>10, <3>2, <3>4
    <3>5. CASE a # p /\ b # p
      BY <2>3, <3>1, <3>2, <3>5 DEF RecordsApart
    <3>6. QED
      BY <3>3, <3>4, <3>5
  <2>13. LiveWorks(r)'
    <3>1. SUFFICES ASSUME NEW o \in Profiles, o = p \/ Live(o, r)
                   PROVE  /\ route[cf'[o].host] = o /\ cf'[o].host \in dns
                          /\ app'[cf'[o].host] = cf'[o].policy
                          /\ include[cf'[o].policy] # {}
                          /\ include[cf'[o].policy] \subseteq Active(cf'[o])
                          /\ Active(cf'[o]) \subseteq tokens
      BY <1>7, <2>7 DEF LiveWorks, Active
    <3>2. CASE o = p
      BY <1>4, <2>3, <2>4, <2>5, <2>6, <2>8, <3>2
    <3>3. CASE o # p /\ Live(o, r)
      <4>1. cf[o].host # h /\ cf'[o] = cf[o]
        BY <1>3, <2>3, <3>3
      <4>2. cf[o].host \in Hosts
        BY <3>3 DEF Live, Inv, LocalOK, OwnRecords, CloudflareRecords
      <4>3. app'[cf[o].host] = app[cf[o].host]
        BY <2>6, <4>1, <4>2
      <4>4. QED
        BY <3>3, <4>1, <4>3 DEF Sound, LiveWorks
    <3>4. QED
      BY <3>1, <3>2, <3>3
  <2>14. \A o \in Objects : There(o)' <=> There(o) \/ o = x
    <3>1. SUFFICES ASSUME NEW o \in Objects PROVE There(o)' <=> There(o) \/ o = x
      OBVIOUS
    <3>2. o = x <=> o.kind = "app" /\ o.name = h
      BY ObjectFields DEF Object
    <3>3. o.kind = "app" => o.name \in Hosts
      BY ObjectFields
    <3>4. CASE o.kind = "app"
      BY <1>4, <2>6, <3>2, <3>3, <3>4 DEF There
    <3>5. CASE o.kind # "app"
      BY <1>7, <3>2, <3>5 DEF There
    <3>6. QED
      BY <3>4, <3>5
  <2>15. \A o : InUse(o, r)' <=> InUse(o, r) \/ (o.kind # "token" /\ o.name = IF o.kind = "policy" THEN q.policy ELSE h)
    <3>1. \A o, y : y \in Profiles \ {p} => (Uses(y, o)' <=> Uses(y, o))
      BY <2>3 DEF Uses
    <3>2. \A o, y : y = p => (Uses(y, o)' <=> (o.kind # "token" /\ o.name = IF o.kind = "policy" THEN q.policy ELSE h))
      BY <2>3, <2>4 DEF Uses
    <3>3. ~Live(p, r)
      BY <1>3
    <3>4. QED
      BY <1>3, <2>7, <3>1, <3>2, <3>3 DEF InUse
  <2>16. \A t : TokenInUse(t, r)' <=> TokenInUse(t, r) \/ t = q.token
    <3>1. \A t, y : y \in Profiles \ {p} => (t \in Known(cf'[y]) <=> t \in Known(cf[y]))
      BY <2>3
    <3>2. Known(cf'[p]) = {q.token}
      BY <2>3, <2>5
    <3>3. ~Live(p, r)
      BY <1>3
    <3>4. QED
      BY <1>3, <2>7, <3>1, <3>2, <3>3 DEF TokenInUse, Known
  <2>17. PendingApart(r)'
    <3>1. SUFFICES ASSUME NEW c \in cleanup
                   PROVE  IF c.object.kind = "token"
                          THEN c.object.name \in issued /\ ~TokenInUse(c.object.name, r)'
                          ELSE /\ c.key = c.object.name
                               /\ There(c.object)'
                               /\ ~InUse(c.object, r)'
                               /\ \A d \in cleanup : d.object = c.object => d = c
      BY <1>7 DEF PendingApart
    <3>2. /\ c.object \in Objects
          /\ c.object.kind = "token" => c.object.name \in OwnedTokens
      BY NamedObjects
    <3>3. IF c.object.kind = "token"
          THEN c.object.name \in issued /\ ~TokenInUse(c.object.name, r)
          ELSE /\ c.key = c.object.name /\ There(c.object) /\ ~InUse(c.object, r)
               /\ \A d \in cleanup : d.object = c.object => d = c
      BY DEF Sound, PendingApart
    <3>4. CASE c.object.kind = "token"
      <4>1. c.object.name # q.token
        BY <2>8, <3>2, <3>4 DEF TokenPending
      <4>2. QED
        BY <2>16, <3>3, <3>4, <4>1
    <3>5. CASE c.object.kind # "token"
      <4>1. c.object = Object(c.object.kind, c.object.name)
            /\ c.object.kind \in {"route", "dns", "app", "policy"}
        BY <3>2, <3>5, ObjectFields
      <4>2. ~(c.object.name = IF c.object.kind = "policy" THEN q.policy ELSE h)
        <5>1. SUFFICES ASSUME c.object.name = IF c.object.kind = "policy" THEN q.policy ELSE h
                       PROVE  FALSE
          OBVIOUS
        <5>2. c.object \in Held(r) \/ c.object = x
          BY <1>5, <4>1, <5>1
        <5>3. \A o \in Held(r) : o.kind # "token" => c.object # o
          BY <1>6
        <5>4. c.object = x
          BY <3>5, <5>2, <5>3
        <5>5. There(x)
          BY <3>3, <3>5, <5>4
        <5>6. app[h] # None
          BY <5>5 DEF There, Object
        <5>7. QED
          BY <1>9, <5>6
      <4>3. QED
        BY <2>14, <2>15, <3>2, <3>3, <3>5, <4>2
    <3>6. QED
      BY <3>4, <3>5
  <2>18. HeldApart(r)'
    BY <2>2 DEF HeldApart
  <2>19. AllAccounted(r)'
    <3>1. SUFFICES ASSUME NEW o \in Objects, o.kind # "token", There(o)'
                   PROVE  InUse(o, r)' \/ Pending(o)' \/ o \in forgotten
      BY <1>7 DEF AllAccounted
    <3>2. Pending(o)' <=> Pending(o)
      BY <1>7 DEF Pending
    <3>3. CASE o = x
      BY <2>15, <3>1, <3>3 DEF Object
    <3>4. CASE o \in Held(r)
      <4>1. o = Object("route", h) \/ o = Object("dns", h) \/ o = Object("policy", q.policy)
        BY <1>5, <3>1, <3>4 DEF Object
      <4>2. QED
        BY <2>15, <3>1, <4>1 DEF Object
    <3>5. CASE o # x /\ o \notin Held(r)
      BY <2>14, <2>15, <3>1, <3>2, <3>5 DEF Sound, AllAccounted
    <3>6. QED
      BY <3>3, <3>4, <3>5
  <2>20. GivenOut'
    BY <1>7 DEF Sound, GivenOut
  <2>21. QED
    BY <2>2, <2>11, <2>12, <2>13, <2>17, <2>18, <2>19, <2>20 DEF Sound
<1>10. QED
  <2>1. PICK a \in Answers :
          /\ app' = IF Applied(a) /\ app[h] = None THEN [app EXCEPT ![h] = q.policy] ELSE app
          /\ cf' = IF a = "ok" /\ app[h] = None THEN Stored(p, e) ELSE cf
          /\ wish' = IF (a = "ok" /\ app[h] = None) /\ p \in profiles THEN [wish EXCEPT ![p] = h] ELSE wish
          /\ req' = [req EXCEPT ![r] = IF a = "ok" /\ app[h] = None THEN Idle ELSE Raised(r)]
    BY DEF CreateApp
  <2>2. (a = "ok" /\ Applied(a)) \/ (a = "fails" /\ ~Applied(a))
    BY PlainAnswers
  <2>3. Stored(p, e) = [cf EXCEPT ![p] = e]
    BY <1>3 DEF Stored
  <2>4. CASE a = "ok" /\ app[h] = None
    BY <1>3, <1>9, <2>1, <2>2, <2>3, <2>4
  <2>5. CASE ~(a = "ok" /\ app[h] = None)
    BY <1>8, <2>1, <2>2, <2>5
  <2>6. QED
    BY <2>4, <2>5
-----------------------------------------------------------------------------
(* Objects are undone, removed, and their cleanup retried.                 *)

\* What a deletion leaves of the request and of the records, however it ends.
LEMMA OutcomeRecords ==
    ASSUME NEW r, Careful(r), Inv, Sound(r), NEW raised \in BOOLEAN, Undoing(r),
           Outcome(r, Head(req[r].todo), raised)
    PROVE  /\ Held(r)' = ToSet(Tail(req[r].todo)) /\ KindsOnce(HeldList(r))'
           /\ ~Undoing(r)' => Held(r)' = {}
           /\ Tail(req[r].todo) # <<>> => (req[r].op)' = req[r].op
           /\ \A x \in Profiles : Live(x, r)' <=> Live(x, r)
           /\ \A x \in Profiles : Live(x, r) => cf'[x] = cf[x]
           /\ RecordsWhole' /\ RecordsApart' /\ RequestSound(r)'
           /\ issued' = issued /\ forgotten' = forgotten
<1> DEFINE q == req[r]
           rest == Tail(q.todo)
           n == IF rest = <<>> THEN Idle ELSE [q EXCEPT !.at = "clean", !.todo = rest]
<1>1. q \in RequestRecords /\ Prepared(q) /\ DOMAIN req = {r}
  BY RequestTypes
<1>2. /\ q.op \in {"provision", "remove", "delete", "retry"} /\ q.todo # <<>>
      /\ q.profile \in Profiles /\ q.todo \in Seq(Harmless)
  BY <1>1 DEF Prepared, Undoing, RequestRecords
<1>3. rest \in Seq(Harmless)
  BY <1>2, TailSet
<1>4. PICK refused \in BOOLEAN : Proceed(r, rest, refused)
  BY DEF Outcome
<1>5. req'[r] = n
  BY <1>1, <1>4 DEF Proceed
<1>6. issued' = issued /\ forgotten' = forgotten
  BY DEF Outcome
<1>7. KindsOnce(q.todo)
  BY DEF Sound, HeldApart, HeldList
<1>8. RemovalSound(r)
  BY DEF Sound, RequestSound
<1>9. PICK p \in Profiles : p = q.profile
  BY <1>2
<1>10. RecordsWhole /\ RecordsApart
  BY DEF Sound
<1>11. CASE rest = <<>>
  <2>1. req'[r] = Idle /\ req'[r].op = "none"
    BY <1>5, <1>11 DEF Idle
  <2>2. RequestSound(r)' /\ ~Undoing(r)' /\ Held(r)' = {} /\ KindsOnce(HeldList(r))'
    BY <2>1, IdleNext
  <2>3. ToSet(rest) = {}
    BY <1>11 DEF ToSet
  <2>4. CASE q.op \in {"remove", "delete"}
    <3>1. p \in profiles
      BY <1>8, <1>9, <2>4 DEF RemovalSound
    <3>2. cf' = [cf EXCEPT ![p] = NoCloudflare] /\ wish' = [wish EXCEPT ![p] = None]
          /\ profiles \ {p} \subseteq profiles'
      BY <1>4, <1>9, <1>11, <2>4, <3>1 DEF Proceed, Stored
    <3>3. /\ cf'[p] = NoCloudflare /\ wish'[p] = None
          /\ \A x \in Profiles \ {p} : cf'[x] = cf[x] /\ wish'[x] = wish[x]
      BY <3>2 DEF Inv, LocalOK
    <3>4. NoCloudflare.host = None /\ NoCloudflare.policy = None /\ Known(NoCloudflare) = {}
      BY DEF NoCloudflare, Known
    <3>5. ~Live(p, r) /\ \A x \in Profiles \ {p} : Live(x, r) <=> cf[x].host # None
      BY <1>9, <2>4 DEF Live
    <3>6. \A x \in Profiles : Live(x, r)' <=> cf'[x].host # None
      BY <2>1 DEF Live
    <3>7. /\ \A x \in Profiles : Live(x, r)' <=> Live(x, r)
          /\ \A x \in Profiles : Live(x, r) => cf'[x] = cf[x]
      BY <3>3, <3>4, <3>5, <3>6
    <3>8. RecordsWhole'
      <4>1. SUFFICES ASSUME NEW x \in Profiles
                     PROVE  /\ wish'[x] = cf'[x].host
                            /\ cf'[x].host = None => cf'[x] = NoCloudflare
                            /\ cf'[x].host # None => x \in profiles' /\ cf'[x].policy \in Policies \cap issued'
                            /\ Known(cf'[x]) \cap OwnedTokens \subseteq issued'
        BY DEF RecordsWhole, Known
      <4>2. CASE x = p
        BY <3>3, <3>4, <4>2
      <4>3. CASE x # p
        BY <1>6, <1>10, <3>2, <3>3, <4>3 DEF RecordsWhole
      <4>4. QED
        BY <4>2, <4>3
    <3>9. RecordsApart'
      <4>1. SUFFICES ASSUME NEW x \in Profiles, NEW y \in Profiles, x # y
                     PROVE  /\ cf'[x].host # None => cf'[x].host # cf'[y].host
                            /\ cf'[x].policy # None => cf'[x].policy # cf'[y].policy
                            /\ Known(cf'[x]) \cap Known(cf'[y]) \cap OwnedTokens = {}
        BY DEF RecordsApart, Known
      <4>2. CASE x = p
        BY <3>3, <3>4, <4>1, <4>2
      <4>3. CASE y = p
        BY <3>3, <3>4, <4>1, <4>3
      <4>4. CASE x # p /\ y # p
        BY <1>10, <3>3, <4>1, <4>4 DEF RecordsApart
      <4>5. QED
        BY <4>2, <4>3, <4>4
    <3>10. QED
      BY <1>6, <1>11, <2>2, <2>3, <3>7, <3>8, <3>9
  <2>5. CASE q.op \notin {"remove", "delete"}
    <3>1. cf' = cf /\ wish' = wish /\ profiles' = profiles
      BY <1>4, <2>5 DEF Proceed
    <3>2. \A x \in Profiles : Live(x, r)' <=> Live(x, r)
      BY <2>1, <2>5, <3>1 DEF Live
    <3>3. RecordsWhole' /\ RecordsApart'
      BY <1>6, <1>10, <3>1 DEF RecordsWhole, RecordsApart, Known
    <3>4. QED
      BY <1>6, <1>11, <2>2, <2>3, <3>1, <3>2, <3>3
  <2>6. QED
    BY <2>4, <2>5
<1>12. CASE rest # <<>>
  <2>1. req'[r] = [q EXCEPT !.at = "clean", !.todo = rest]
    BY <1>5, <1>12
  <2>2. /\ req'[r].op = q.op /\ req'[r].at = "clean" /\ req'[r].todo = rest
        /\ req'[r].profile = q.profile
    BY <1>1, <2>1 DEF RequestRecords
  <2>3. Undoing(r)' /\ HeldList(r)' = rest /\ Held(r)' = ToSet(rest)
    BY <2>2 DEF Undoing, HeldList, Held
  <2>4. KindsOnce(HeldList(r))'
    <3>1. KindsOnce(rest)
      BY <1>2, <1>7, TailOnce
    <3>2. QED
      BY <2>3, <3>1 DEF KindsOnce
  <2>5. cf' = cf /\ wish' = wish /\ profiles' = profiles
    BY <1>4, <1>12 DEF Proceed
  <2>6. \A x \in Profiles : Live(x, r)' <=> Live(x, r)
    BY <2>2, <2>5 DEF Live
  <2>7. RecordsWhole' /\ RecordsApart'
    BY <1>6, <1>10, <2>5 DEF RecordsWhole, RecordsApart, Known
  <2>8. q.op # "retry"
    <3>1. SUFFICES ASSUME q.op = "retry" PROVE FALSE
      OBVIOUS
    <3>2. q.todo = <<q.record.object>>
      BY <1>8, <3>1 DEF RemovalSound
    <3>3. Tail(<<q.record.object>>) = <<>>
      OBVIOUS
    <3>4. QED
      BY <1>12, <3>2, <3>3
  <2>9. RequestSound(r)'
    BY <1>2, <1>8, <2>2, <2>5, <2>8 DEF RequestSound, Positions, ProvisionSound, Provisioning,
       RemovalSound, TokenSound
  <2>10. QED
    BY <1>6, <2>2, <2>3, <2>4, <2>5, <2>6, <2>7, <2>9
<1>13. QED
  BY <1>11, <1>12

\* What the first object of the list is: it exists, no profile uses it, and it is
\* owed only if this is its retry.
LEMMA HeadHeld ==
    ASSUME NEW r, Careful(r), Inv, Sound(r), Undoing(r)
    PROVE  LET q == req[r]  o == Head(q.todo)  rest == Tail(q.todo) IN
           /\ q.op \in {"provision", "remove", "delete", "retry"} /\ q.profile \in Profiles
           /\ o \in Objects /\ o \in Harmless /\ ToSet(rest) \subseteq Objects
           /\ Held(r) = {o} \cup ToSet(rest)
           /\ \A x \in ToSet(rest) : x.kind = o.kind => x.kind = "token"
           /\ \A x \in Held(r) :
                IF x.kind = "token" THEN x.name \in issued /\ ~TokenInUse(x.name, r)
                ELSE There(x) /\ ~InUse(x, r)
                     /\ \A c \in cleanup : c.object = x => q.op = "retry" /\ c = q.record
           /\ q.op = "retry" =>
                /\ q.record.object = o /\ rest = <<>> /\ ToSet(rest) = {}
                /\ o.kind # "token" => q.record.key = o.name
<1> DEFINE q == req[r]
           o == Head(q.todo)
           rest == Tail(q.todo)
<1>1. q \in RequestRecords /\ Prepared(q)
  BY RequestTypes
<1>2. /\ q.op \in {"provision", "remove", "delete", "retry"} /\ q.todo # <<>>
      /\ q.profile \in Profiles /\ q.todo \in Seq(Harmless)
  BY <1>1 DEF Prepared, Undoing, RequestRecords
<1>3. o \in Harmless /\ rest \in Seq(Harmless) /\ ToSet(q.todo) = {o} \cup ToSet(rest)
  BY <1>2, TailSet
<1>4. Held(r) = {o} \cup ToSet(rest) /\ KindsOnce(q.todo)
  BY <1>3 DEF Held, HeldList, Sound, HeldApart
<1>5. \A x \in ToSet(rest) : x.kind = o.kind => x.kind = "token"
  BY <1>2, <1>4, TailOnce
<1>6. ToSet(rest) \subseteq Objects /\ o \in Objects
  BY <1>3 DEF ToSet, Harmless
<1>7. \A x \in Held(r) :
         IF x.kind = "token" THEN x.name \in issued /\ ~TokenInUse(x.name, r)
         ELSE There(x) /\ ~InUse(x, r)
              /\ \A c \in cleanup : c.object = x => q.op = "retry" /\ c = q.record
  BY DEF Sound, HeldApart
<1>8. ASSUME q.op = "retry"
      PROVE  /\ q.record.object = o /\ rest = <<>> /\ ToSet(rest) = {}
             /\ o.kind # "token" => q.record.key = o.name
  <2>1. /\ q.todo = <<q.record.object>>
        /\ q.record.object.kind # "token" => q.record.key = q.record.object.name
    BY <1>8 DEF Sound, RequestSound, RemovalSound
  <2>2. Head(<<q.record.object>>) = q.record.object /\ Tail(<<q.record.object>>) = <<>>
    OBVIOUS
  <2>3. ToSet(<<>>) = {}
    BY DEF ToSet
  <2>4. QED
    BY <2>1, <2>2, <2>3
<1>9. QED
  BY <1>2, <1>3, <1>4, <1>5, <1>6, <1>7, <1>8
\* Records of the same id name the same object, unless it is a token.
LEMMA SameIdObject ==
    ASSUME NEW c, NEW d, SameId(c, d), c.object \in Objects, d.object \in Objects,
           c.object.kind # "token", c.key = c.object.name, d.key = d.object.name
    PROVE  c.object = d.object
<1>1. c.object.kind = d.object.kind /\ c.object.name = d.object.name
  BY DEF SameId
<1>2. c.object = Object(c.object.kind, c.object.name) /\ d.object = Object(d.object.kind, d.object.name)
  BY ObjectFields
<1>3. QED
  BY <1>1, <1>2

\* Use of objects and tokens follows the records of the profiles that are up.
LEMMA UseFollows ==
    ASSUME NEW r, \A x \in Profiles : Live(x, r)' <=> Live(x, r),
           \A x \in Profiles : Live(x, r) => cf'[x] = cf[x]
    PROVE  /\ \A o : InUse(o, r)' <=> InUse(o, r)
           /\ \A t : TokenInUse(t, r)' <=> TokenInUse(t, r)
  BY DEF InUse, Uses, TokenInUse, Known

\* A deletion that fails is owed from then on, or stays owed.
LEMMA OutcomeRaised ==
    ASSUME NEW r, Careful(r), Inv, Sound(r), Undoing(r), UNCHANGED remote,
           Outcome(r, Head(req[r].todo), TRUE)
    PROVE  Sound(r)'
<1> DEFINE q == req[r]
           o == Head(q.todo)
           rest == Tail(q.todo)
<1>1. /\ Held(r)' = ToSet(rest) /\ KindsOnce(HeldList(r))' /\ (~Undoing(r)' => Held(r)' = {})
      /\ (rest # <<>> => (req[r].op)' = q.op)
      /\ (\A x \in Profiles : Live(x, r)' <=> Live(x, r))
      /\ (\A x \in Profiles : Live(x, r) => cf'[x] = cf[x])
      /\ RecordsWhole' /\ RecordsApart' /\ RequestSound(r)'
      /\ forgotten' = forgotten
  BY OutcomeRecords
<1>2. /\ q.op \in {"provision", "remove", "delete", "retry"} /\ q.profile \in Profiles
      /\ o \in Objects /\ o \in Harmless /\ ToSet(rest) \subseteq Objects
      /\ Held(r) = {o} \cup ToSet(rest)
      /\ (\A x \in ToSet(rest) : x.kind = o.kind => x.kind = "token")
      /\ (\A x \in Held(r) :
           IF x.kind = "token" THEN x.name \in issued /\ ~TokenInUse(x.name, r)
           ELSE There(x) /\ ~InUse(x, r)
                /\ \A c \in cleanup : c.object = x => q.op = "retry" /\ c = q.record)
      /\ (q.op = "retry" =>
           /\ q.record.object = o /\ rest = <<>> /\ ToSet(rest) = {}
           /\ o.kind # "token" => q.record.key = o.name)
  BY HeadHeld
<1> HIDE DEF rest, o
<1>3. /\ route' = route /\ dns' = dns /\ app' = app /\ include' = include /\ tokens' = tokens
      /\ issued' = issued
  BY DEF remote
<1>4. /\ \A x : InUse(x, r)' <=> InUse(x, r)
      /\ \A t : TokenInUse(t, r)' <=> TokenInUse(t, r)
      /\ \A x : There(x)' <=> There(x)
  BY <1>1, <1>3, UseFollows DEF There
<1>5. LiveWorks(r)'
  BY <1>1, <1>3 DEF Sound, LiveWorks, Active
<1>6. GivenOut'
  BY <1>3 DEF Sound, GivenOut
<1>7. PendingApart(r) /\ AllAccounted(r)
  BY DEF Sound
<1>8. \A c \in cleanup : c.object \in Objects
  BY NamedObjects
<1>9. CASE q.op = "retry"
  <2> DEFINE d == q.record
  <2>1. d.object = o /\ ToSet(rest) = {} /\ (o.kind # "token" => d.key = o.name)
    BY <1>2, <1>9
  <2>2. cleanup' = IF \E c \in cleanup : SameId(c, d) THEN cleanup ELSE cleanup \cup {d}
    BY <1>9 DEF Outcome, Kept, o
  <2> HIDE DEF d
  <2>3. IF o.kind = "token" THEN o.name \in issued /\ ~TokenInUse(o.name, r)
        ELSE There(o) /\ ~InUse(o, r) /\ \A c \in cleanup : c.object = o => c = d
    BY <1>2 DEF d
  <2>4. PendingApart(r)'
    <3>1. SUFFICES ASSUME NEW c \in cleanup \cup {d}
                   PROVE  IF c.object.kind = "token"
                          THEN c.object.name \in issued /\ ~TokenInUse(c.object.name, r)
                          ELSE /\ c.key = c.object.name /\ There(c.object) /\ ~InUse(c.object, r)
                               /\ \A b \in cleanup \cup {d} : b.object = c.object => b = c
      BY <1>3, <1>4, <2>2 DEF PendingApart
    <3>2. CASE c = d
      BY <2>1, <2>3, <3>2
    <3>3. CASE c \in cleanup
      BY <1>7, <2>1, <2>3, <3>3 DEF PendingApart
    <3>4. QED
      BY <3>1, <3>2, <3>3
  <2>5. AllAccounted(r)'
    <3>1. SUFFICES ASSUME NEW x \in Objects, x.kind # "token", There(x)
                   PROVE  InUse(x, r) \/ Pending(x)' \/ x \in forgotten
      BY <1>1, <1>4 DEF AllAccounted
    <3>2. CASE x = o
      <4>1. CASE \E c \in cleanup : SameId(c, d)
        <5>1. PICK c \in cleanup : SameId(c, d)
          BY <4>1
        <5>2. c.object.kind # "token"
          BY <2>1, <3>1, <3>2, <5>1 DEF SameId
        <5>3. c.key = c.object.name
          BY <1>7, <5>2 DEF PendingApart
        <5>4. c.object = d.object
          BY <1>2, <1>8, <2>1, <3>1, <3>2, <5>1, <5>2, <5>3, SameIdObject
        <5>5. QED
          BY <2>1, <2>2, <3>2, <4>1, <5>4 DEF Pending
      <4>2. CASE ~\E c \in cleanup : SameId(c, d)
        BY <2>1, <2>2, <3>2, <4>2 DEF Pending
      <4>3. QED
        BY <4>1, <4>2
    <3>3. CASE x # o
      <4>1. InUse(x, r) \/ Pending(x) \/ x \in forgotten
        BY <1>2, <1>7, <2>1, <3>1, <3>3 DEF AllAccounted
      <4>2. QED
        BY <2>2, <4>1 DEF Pending
    <3>4. QED
      BY <3>2, <3>3
  <2>6. HeldApart(r)'
    BY <1>1, <2>1 DEF HeldApart
  <2>7. QED
    BY <1>1, <1>5, <1>6, <2>4, <2>5, <2>6 DEF Sound
<1>10. CASE q.op # "retry"
  <2> DEFINE d == Record(q.profile, o, q.host)
  <2>1. d.object = o /\ (o.kind # "token" => d.key = o.name)
    BY DEF Record, KeyOf
  <2>2. cleanup' = {c \in cleanup : ~SameId(c, d)} \cup {d}
    BY <1>10 DEF Outcome, Kept, Recorded, o
  <2> HIDE DEF d
  <2>3. IF o.kind = "token" THEN o.name \in issued /\ ~TokenInUse(o.name, r)
        ELSE There(o) /\ ~InUse(o, r) /\ \A c \in cleanup : c.object # o
    BY <1>2, <1>10
  <2>4. PendingApart(r)'
    <3>1. SUFFICES ASSUME NEW c \in cleanup \cup {d}
                   PROVE  IF c.object.kind = "token"
                          THEN c.object.name \in issued /\ ~TokenInUse(c.object.name, r)
                          ELSE /\ c.key = c.object.name /\ There(c.object) /\ ~InUse(c.object, r)
                               /\ \A b \in cleanup \cup {d} : b.object = c.object => b = c
      BY <1>3, <1>4, <2>2 DEF PendingApart
    <3>2. CASE c = d
      BY <2>1, <2>3, <3>2
    <3>3. CASE c \in cleanup
      BY <1>7, <2>1, <2>3, <3>3 DEF PendingApart
    <3>4. QED
      BY <3>1, <3>2, <3>3
  <2>5. AllAccounted(r)'
    <3>1. SUFFICES ASSUME NEW x \in Objects, x.kind # "token", There(x)
                   PROVE  InUse(x, r) \/ Pending(x)' \/ x \in ToSet(rest) \/ x \in forgotten
      BY <1>1, <1>4 DEF AllAccounted
    <3>2. CASE x = o
      BY <2>1, <2>2, <3>2 DEF Pending
    <3>3. CASE x # o /\ \E c \in cleanup : c.object = x
      <4>1. PICK c \in cleanup : c.object = x
        BY <3>3
      <4>2. ~SameId(c, d)
        <5>1. SUFFICES ASSUME SameId(c, d) PROVE FALSE
          OBVIOUS
        <5>2. c.key = c.object.name /\ o.kind # "token"
          BY <1>7, <2>1, <3>1, <4>1, <5>1 DEF PendingApart, SameId
        <5>3. c.object = d.object
          BY <1>2, <2>1, <3>1, <4>1, <5>1, <5>2, SameIdObject
        <5>4. QED
          BY <2>1, <3>3, <4>1, <5>3
      <4>3. QED
        BY <2>2, <4>1, <4>2 DEF Pending
    <3>4. CASE x # o /\ ~\E c \in cleanup : c.object = x
      BY <1>2, <1>7, <3>1, <3>4 DEF AllAccounted, Pending
    <3>5. QED
      BY <3>2, <3>3, <3>4
  <2>6. HeldApart(r)'
    <3>1. SUFFICES ASSUME NEW x \in ToSet(rest), Undoing(r)'
                   PROVE  IF x.kind = "token" THEN x.name \in issued /\ ~TokenInUse(x.name, r)
                          ELSE There(x) /\ ~InUse(x, r) /\ \A c \in cleanup' : c.object # x
      BY <1>1, <1>3, <1>4 DEF HeldApart
    <3>2. IF x.kind = "token" THEN x.name \in issued /\ ~TokenInUse(x.name, r)
          ELSE There(x) /\ ~InUse(x, r) /\ \A c \in cleanup : c.object # x
      BY <1>2, <1>10
    <3>3. x.kind # "token" => x # o
      BY <1>2
    <3>4. QED
      BY <2>1, <2>2, <3>2, <3>3
  <2>7. QED
    BY <1>1, <1>5, <1>6, <2>4, <2>5, <2>6 DEF Sound
<1>11. QED
  BY <1>9, <1>10

\* A deletion that succeeds takes its object and nothing else, and is not owed any more.
LEMMA OutcomeDone ==
    ASSUME NEW r, Careful(r), Inv, Sound(r), Undoing(r),
           Outcome(r, Head(req[r].todo), FALSE),
           \A x \in Objects : There(x)' <=> There(x) /\ x # Head(req[r].todo),
           LiveWorks(r)', GivenOut'
    PROVE  Sound(r)'
<1> DEFINE q == req[r]
           o == Head(q.todo)
           rest == Tail(q.todo)
<1>1. /\ Held(r)' = ToSet(rest) /\ KindsOnce(HeldList(r))' /\ (~Undoing(r)' => Held(r)' = {})
      /\ (\A x \in Profiles : Live(x, r)' <=> Live(x, r))
      /\ (\A x \in Profiles : Live(x, r) => cf'[x] = cf[x])
      /\ RecordsWhole' /\ RecordsApart' /\ RequestSound(r)'
      /\ issued' = issued /\ forgotten' = forgotten
  BY OutcomeRecords
<1>2. /\ o \in Objects /\ o \in Harmless /\ ToSet(rest) \subseteq Objects
      /\ Held(r) = {o} \cup ToSet(rest)
      /\ (\A x \in ToSet(rest) : x.kind = o.kind => x.kind = "token")
      /\ (\A x \in Held(r) :
           IF x.kind = "token" THEN x.name \in issued /\ ~TokenInUse(x.name, r)
           ELSE There(x) /\ ~InUse(x, r)
                /\ \A c \in cleanup : c.object = x => q.op = "retry" /\ c = q.record)
      /\ (q.op = "retry" =>
           /\ q.record.object = o /\ rest = <<>> /\ ToSet(rest) = {}
           /\ o.kind # "token" => q.record.key = o.name)
  BY HeadHeld
<1>3. \A x \in Objects : There(x)' <=> There(x) /\ x # o
  OBVIOUS
<1>4. cleanup' = IF q.op = "retry" THEN {c \in cleanup : ~SameId(c, q.record)} ELSE cleanup
  BY DEF Outcome, Cleaned
<1> HIDE DEF rest, o
<1>5. /\ \A x : InUse(x, r)' <=> InUse(x, r)
      /\ \A t : TokenInUse(t, r)' <=> TokenInUse(t, r)
  BY <1>1, UseFollows
<1>6. PendingApart(r) /\ AllAccounted(r)
  BY DEF Sound
<1>7. \A c \in cleanup : c.object \in Objects
  BY NamedObjects
<1>8. PendingApart(r)'
  <2>1. SUFFICES ASSUME NEW c \in cleanup, c \in cleanup', c.object.kind # "token"
                 PROVE  There(c.object)'
    BY <1>1, <1>4, <1>5, <1>6 DEF PendingApart
  <2>2. c.object # o
    <3>1. SUFFICES ASSUME c.object = o PROVE FALSE
      OBVIOUS
    <3>2. q.op = "retry" /\ c = q.record
      BY <1>2, <2>1, <3>1
    <3>3. QED
      BY <1>4, <2>1, <3>2 DEF SameId
  <2>3. QED
    BY <1>3, <1>6, <1>7, <2>1, <2>2 DEF PendingApart
<1>9. HeldApart(r)'
  <2>1. SUFFICES ASSUME NEW x \in ToSet(rest), Undoing(r)'
                 PROVE  IF x.kind = "token" THEN x.name \in issued /\ ~TokenInUse(x.name, r)
                        ELSE There(x)' /\ ~InUse(x, r) /\ \A c \in cleanup' : c.object # x
    BY <1>1, <1>5 DEF HeldApart
  <2>2. q.op # "retry"
    BY <1>2
  <2>3. x.kind # "token" => x # o /\ x \in Objects
    BY <1>2
  <2>4. QED
    BY <1>2, <1>3, <1>4, <2>2, <2>3
<1>10. AllAccounted(r)'
  <2>1. SUFFICES ASSUME NEW x \in Objects, x.kind # "token", There(x), x # o
                 PROVE  InUse(x, r) \/ Pending(x)' \/ x \in ToSet(rest) \/ x \in forgotten
    BY <1>1, <1>3, <1>5 DEF AllAccounted
  <2>2. InUse(x, r) \/ Pending(x) \/ x \in ToSet(rest) \/ x \in forgotten
    BY <1>2, <1>6, <2>1 DEF AllAccounted
  <2>3. ASSUME NEW c \in cleanup, c.object = x
        PROVE  c \in cleanup'
    <3>1. SUFFICES ASSUME q.op = "retry", SameId(c, q.record) PROVE FALSE
      BY <1>4
    <3>2. c.object.kind = o.kind /\ q.record.object = o
      BY <1>2, <3>1 DEF SameId
    <3>3. c.key = c.object.name /\ q.record.key = q.record.object.name
      BY <1>2, <1>6, <2>1, <2>3, <3>1, <3>2 DEF PendingApart
    <3>4. c.object = q.record.object
      BY <1>2, <2>1, <2>3, <3>1, <3>2, <3>3, SameIdObject
    <3>5. QED
      BY <2>1, <2>3, <3>2, <3>4
  <2>4. QED
    BY <2>2, <2>3 DEF Pending
<1>11. QED
  BY <1>1, <1>8, <1>9, <1>10 DEF Sound
\* What is deleted is in use nowhere, so what is in use stays: a route ...
LEMMA RemoveRouteSound ==
    ASSUME NEW r, Careful(r), Inv, Sound(r), RemoveRoute(r)
    PROVE  Sound(r)'
<1> DEFINE q == req[r]
           o == Head(q.todo)
<1>1. q.at = "removeRoute" /\ Undoing(r)
  BY DEF RemoveRoute, Undoing
<1>2. q.seen = route /\ o.kind = "route"
  BY <1>1 DEF Sound, RequestSound, RemovalSound
<1>3. o \in Objects /\ o \in Held(r) /\ o.name \in Hosts
  BY <1>1, <1>2, HeadHeld, ObjectFields
<1>4. There(o) /\ ~InUse(o, r)
  BY <1>2, <1>3 DEF Sound, HeldApart
<1>5. PICK a \in Answers :
        /\ route' = IF Applied(a) THEN [q.seen EXCEPT ![o.name] = None] ELSE route
        /\ Outcome(r, o, a # "ok")
  BY DEF RemoveRoute
<1>6. UNCHANGED <<dns, app, include, tokens>> /\ issued' = issued
  BY <1>5 DEF RemoveRoute, Outcome
<1>7. (a = "ok" /\ Applied(a)) \/ (a = "fails" /\ ~Applied(a))
  BY PlainAnswers
<1>8. CASE a = "fails"
  <2>1. route' = route /\ Outcome(r, o, TRUE)
    BY <1>5, <1>7, <1>8
  <2>2. QED
    BY <1>1, <1>6, <2>1, OutcomeRaised DEF remote
<1>9. CASE a = "ok"
  <2>1. route' = [route EXCEPT ![o.name] = None] /\ Outcome(r, o, FALSE)
    BY <1>2, <1>5, <1>7, <1>9
  <2>2. /\ (\A x \in Profiles : Live(x, r)' <=> Live(x, r))
        /\ (\A x \in Profiles : Live(x, r) => cf'[x] = cf[x])
    BY <1>1, <2>1, OutcomeRecords
  <2> HIDE DEF o
  <2>3. /\ route'[o.name] = None /\ \A h \in Hosts \ {o.name} : route'[h] = route[h]
    BY <1>3, <2>1 DEF Inv, RemoteOK
  <2>4. \A x \in Objects : There(x)' <=> There(x) /\ x # o
    <3>1. SUFFICES ASSUME NEW x \in Objects PROVE There(x)' <=> There(x) /\ x # o
      OBVIOUS
    <3>2. x = o <=> x.kind = "route" /\ x.name = o.name
      BY <1>2, <1>3, ObjectFields
    <3>3. x.kind = "route" => x.name \in Hosts
      BY ObjectFields
    <3>4. CASE x.kind = "route"
      BY <2>3, <3>2, <3>3, <3>4 DEF There
    <3>5. CASE x.kind # "route"
      BY <1>6, <3>2, <3>5 DEF There
    <3>6. QED
      BY <3>4, <3>5
  <2>5. LiveWorks(r)'
    <3>1. SUFFICES ASSUME NEW x \in Profiles, Live(x, r)
                   PROVE  /\ route'[cf[x].host] = x /\ cf[x].host \in dns
                          /\ app[cf[x].host] = cf[x].policy
                          /\ include[cf[x].policy] # {}
                          /\ include[cf[x].policy] \subseteq Active(cf[x])
                          /\ Active(cf[x]) \subseteq tokens
      BY <1>6, <2>2 DEF LiveWorks, Active
    <3>2. cf[x].host # o.name
      BY <1>2, <1>4, <3>1 DEF InUse, Uses
    <3>3. cf[x].host \in Hosts
      BY <3>1 DEF Live, Inv, LocalOK, OwnRecords, CloudflareRecords
    <3>4. route'[cf[x].host] = route[cf[x].host]
      BY <2>3, <3>2, <3>3
    <3>5. QED
      BY <3>1, <3>4 DEF Sound, LiveWorks
  <2>6. GivenOut'
    BY <1>6 DEF Sound, GivenOut
  <2>7. QED
    BY <1>1, <2>1, <2>4, <2>5, <2>6, OutcomeDone DEF o
<1>10. QED
  BY <1>7, <1>8, <1>9

\* ... and the objects of the other kinds.
LEMMA DeleteObjectSound ==
    ASSUME NEW r, Careful(r), Inv, Sound(r), DeleteObject(r)
    PROVE  Sound(r)'
<1> DEFINE q == req[r]
           o == Head(q.todo)
<1>1. q.at = "clean" /\ o.kind # "route" /\ Undoing(r) /\ route' = route
  BY DEF DeleteObject, Undoing
<1>2. o \in Objects /\ o \in Held(r) /\ o \in Harmless
  BY <1>1, HeadHeld
<1>3. IF o.kind = "token" THEN ~TokenInUse(o.name, r) ELSE There(o) /\ ~InUse(o, r)
  BY <1>2 DEF Sound, HeldApart
<1>4. PICK a \in Answers :
        /\ dns' = IF Applied(a) THEN {h \in dns : o # Object("dns", h)} ELSE dns
        /\ app' = IF Applied(a) THEN [h \in Hosts |-> IF o = Object("app", h) THEN None ELSE app[h]]
                  ELSE app
        /\ include' = IF Applied(a)
                      THEN [i \in Policies |-> IF o = Object("policy", i) THEN {} ELSE include[i]]
                      ELSE include
        /\ tokens' = IF Applied(a) THEN {t \in tokens : o # Object("token", t)} ELSE tokens
        /\ Outcome(r, o, a \in {"fails", "lost"})
  BY DEF DeleteObject
<1>5. (a = "ok" /\ Applied(a)) \/ (a = "fails" /\ ~Applied(a))
  BY PlainAnswers
<1>6. issued' = issued
  BY <1>4 DEF Outcome
<1>7. CASE a = "fails"
  <2>1. UNCHANGED <<dns, app, include, tokens>> /\ Outcome(r, o, TRUE)
    BY <1>4, <1>5, <1>7
  <2>2. QED
    BY <1>1, <1>6, <2>1, OutcomeRaised DEF remote
<1>8. CASE a = "ok"
  <2>1. Outcome(r, o, FALSE)
    <3>1. (a \in {"fails", "lost"}) = FALSE
      BY <1>8
    <3>2. QED
      BY <1>4, <3>1
  <2>2. /\ (\A x \in Profiles : Live(x, r)' <=> Live(x, r))
        /\ (\A x \in Profiles : Live(x, r) => cf'[x] = cf[x])
    BY <1>1, <2>1, OutcomeRecords
  <2>3. \A k, n : o = Object(k, n) <=> o.kind = k /\ o.name = n
    BY <1>2 DEF Objects, Object
  <2> HIDE DEF o
  <2>4. /\ dns' = {h \in dns : ~(o.kind = "dns" /\ o.name = h)}
        /\ app' = [h \in Hosts |-> IF o.kind = "app" /\ o.name = h THEN None ELSE app[h]]
        /\ include' = [i \in Policies |-> IF o.kind = "policy" /\ o.name = i THEN {} ELSE include[i]]
        /\ tokens' = {t \in tokens : ~(o.kind = "token" /\ o.name = t)}
    BY <1>4, <1>5, <1>8, <2>3
  <2>5. \A x \in Objects : There(x)' <=> There(x) /\ x # o
    <3>1. SUFFICES ASSUME NEW x \in Objects PROVE There(x)' <=> There(x) /\ x # o
      OBVIOUS
    <3>2. x = o <=> x.kind = o.kind /\ x.name = o.name
      BY <1>2, ObjectFields
    <3>3. /\ x.kind \in {"route", "dns", "app", "policy", "token"}
          /\ x.kind \in {"route", "dns", "app"} => x.name \in Hosts
          /\ x.kind = "policy" => x.name \in Policies
      BY ObjectFields
    <3>4. CASE x.kind = "route"
      BY <1>1, <3>2, <3>4 DEF There
    <3>5. CASE x.kind = "dns"
      BY <2>4, <3>2, <3>5 DEF There
    <3>6. CASE x.kind = "app"
      <4>1. app'[x.name] = IF o.kind = "app" /\ o.name = x.name THEN None ELSE app[x.name]
        BY <2>4, <3>3, <3>6
      <4>2. QED
        BY <3>2, <3>6, <4>1 DEF There
    <3>7. CASE x.kind = "policy"
      <4>1. include'[x.name] = IF o.kind = "policy" /\ o.name = x.name THEN {} ELSE include[x.name]
        BY <2>4, <3>3, <3>7
      <4>2. QED
        BY <3>2, <3>7, <4>1 DEF There
    <3>8. CASE x.kind = "token"
      BY <2>4, <3>2, <3>8 DEF There
    <3>9. QED
      BY <3>3, <3>4, <3>5, <3>6, <3>7, <3>8
  <2>6. LiveWorks(r)'
    <3>1. SUFFICES ASSUME NEW x \in Profiles, Live(x, r)
                   PROVE  /\ route[cf[x].host] = x /\ cf[x].host \in dns'
                          /\ app'[cf[x].host] = cf[x].policy
                          /\ include'[cf[x].policy] # {}
                          /\ include'[cf[x].policy] \subseteq Active(cf[x])
                          /\ Active(cf[x]) \subseteq tokens'
      BY <1>1, <2>2 DEF LiveWorks, Active
    <3>2. /\ o.kind \in {"dns", "app"} => cf[x].host # o.name
          /\ o.kind = "policy" => cf[x].policy # o.name
      BY <1>3, <3>1 DEF InUse, Uses
    <3>3. o.kind = "token" => o.name \notin Active(cf[x])
      BY <1>3, <3>1 DEF TokenInUse, Known, Active
    <3>4. cf[x].host \in Hosts /\ cf[x].policy \in Policies
      BY <3>1 DEF Live, Inv, LocalOK, OwnRecords, CloudflareRecords, Sound, RecordsWhole
    <3>5. app'[cf[x].host] = app[cf[x].host] /\ include'[cf[x].policy] = include[cf[x].policy]
      BY <2>4, <3>2, <3>4
    <3>6. route[cf[x].host] = x /\ cf[x].host \in dns /\ app[cf[x].host] = cf[x].policy
          /\ include[cf[x].policy] # {} /\ include[cf[x].policy] \subseteq Active(cf[x])
          /\ Active(cf[x]) \subseteq tokens
      BY <3>1 DEF Sound, LiveWorks
    <3>7. cf[x].host \in dns' /\ Active(cf[x]) \subseteq tokens'
      BY <2>4, <3>2, <3>3, <3>6
    <3>8. QED
      BY <3>5, <3>6, <3>7
  <2>7. GivenOut'
    <3>1. o.kind = "token" => o.name \notin ExternalTokens
      BY <1>2, ExposureAssumption DEF Harmless
    <3>2. ExternalTokens \subseteq tokens'
      BY <2>4, <3>1 DEF Sound, GivenOut
    <3>3. \A i \in Policies : include'[i] # {} => include[i] # {}
      BY <2>4
    <3>4. QED
      BY <1>6, <3>2, <3>3 DEF Sound, GivenOut
  <2>8. QED
    BY <1>1, <2>1, <2>5, <2>6, <2>7, OutcomeDone DEF o
<1>9. QED
  BY <1>5, <1>7, <1>8

\* Reading the configuration before a removal, or failing to.
LEMMA ReadForRemovalSound ==
    ASSUME NEW r, Careful(r), Inv, Sound(r), ReadForRemoval(r)
    PROVE  Sound(r)'
<1> DEFINE q == req[r]
           o == Head(q.todo)
<1>1. q.at = "clean" /\ o.kind = "route" /\ Undoing(r) /\ UNCHANGED remote
  BY DEF ReadForRemoval, Undoing
<1>2. CASE Outcome(r, o, TRUE)
  BY <1>1, <1>2, OutcomeRaised
<1>3. CASE ~Outcome(r, o, TRUE)
  <2>1. req' = [req EXCEPT ![r].at = "removeRoute", ![r].seen = route] /\ UNCHANGED local
    BY <1>3 DEF ReadForRemoval
  <2>2. req' = [req EXCEPT ![r] = [req[r] EXCEPT !.at = "removeRoute", !.seen = route]]
    BY <2>1, RequestTypes DEF Inv, RequestsOK, RequestRecords
  <2>3. QED
    BY <1>1, <2>1, <2>2, ReadRemovalSound
<1>4. QED
  BY <1>2, <1>3
-----------------------------------------------------------------------------
(* Tokens of an exposed profile.                                           *)

\* What a token request knows.
LEMMA TokenKnows ==
    ASSUME NEW r, Careful(r), Inv, Sound(r), req[r].op \in {"generate", "rotate", "retire"}
    PROVE  LET q == req[r]  p == q.profile IN
           /\ p \in Profiles /\ p \in profiles /\ cf[p].host # None /\ q.policy = cf[p].policy
           /\ q.policy \in Policies /\ cf[p] \in OwnRecords
           /\ ~Undoing(r) /\ Held(r) = {} /\ HeldList(r) = <<>>
           /\ \A x \in Profiles : Live(x, r) <=> cf[x].host # None
           /\ route[cf[p].host] = p /\ cf[p].host \in dns /\ app[cf[p].host] = cf[p].policy
           /\ include[q.policy] # {} /\ include[q.policy] \subseteq Active(cf[p])
           /\ Active(cf[p]) \subseteq tokens
           /\ \A x \in Profiles \ {p} : cf[x].policy # cf[p].policy
<1> DEFINE q == req[r]
           p == q.profile
<1>1. p \in Profiles
  BY RequestTypes DEF Prepared
<1>2. cf[p].host # None /\ q.policy = cf[p].policy
  BY DEF Sound, RequestSound, TokenSound
<1>3. p \in profiles /\ q.policy \in Policies
  BY <1>1, <1>2 DEF Sound, RecordsWhole
<1>4. ~Undoing(r) /\ Held(r) = {} /\ HeldList(r) = <<>>
  BY HoldsNothing
<1>5. \A x \in Profiles : Live(x, r) <=> cf[x].host # None
  BY DEF Live
<1>6. /\ route[cf[p].host] = p /\ cf[p].host \in dns /\ app[cf[p].host] = cf[p].policy
      /\ include[cf[p].policy] # {} /\ include[cf[p].policy] \subseteq Active(cf[p])
      /\ Active(cf[p]) \subseteq tokens
  BY <1>1, <1>2, <1>5 DEF Sound, LiveWorks
<1>7. \A x \in Profiles \ {p} : cf[x].policy # cf[p].policy
  BY <1>1, <1>2, <1>3, NoneApart DEF Sound, RecordsApart
<1>8. cf[p] \in OwnRecords
  BY <1>1 DEF Inv, LocalOK
<1>9. QED
  BY <1>1, <1>2, <1>3, <1>4, <1>5, <1>6, <1>7, <1>8

\* A request writes the record of its profile back, with other tokens.
LEMMA SavedSound ==
    ASSUME NEW r, Careful(r), Inv, Sound(r), req[r].op \in {"generate", "rotate", "retire"},
           req' = [req EXCEPT ![r] = Idle],
           NEW p, p = req[r].profile, NEW c, cf' = [cf EXCEPT ![p] = c],
           c.host = cf[p].host, c.policy = cf[p].policy,
           UNCHANGED <<route, dns, app, issued, profiles, wish, cleanup, forgotten>>,
           Known(c) \cap OwnedTokens \subseteq issued,
           \A t \in Known(c) \ Known(cf[p]) :
               ~TokenPending(t) /\ \A x \in Profiles : t \notin Known(cf[x]),
           include'[c.policy] # {}, include'[c.policy] \subseteq Active(c),
           \A i \in Policies \ {c.policy} : include'[i] = include[i],
           Active(c) \subseteq tokens', ExternalTokens \subseteq tokens',
           \A x \in Profiles \ {p} : Active(cf[x]) \cap tokens \subseteq tokens'
    PROVE  Sound(r)'
<1>1. /\ p \in Profiles /\ p \in profiles /\ cf[p].host # None
      /\ c.policy \in Policies /\ Held(r) = {}
      /\ (\A x \in Profiles : Live(x, r) <=> cf[x].host # None)
      /\ route[cf[p].host] = p /\ cf[p].host \in dns /\ app[cf[p].host] = cf[p].policy
      /\ include[c.policy] # {}
      /\ \A x \in Profiles \ {p} : cf[x].policy # c.policy
  BY TokenKnows
<1>2. req'[r] = Idle /\ req'[r].op = "none"
  BY RequestTypes DEF Idle
<1>3. RequestSound(r)' /\ ~Undoing(r)' /\ Held(r)' = {} /\ KindsOnce(HeldList(r))'
  BY <1>2, IdleNext
<1>4. cf'[p] = c /\ \A x \in Profiles \ {p} : cf'[x] = cf[x]
  BY <1>1 DEF Inv, LocalOK
<1>5. \A x \in Profiles : cf'[x].host = cf[x].host /\ cf'[x].policy = cf[x].policy
  BY <1>4
<1>6. \A x \in Profiles : Live(x, r)' <=> Live(x, r)
  BY <1>1, <1>2, <1>5 DEF Live
<1>7. \A o : InUse(o, r)' <=> InUse(o, r)
  BY <1>5, <1>6 DEF InUse, Uses
<1>8. \A t : TokenInUse(t, r)' => TokenInUse(t, r) \/ ~TokenPending(t)
  <2>1. SUFFICES ASSUME NEW t, NEW x \in Profiles, Live(x, r), t \in Known(cf'[x])
                 PROVE  TokenInUse(t, r) \/ ~TokenPending(t)
    BY <1>6 DEF TokenInUse, Known
  <2>2. CASE t \in Known(cf[x])
    BY <2>1, <2>2 DEF TokenInUse
  <2>3. CASE t \notin Known(cf[x])
    BY <1>4, <2>1, <2>3
  <2>4. QED
    BY <2>2, <2>3
<1>9. \A o \in Objects : o.kind # "token" => (There(o)' <=> There(o))
  <2>1. \A i \in Policies : include'[i] # {} <=> include[i] # {}
    BY <1>1
  <2>2. SUFFICES ASSUME NEW o \in Objects, o.kind # "token" PROVE There(o)' <=> There(o)
    OBVIOUS
  <2>3. o.kind = "policy" => o.name \in Policies
    BY ObjectFields
  <2>4. QED
    BY <2>1, <2>2, <2>3 DEF There
<1>10. RecordsWhole'
  <2>1. RecordsWhole
    BY DEF Sound
  <2>2. SUFFICES ASSUME NEW x \in Profiles
                 PROVE  /\ wish[x] = cf'[x].host
                        /\ cf'[x].host = None => cf'[x] = NoCloudflare
                        /\ cf'[x].host # None => x \in profiles /\ cf'[x].policy \in Policies \cap issued
                        /\ Known(cf'[x]) \cap OwnedTokens \subseteq issued
    BY DEF RecordsWhole, Known
  <2>3. CASE x = p
    BY <1>1, <1>4, <2>1, <2>3 DEF RecordsWhole
  <2>4. CASE x # p
    BY <1>4, <2>1, <2>4 DEF RecordsWhole
  <2>5. QED
    BY <2>3, <2>4
<1>11. RecordsApart'
  <2>1. RecordsApart
    BY DEF Sound
  <2>2. SUFFICES ASSUME NEW x \in Profiles, NEW y \in Profiles, x # y
                 PROVE  /\ cf'[x].host # None => cf'[x].host # cf'[y].host
                        /\ cf'[x].policy # None => cf'[x].policy # cf'[y].policy
                        /\ Known(cf'[x]) \cap Known(cf'[y]) \cap OwnedTokens = {}
    BY DEF RecordsApart, Known
  <2>3. /\ cf'[x].host # None => cf'[x].host # cf'[y].host
        /\ cf'[x].policy # None => cf'[x].policy # cf'[y].policy
    BY <1>5, <2>1, <2>2 DEF RecordsApart
  <2>4. Known(cf[x]) \cap Known(cf[y]) \cap OwnedTokens = {}
    BY <2>1, <2>2 DEF RecordsApart
  <2>5. CASE x = p
    BY <1>4, <2>2, <2>3, <2>4, <2>5
  <2>6. CASE y = p
    BY <1>4, <2>2, <2>3, <2>4, <2>6
  <2>7. CASE x # p /\ y # p
    BY <1>4, <2>3, <2>4, <2>7
  <2>8. QED
    BY <2>5, <2>6, <2>7
<1>12. LiveWorks(r)'
  <2>1. SUFFICES ASSUME NEW x \in Profiles, Live(x, r)
                 PROVE  /\ route[cf'[x].host] = x /\ cf'[x].host \in dns
                        /\ app[cf'[x].host] = cf'[x].policy
                        /\ include'[cf'[x].policy] # {}
                        /\ include'[cf'[x].policy] \subseteq Active(cf'[x])
                        /\ Active(cf'[x]) \subseteq tokens'
    BY <1>6, SMTT(60) DEF LiveWorks, Active
  <2>2. CASE x = p
    BY <1>1, <1>4, <2>2
  <2>3. CASE x # p
    <3>1. /\ route[cf[x].host] = x /\ cf[x].host \in dns /\ app[cf[x].host] = cf[x].policy
          /\ include[cf[x].policy] # {} /\ include[cf[x].policy] \subseteq Active(cf[x])
          /\ Active(cf[x]) \subseteq tokens
      BY <2>1 DEF Sound, LiveWorks
    <3>2. cf[x].policy \in Policies
      BY <1>1, <2>1 DEF Sound, RecordsWhole
    <3>3. include'[cf[x].policy] = include[cf[x].policy]
      BY <1>1, <2>3, <3>2
    <3>4. QED
      BY <1>4, <2>3, <3>1, <3>3
  <2>4. QED
    BY <2>2, <2>3
<1>13. PendingApart(r)'
  <2>1. SUFFICES ASSUME NEW d \in cleanup
                 PROVE  IF d.object.kind = "token"
                        THEN d.object.name \in issued /\ ~TokenInUse(d.object.name, r)'
                        ELSE /\ d.key = d.object.name /\ There(d.object)' /\ ~InUse(d.object, r)
                             /\ \A b \in cleanup : b.object = d.object => b = d
    BY <1>7 DEF PendingApart
  <2>2. d.object \in Objects
    BY NamedObjects
  <2>3. d.object.kind = "token" => TokenPending(d.object.name)
    BY DEF TokenPending
  <2>4. QED
    BY <1>8, <1>9, <2>2, <2>3 DEF Sound, PendingApart
<1>14. HeldApart(r)'
  BY <1>3 DEF HeldApart
<1>15. AllAccounted(r)'
  BY <1>1, <1>7, <1>9 DEF Sound, AllAccounted, Pending
<1>16. GivenOut'
  <2>1. \A i \in Policies : include'[i] # {} => include[i] # {}
    BY <1>1
  <2>2. QED
    BY <2>1 DEF Sound, GivenOut
<1>17. QED
  BY <1>3, <1>10, <1>11, <1>12, <1>13, <1>14, <1>15, <1>16 DEF Sound
\* A token is generated: no record has it yet but the copy of the request.
LEMMA GenerateTokenSound ==
    ASSUME NEW r, Careful(r), Inv, Sound(r), GenerateToken(r)
    PROVE  Sound(r)'
<1> DEFINE q == req[r]
           p == q.profile
           n == [q EXCEPT !.at = "policy", !.token = NextToken,
                    !.cf.state[NextToken] = "active", !.cf.owned = @ \cup {NextToken}]
<1>1. q \in RequestRecords /\ Prepared(q) /\ DOMAIN req = {r}
  BY RequestTypes
<1>2. q.op = "generate" /\ q.at = "call" /\ q.made = <<>>
  BY <1>1 DEF GenerateToken, At, Prepared
<1>3. /\ p \in Profiles /\ cf[p].host # None /\ q.policy = cf[p].policy
      /\ cf[p] \in OwnRecords /\ ~Undoing(r) /\ Held(r) = {} /\ HeldList(r) = <<>>
      /\ \A x \in Profiles : Live(x, r) <=> cf[x].host # None
  BY <1>2, TokenKnows
<1>4. q.cf = cf[p]
  BY <1>2 DEF Sound, RequestSound, TokenSound
<1>5. UNCHANGED <<route, dns, app, include, local>> /\ OwnedTokens \ issued # {}
  BY DEF GenerateToken, CreateToken
<1>6. CASE tokens' = tokens /\ issued' = issued /\ req' = [req EXCEPT ![r] = Raised(r)]
  BY <1>2, <1>3, <1>5, <1>6, RaisedSound DEF remote
<1>7. CASE /\ tokens' = tokens \cup {NextToken} /\ issued' = issued \cup {NextToken}
           /\ req' = [req EXCEPT ![r] = n]
  <2>1. PICK t \in OwnedTokens \ issued : t = NextToken
    BY <1>5, NextTokenNew
  <2> DEFINE c == WithToken(cf[p], t)
  <2>2. req'[r] = n
    BY <1>1, <1>7
  <2>3. n = [q EXCEPT !.at = "policy", !.token = t, !.cf = c]
    BY <1>1, <1>4, <2>1 DEF RequestRecords, OwnRecords, CloudflareRecords, WithToken
  <2> HIDE DEF c, n
  <2>4. /\ req'[r].op = "generate" /\ req'[r].at = "policy" /\ req'[r].profile = p
        /\ req'[r].token = t /\ req'[r].cf = c /\ req'[r].policy = q.policy
        /\ req'[r].made = <<>>
    BY <1>1, <1>2, <2>2, <2>3 DEF RequestRecords
  <2>5. tokens' = tokens \cup {t} /\ issued' = issued \cup {t}
    BY <1>7, <2>1
  <2>6. /\ cf' = cf /\ profiles' = profiles /\ wish' = wish /\ cleanup' = cleanup
        /\ forgotten' = forgotten
    BY <1>5 DEF local
  <2>7. ~Undoing(r)' /\ HeldList(r)' = <<>> /\ Held(r)' = {} /\ KindsOnce(HeldList(r))'
    <3>1. ~Undoing(r)' /\ HeldList(r)' = <<>>
      BY <2>4 DEF Undoing, HeldList
    <3>2. QED
      BY <3>1 DEF Held, ToSet, KindsOnce
  <2>8. \A x \in Profiles : Live(x, r)' <=> Live(x, r)
    BY <1>3, <2>4, <2>6 DEF Live
  <2>9. /\ \A o : InUse(o, r)' <=> InUse(o, r)
        /\ \A u : TokenInUse(u, r)' <=> TokenInUse(u, r)
    BY <2>6, <2>8, UseFollows
  <2>10. \A o : o.kind # "token" => (There(o)' <=> There(o))
    BY <1>5 DEF There
  <2>11. RecordsWhole' /\ RecordsApart'
    BY <2>5, <2>6 DEF Sound, RecordsWhole, RecordsApart, Known
  <2>12. LiveWorks(r)'
    BY <1>5, <2>5, <2>6, <2>8 DEF Sound, LiveWorks, Active
  <2>13. PendingApart(r)'
    <3>1. PendingApart(r)
      BY DEF Sound
    <3>2. QED
      BY <2>5, <2>6, <2>9, <2>10, <3>1 DEF PendingApart
  <2>14. HeldApart(r)'
    BY <2>7 DEF HeldApart
  <2>15. AllAccounted(r)'
    BY <1>3, <2>6, <2>9, <2>10 DEF Sound, AllAccounted, Pending
  <2>16. GivenOut'
    BY <1>5, <2>5 DEF Sound, GivenOut
  <2>17. RequestSound(r)'
    <3>1. ~TokenPending(t)'
      <4>1. \A d \in cleanup : d.object.kind = "token" => d.object.name # t
        BY <2>1 DEF Sound, PendingApart
      <4>2. QED
        BY <2>6, <4>1 DEF TokenPending
    <3>2. \A x \in Profiles : t \notin Known(cf[x])
      BY <2>1 DEF Sound, RecordsWhole
    <3>3. \A x \in Profiles : t \notin Known(cf[x])'
      BY <2>6, <3>2 DEF Known
    <3>4. t \in OwnedTokens /\ t \in issued' /\ t \in tokens'
      BY <2>1, <2>5
    <3>5. req'[r].cf = WithToken(cf'[p], t)
      BY <2>4, <2>6 DEF c
    <3>6. TokenSound(r)'
      BY <1>3, <2>4, <2>6, <3>1, <3>3, <3>4, <3>5 DEF TokenSound
    <3>7. QED
      BY <2>4, <3>6 DEF RequestSound, Positions, ProvisionSound, RemovalSound
  <2>18. QED
    BY <2>11, <2>12, <2>13, <2>14, <2>15, <2>16, <2>17 DEF Sound
<1>8. QED
  <2>1. PICK a \in Answers :
          /\ tokens' = IF Applied(a) THEN tokens \cup {NextToken} ELSE tokens
          /\ issued' = IF Applied(a) THEN issued \cup {NextToken} ELSE issued
          /\ req' = [req EXCEPT ![r] = IF a = "ok" THEN n ELSE Raised(r)]
    BY DEF GenerateToken, CreateToken
  <2>2. (a = "ok" /\ Applied(a)) \/ (a = "fails" /\ ~Applied(a))
    BY PlainAnswers
  <2>3. QED
    BY <1>6, <1>7, <2>1, <2>2

\* A record that is given a token.
LEMMA WithTokenTokens ==
    ASSUME NEW c \in CloudflareRecords, NEW t \in Tokens
    PROVE  LET d == WithToken(c, t) IN
           /\ d.host = c.host /\ d.policy = c.policy
           /\ Known(d) = Known(c) \cup {t} /\ Active(d) = Active(c) \cup {t}
<1> DEFINE states == [c.state EXCEPT ![t] = "active"]
           d == WithToken(c, t)
<1>1. d = [c EXCEPT !.state = states, !.owned = c.owned \cup {t}]
  BY DEF CloudflareRecords, WithToken
<1> HIDE DEF d
<1>2. d.state = states /\ d.host = c.host /\ d.policy = c.policy
  BY <1>1 DEF CloudflareRecords
<1>3. \A u \in Tokens : states[u] = IF u = t THEN "active" ELSE c.state[u]
  BY DEF CloudflareRecords
<1>4. \A u : u \in Known(d) <=> u \in Tokens /\ (u = t \/ c.state[u] # "none")
  BY <1>2, <1>3 DEF Known
<1>5. \A u : u \in Active(d) <=> u \in Tokens /\ (u = t \/ c.state[u] = "active")
  BY <1>2, <1>3 DEF Active
<1>6. Known(d) = Known(c) \cup {t} /\ Active(d) = Active(c) \cup {t}
  BY <1>4, <1>5 DEF Known, Active
<1>7. QED
  BY <1>2, <1>6 DEF d

\* A record whose token is retired.
LEMMA WithRetiredTokens ==
    ASSUME NEW c \in CloudflareRecords, NEW t \in Tokens
    PROVE  LET d == WithRetired(c, t) IN
           /\ d.host = c.host /\ d.policy = c.policy
           /\ Known(d) = Known(c) \cup {t} /\ Active(d) = Active(c) \ {t}
<1> DEFINE states == [c.state EXCEPT ![t] = "retired"]
           d == WithRetired(c, t)
<1>1. d = [c EXCEPT !.state = states]
  BY DEF CloudflareRecords, WithRetired
<1> HIDE DEF d
<1>2. d.state = states /\ d.host = c.host /\ d.policy = c.policy
  BY <1>1 DEF CloudflareRecords
<1>3. \A u \in Tokens : states[u] = IF u = t THEN "retired" ELSE c.state[u]
  BY DEF CloudflareRecords
<1>4. \A u : u \in Known(d) <=> u \in Tokens /\ (u = t \/ c.state[u] # "none")
  BY <1>2, <1>3 DEF Known
<1>5. \A u : u \in Active(d) <=> u \in Tokens /\ u # t /\ c.state[u] = "active"
  BY <1>2, <1>3 DEF Active
<1>6. Known(d) = Known(c) \cup {t} /\ Active(d) = Active(c) \ {t}
  BY <1>4, <1>5 DEF Known, Active
<1>7. QED
  BY <1>2, <1>6 DEF d
\* A policy that exists is given the tokens of a call that is answered.
LEMMA AdmitsEffect ==
    ASSUME Inv, NEW i \in Policies, include[i] # {}, NEW admitted, NEW a, Applied(a),
           Admits(i, admitted, a)
    PROVE  include'[i] = admitted /\ \A j \in Policies \ {i} : include'[j] = include[j]
  BY DEF Admits, Inv, RemoteOK

\* The generated token is admitted with the active ones, and recorded.
LEMMA GenerateAdmitSound ==
    ASSUME NEW r, Careful(r), Inv, Sound(r), GenerateAdmit(r)
    PROVE  Sound(r)'
<1> DEFINE q == req[r]
           c == q.cf
           i == q.policy
<1>1. q.op = "generate" /\ q.at = "policy"
  BY DEF GenerateAdmit, At
<1>2. PICK p : p = q.profile
  OBVIOUS
<1>3. /\ p \in Profiles /\ p \in profiles /\ cf[p].host # None /\ i = cf[p].policy
      /\ i \in Policies /\ cf[p] \in OwnRecords /\ include[i] # {}
      /\ Active(cf[p]) \subseteq tokens /\ \A x \in Profiles \ {p} : cf[x].policy # i
  BY <1>1, <1>2, TokenKnows
<1>4. PICK t : t = q.token
  OBVIOUS
<1>5. /\ t \in OwnedTokens \cap issued \cap tokens /\ ~TokenPending(t)
      /\ \A o \in Profiles : t \notin Known(cf[o])
      /\ c = WithToken(cf[p], t)
  BY <1>1, <1>2, <1>4 DEF Sound, RequestSound, TokenSound
<1>6. /\ c.host = cf[p].host /\ c.policy = i /\ Known(c) = Known(cf[p]) \cup {t}
      /\ Active(c) = Active(cf[p]) \cup {t}
  <2>1. t \in Tokens /\ cf[p] \in CloudflareRecords
    BY <1>3, <1>5 DEF Tokens, OwnRecords
  <2>2. QED
    BY <1>3, <1>5, <2>1, WithTokenTokens
<1> HIDE DEF c, i
<1>7. UNCHANGED <<route, dns, app, tokens, issued>>
  BY DEF GenerateAdmit
<1>8. PICK a \in Answers : /\ Admits(i, Active(c), a)
                           /\ IF a = "ok" /\ include[i] # {} THEN Save(r) ELSE GiveUp(r)
  BY DEF GenerateAdmit, c, i
<1>9. (a = "ok" /\ Applied(a)) \/ (a = "fails" /\ ~Applied(a))
  BY PlainAnswers
<1>10. CASE a = "fails"
  <2>1. include' = include /\ UNCHANGED local /\ req' = [req EXCEPT ![r] = Idle]
    BY <1>8, <1>9, <1>10 DEF Admits, GiveUp
  <2>2. QED
    BY <1>1, <1>7, <2>1, GiveUpSound DEF remote
<1>11. CASE a = "ok"
  <2>1. Save(r) /\ include'[i] = Active(c) /\ \A j \in Policies \ {i} : include'[j] = include[j]
    BY <1>3, <1>8, <1>9, <1>11, AdmitsEffect
  <2>2. /\ cf' = [cf EXCEPT ![p] = c] /\ req' = [req EXCEPT ![r] = Idle]
        /\ UNCHANGED <<profiles, wish, cleanup, forgotten>>
    BY <1>2, <1>3, <2>1 DEF Save, Stored, c
  <2>3. Known(c) \cap OwnedTokens \subseteq issued
    BY <1>3, <1>5, <1>6 DEF Sound, RecordsWhole
  <2>4. ExternalTokens \subseteq tokens' /\ \A x \in Profiles \ {p} : Active(cf[x]) \cap tokens \subseteq tokens'
    BY <1>7 DEF Sound, GivenOut
  <2>5. \A u \in Known(c) \ Known(cf[p]) : ~TokenPending(u) /\ \A x \in Profiles : u \notin Known(cf[x])
    BY <1>5, <1>6
  <2>6. /\ include'[c.policy] # {} /\ include'[c.policy] \subseteq Active(c)
        /\ \A j \in Policies \ {c.policy} : include'[j] = include[j]
    BY <1>6, <2>1
  <2>7. Active(c) \subseteq tokens'
    BY <1>3, <1>5, <1>6, <1>7
  <2>8. c.host = cf[p].host /\ c.policy = cf[p].policy
    BY <1>3, <1>6
  <2>9. UNCHANGED <<route, dns, app, issued, profiles, wish, cleanup, forgotten>>
    BY <1>7, <2>2
  <2>10. QED
    BY <1>1, <1>2, <2>2, <2>3, <2>4, <2>5, <2>6, <2>7, <2>8, <2>9, SavedSound
<1>12. QED
  BY <1>9, <1>10, <1>11

\* A token that is retired is admitted no more; another one is.
LEMMA RetireAdmitSound ==
    ASSUME NEW r, Careful(r), Inv, Sound(r), RetireAdmit(r)
    PROVE  Sound(r)'
<1> DEFINE q == req[r]
           i == q.policy
<1>1. q \in RequestRecords /\ Prepared(q) /\ DOMAIN req = {r} /\ q.op = "retire" /\ q.at = "call"
      /\ q.made = <<>>
  BY RequestTypes DEF RetireAdmit, At, Prepared
<1>2. PICK p : p = q.profile
  OBVIOUS
<1>3. /\ p \in Profiles /\ p \in profiles /\ cf[p].host # None /\ i = cf[p].policy
      /\ i \in Policies /\ cf[p] \in OwnRecords /\ include[i] # {}
      /\ Active(cf[p]) \subseteq tokens /\ (\A x \in Profiles \ {p} : cf[x].policy # i)
      /\ Held(r) = {} /\ \A x \in Profiles : Live(x, r) <=> cf[x].host # None
  BY <1>1, <1>2, TokenKnows
<1>4. PICK t : t = q.token
  OBVIOUS
<1>5. /\ t \in Known(cf[p]) /\ OtherActive(cf[p], t) # {} /\ q.cf = cf[p] /\ t \in Tokens
  BY <1>1, <1>2, <1>4 DEF Sound, RequestSound, TokenSound, Known
<1> DEFINE c == WithRetired(cf[p], t)
<1>6. /\ c.host = cf[p].host /\ c.policy = i /\ Known(c) = Known(cf[p])
      /\ Active(c) = OtherActive(cf[p], t)
  <2>1. cf[p] \in CloudflareRecords
    BY <1>3 DEF OwnRecords
  <2>2. QED
    BY <1>3, <1>5, <2>1, WithRetiredTokens, SMTT(60) DEF OtherActive
<1>7. [q.cf EXCEPT !.state[q.token] = "retired"] = c
  BY <1>4, <1>5 DEF WithRetired
<1> HIDE DEF c, i
<1>8. UNCHANGED <<route, dns, app, tokens, issued>>
  BY DEF RetireAdmit
<1>9. PICK a \in Answers :
        /\ Admits(i, OtherActive(cf[p], t), a)
        /\ IF a # "ok" \/ include[i] = {} THEN GiveUp(r)
           ELSE IF q.discard /\ t \in q.cf.owned
           THEN /\ req' = [req EXCEPT ![r].at = "delete", ![r].cf = c]
                /\ UNCHANGED local
           ELSE /\ cf' = Stored(p, c)
                /\ req' = [req EXCEPT ![r] = Idle]
                /\ UNCHANGED <<profiles, wish, cleanup, forgotten>>
  BY <1>2, <1>4, <1>5, <1>7 DEF RetireAdmit, i
<1>10. (a = "ok" /\ Applied(a)) \/ (a = "fails" /\ ~Applied(a))
  BY PlainAnswers
<1>11. CASE a = "fails"
  <2>1. include' = include /\ UNCHANGED local /\ req' = [req EXCEPT ![r] = Idle]
    BY <1>9, <1>10, <1>11 DEF Admits, GiveUp
  <2>2. QED
    BY <1>1, <1>8, <2>1, GiveUpSound DEF remote
<1>12. ASSUME a = "ok"
       PROVE  include'[i] = OtherActive(cf[p], t) /\ \A j \in Policies \ {i} : include'[j] = include[j]
  BY <1>3, <1>9, <1>10, <1>12, AdmitsEffect
<1>13. CASE /\ a = "ok" /\ cf' = Stored(p, c) /\ req' = [req EXCEPT ![r] = Idle]
            /\ UNCHANGED <<profiles, wish, cleanup, forgotten>>
  <2>1. cf' = [cf EXCEPT ![p] = c]
    BY <1>3, <1>13 DEF Stored
  <2>2. Known(c) \cap OwnedTokens \subseteq issued /\ Known(c) \ Known(cf[p]) = {}
    BY <1>3, <1>6 DEF Sound, RecordsWhole
  <2>3. ExternalTokens \subseteq tokens' /\ \A x \in Profiles \ {p} : Active(cf[x]) \cap tokens \subseteq tokens'
    BY <1>8 DEF Sound, GivenOut
  <2>4. Active(c) \subseteq tokens'
    BY <1>3, <1>6, <1>8 DEF OtherActive
  <2>5. \A u \in Known(c) \ Known(cf[p]) : ~TokenPending(u) /\ \A x \in Profiles : u \notin Known(cf[x])
    BY <2>2
  <2>6. /\ include'[c.policy] # {} /\ include'[c.policy] \subseteq Active(c)
        /\ \A j \in Policies \ {c.policy} : include'[j] = include[j]
    BY <1>5, <1>6, <1>12, <1>13
  <2>7. c.host = cf[p].host /\ c.policy = cf[p].policy
    BY <1>3, <1>6
  <2>8. UNCHANGED <<route, dns, app, issued, profiles, wish, cleanup, forgotten>>
    BY <1>8, <1>13
  <2>9. QED
    BY <1>1, <1>2, <1>13, <2>1, <2>2, <2>3, <2>4, <2>5, <2>6, <2>7, <2>8, SavedSound
<1>14. CASE a = "ok" /\ req' = [req EXCEPT ![r].at = "delete", ![r].cf = c] /\ UNCHANGED local
  <2>1. req'[r] = [q EXCEPT !.at = "delete", !.cf = c]
    BY <1>1, <1>14 DEF RequestRecords
  <2>2. /\ req'[r].op = "retire" /\ req'[r].at = "delete" /\ req'[r].profile = p
        /\ req'[r].token = t /\ req'[r].cf = c /\ req'[r].policy = i /\ req'[r].made = <<>>
    BY <1>1, <1>2, <1>4, <2>1 DEF RequestRecords, i
  <2>3. /\ cf' = cf /\ profiles' = profiles /\ wish' = wish /\ cleanup' = cleanup
        /\ forgotten' = forgotten
    BY <1>14 DEF local
  <2>4. ~Undoing(r)' /\ HeldList(r)' = <<>> /\ Held(r)' = {} /\ KindsOnce(HeldList(r))'
    <3>1. ~Undoing(r)' /\ HeldList(r)' = <<>>
      BY <2>2 DEF Undoing, HeldList
    <3>2. QED
      BY <3>1 DEF Held, ToSet, KindsOnce
  <2>5. \A x \in Profiles : Live(x, r)' <=> Live(x, r)
    BY <1>3, <2>2, <2>3 DEF Live
  <2>6. /\ \A o : InUse(o, r)' <=> InUse(o, r)
        /\ \A u : TokenInUse(u, r)' <=> TokenInUse(u, r)
    BY <2>3, <2>5, UseFollows
  <2>7. \A j \in Policies : include'[j] # {} <=> include[j] # {}
    BY <1>3, <1>5, <1>12, <1>14
  <2>8. \A o \in Objects : There(o)' <=> There(o)
    <3>1. SUFFICES ASSUME NEW o \in Objects PROVE There(o)' <=> There(o)
      OBVIOUS
    <3>2. o.kind = "policy" => o.name \in Policies
      BY ObjectFields
    <3>3. QED
      BY <1>8, <2>7, <3>2 DEF There
  <2>9. RecordsWhole' /\ RecordsApart'
    BY <1>8, <2>3 DEF Sound, RecordsWhole, RecordsApart, Known
  <2>10. LiveWorks(r)'
    <3>1. SUFFICES ASSUME NEW x \in Profiles, Live(x, r)
                   PROVE  /\ route[cf[x].host] = x /\ cf[x].host \in dns
                          /\ app[cf[x].host] = cf[x].policy
                          /\ include'[cf[x].policy] # {}
                          /\ include'[cf[x].policy] \subseteq Active(cf[x])
                          /\ Active(cf[x]) \subseteq tokens
      BY <1>8, <2>3, <2>5 DEF LiveWorks, Active
    <3>2. /\ route[cf[x].host] = x /\ cf[x].host \in dns /\ app[cf[x].host] = cf[x].policy
          /\ include[cf[x].policy] # {} /\ include[cf[x].policy] \subseteq Active(cf[x])
          /\ Active(cf[x]) \subseteq tokens
      BY <3>1 DEF Sound, LiveWorks
    <3>3. CASE x = p
      BY <1>3, <1>5, <1>12, <1>14, <3>2, <3>3 DEF OtherActive
    <3>4. CASE x # p
      <4>1. cf[x].policy \in Policies \ {i}
        BY <1>3, <3>1, <3>4 DEF Sound, RecordsWhole
      <4>2. QED
        BY <1>12, <1>14, <3>2, <4>1
    <3>5. QED
      BY <3>3, <3>4
  <2>11. PendingApart(r)'
    <3>1. PendingApart(r) /\ \A d \in cleanup : d.object \in Objects
      BY NamedObjects DEF Sound
    <3>2. QED
      BY <1>8, <2>3, <2>6, <2>8, <3>1 DEF PendingApart
  <2>12. HeldApart(r)'
    BY <2>4 DEF HeldApart
  <2>13. AllAccounted(r)'
    BY <1>3, <2>3, <2>6, <2>8 DEF Sound, AllAccounted, Pending
  <2>14. GivenOut'
    BY <1>8, <2>7 DEF Sound, GivenOut
  <2>15. RequestSound(r)'
    <3>1. /\ t \in Known(cf[p])' /\ OtherActive(cf[p], t)' # {}
          /\ include'[i] = OtherActive(cf[p], t)'
      BY <1>5, <1>12, <1>14, <2>3 DEF Known, OtherActive, Active
    <3>2. req'[r].cf = WithRetired(cf'[p], t)
      BY <2>2, <2>3 DEF c
    <3>3. cf'[p].host # None /\ i = cf'[p].policy
      BY <1>3, <2>3
    <3>4. TokenSound(r)'
      BY <2>2, <3>1, <3>2, <3>3 DEF TokenSound
    <3>5. QED
      BY <2>2, <3>4 DEF RequestSound, Positions, ProvisionSound, RemovalSound
  <2>16. QED
    BY <2>9, <2>10, <2>11, <2>12, <2>13, <2>14, <2>15 DEF Sound
<1>15. QED
  BY <1>3, <1>9, <1>10, <1>11, <1>13, <1>14

\* A retired token of inframatik is deleted; no other profile has it.
LEMMA RetireDeleteSound ==
    ASSUME NEW r, Careful(r), Inv, Sound(r), RetireDelete(r)
    PROVE  Sound(r)'
<1> DEFINE q == req[r]
           c == q.cf
           i == q.policy
<1>1. q.op = "retire" /\ q.at = "delete" /\ q.token \in OwnedTokens
  BY RequestTypes DEF RetireDelete, At, Prepared
<1>2. PICK p : p = q.profile
  OBVIOUS
<1>3. /\ p \in Profiles /\ p \in profiles /\ cf[p].host # None /\ i = cf[p].policy
      /\ i \in Policies /\ cf[p] \in OwnRecords /\ include[i] # {}
      /\ Active(cf[p]) \subseteq tokens
  BY <1>1, <1>2, TokenKnows
<1>4. PICK t : t = q.token
  OBVIOUS
<1>5. /\ t \in OwnedTokens /\ t \in Tokens /\ t \in Known(cf[p])
      /\ OtherActive(cf[p], t) # {} /\ include[i] = OtherActive(cf[p], t)
      /\ c = WithRetired(cf[p], t)
  BY <1>1, <1>2, <1>4 DEF Sound, RequestSound, TokenSound, Tokens
<1>6. /\ c.host = cf[p].host /\ c.policy = i /\ Known(c) = Known(cf[p])
      /\ Active(c) = Active(cf[p]) \ {t} /\ Active(c) = OtherActive(cf[p], t)
  <2>1. cf[p] \in CloudflareRecords
    BY <1>3 DEF OwnRecords
  <2> DEFINE d == WithRetired(cf[p], t)
  <2>2. /\ d.host = cf[p].host /\ d.policy = cf[p].policy
        /\ Known(d) = Known(cf[p]) \cup {t} /\ Active(d) = Active(cf[p]) \ {t}
    BY <1>5, <2>1, WithRetiredTokens
  <2>3. c = d
    BY <1>5
  <2> HIDE DEF c, d
  <2>4. QED
    BY <1>3, <1>5, <2>2, <2>3 DEF OtherActive
<1> HIDE DEF c, i
<1>7. UNCHANGED <<route, dns, app, include, issued>>
  BY DEF RetireDelete
<1>8. PICK a \in Answers : /\ tokens' = IF Applied(a) THEN tokens \ {t} ELSE tokens
                           /\ IF a \in {"ok", "refused"} THEN Save(r) ELSE GiveUp(r)
  BY <1>4 DEF RetireDelete
<1>9. (a = "ok" /\ Applied(a)) \/ (a = "fails" /\ ~Applied(a))
  BY PlainAnswers
<1>10. CASE a = "fails"
  <2>1. tokens' = tokens /\ UNCHANGED local /\ req' = [req EXCEPT ![r] = Idle]
    BY <1>8, <1>9, <1>10 DEF GiveUp
  <2>2. QED
    BY <1>1, <1>7, <2>1, GiveUpSound DEF remote
<1>11. CASE a = "ok"
  <2>1. Save(r) /\ tokens' = tokens \ {t}
    BY <1>8, <1>9, <1>11
  <2>2. /\ cf' = [cf EXCEPT ![p] = c] /\ req' = [req EXCEPT ![r] = Idle]
        /\ UNCHANGED <<profiles, wish, cleanup, forgotten>>
    BY <1>2, <1>3, <2>1 DEF Save, Stored, c
  <2>3. Known(c) \cap OwnedTokens \subseteq issued /\ Known(c) \ Known(cf[p]) = {}
    BY <1>3, <1>6 DEF Sound, RecordsWhole
  <2>4. ExternalTokens \subseteq tokens'
    BY <1>5, <2>1, ExposureAssumption DEF Sound, GivenOut
  <2>5. \A x \in Profiles \ {p} : t \notin Active(cf[x])
    BY <1>3, <1>5 DEF Sound, RecordsApart, Known, Active
  <2>6. /\ Active(c) \subseteq tokens'
        /\ \A x \in Profiles \ {p} : Active(cf[x]) \cap tokens \subseteq tokens'
    BY <1>3, <1>6, <2>1, <2>5
  <2>7. include'[c.policy] # {} /\ include'[c.policy] \subseteq Active(c)
        /\ \A j \in Policies \ {c.policy} : include'[j] = include[j]
    BY <1>5, <1>6, <1>7
  <2>8. \A u \in Known(c) \ Known(cf[p]) : ~TokenPending(u) /\ \A x \in Profiles : u \notin Known(cf[x])
    BY <2>3
  <2>9. c.host = cf[p].host /\ c.policy = cf[p].policy
    BY <1>3, <1>6
  <2>10. UNCHANGED <<route, dns, app, issued, profiles, wish, cleanup, forgotten>>
    BY <1>7, <2>2
  <2>11. QED
    BY <1>1, <1>2, <2>2, <2>3, <2>4, <2>6, <2>7, <2>8, <2>9, <2>10, SavedSound
<1>12. QED
  BY <1>9, <1>10, <1>11

-----------------------------------------------------------------------------
(* The operator.                                                           *)

\* An object whose record is dropped is given up; profiles that come and go are not
\* exposed.
LEMMA OperatorSound ==
    ASSUME NEW r, Careful(r), Inv, Sound(r),
           \/ \E record \in cleanup : Forget(record)
           \/ \E p \in Profiles, h \in Hosts \cup {None} : Configure(p, h)
           \/ \E p \in Profiles : DeleteUnexposed(p)
    PROVE  Sound(r)'
<1>1. UNCHANGED <<route, dns, app, include, tokens, issued, cf, req>>
  BY DEF Forget, Configure, DeleteUnexposed, remote
<1>2. \A x \in Profiles : Live(x, r)' <=> Live(x, r)
  BY <1>1 DEF Live
<1>3. /\ \A o : InUse(o, r)' <=> InUse(o, r)
      /\ \A t : TokenInUse(t, r)' <=> TokenInUse(t, r)
  BY <1>1, <1>2, UseFollows
<1>4. /\ Held(r)' = Held(r) /\ HeldList(r)' = HeldList(r) /\ (Undoing(r)' <=> Undoing(r))
      /\ \A o : There(o)' <=> There(o)
  BY <1>1 DEF Held, HeldList, Undoing, There
<1>5. RecordsApart' /\ GivenOut' /\ LiveWorks(r)'
  BY <1>1, <1>2 DEF Sound, RecordsApart, Known, GivenOut, LiveWorks, Active
<1>6. cleanup' \subseteq cleanup
  BY DEF Forget, Configure, DeleteUnexposed
<1>7. PendingApart(r)'
  BY <1>1, <1>3, <1>4, <1>6 DEF Sound, PendingApart
<1>8. \A t : TokenPending(t)' => TokenPending(t)
  BY <1>6 DEF TokenPending
<1>9. HeldApart(r)'
  <2>1. KindsOnce(HeldList(r))'
    BY <1>4 DEF Sound, HeldApart, KindsOnce
  <2>2. QED
    BY <1>1, <1>3, <1>4, <1>6, <1>8, <2>1 DEF Sound, HeldApart
<1>10. AllAccounted(r)'
  <2>1. \A o : Pending(o) => Pending(o)' \/ o \in forgotten'
    BY DEF Forget, Configure, DeleteUnexposed, Pending
  <2>2. forgotten \subseteq forgotten'
    BY DEF Forget, Configure, DeleteUnexposed
  <2>3. QED
    BY <1>1, <1>3, <1>4, <2>1, <2>2 DEF Sound, AllAccounted
<1>11. RecordsWhole' /\ \A x \in Profiles : req[r].profile = x /\ req[r].op # "none" /\ x \in profiles => x \in profiles'
  <2>1. RecordsWhole
    BY DEF Sound
  <2>2. CASE \E record \in cleanup : Forget(record)
    BY <1>1, <2>1, <2>2 DEF Forget, RecordsWhole, Known
  <2>3. CASE \E p \in Profiles, h \in Hosts \cup {None} : Configure(p, h)
    <3>1. PICK p \in Profiles : Configure(p, None)
      BY <2>3 DEF Configure, Careful
    <3>2. wish' = [wish EXCEPT ![p] = None] /\ profiles \subseteq profiles' /\ cf[p].host = None
      BY <3>1 DEF Configure
    <3>3. \A x \in Profiles : wish'[x] = cf[x].host
      BY <2>1, <3>2 DEF RecordsWhole, Inv, LocalOK
    <3>4. QED
      BY <1>1, <2>1, <3>2, <3>3 DEF RecordsWhole, Known
  <2>4. CASE \E p \in Profiles : DeleteUnexposed(p)
    <3>1. PICK p \in Profiles : DeleteUnexposed(p)
      BY <2>4
    <3>2. /\ wish' = [wish EXCEPT ![p] = None] /\ profiles' = profiles \ {p} /\ cf[p].host = None
          /\ req[r].profile # p
      BY <3>1 DEF DeleteUnexposed, Careful
    <3>3. \A x \in Profiles : wish'[x] = cf[x].host
      BY <2>1, <3>2 DEF RecordsWhole, Inv, LocalOK
    <3>4. QED
      BY <1>1, <2>1, <3>2, <3>3 DEF RecordsWhole, Known
  <2>5. QED
    BY <2>2, <2>3, <2>4
<1>12. RequestSound(r)'
  <2>1. req[r].op # "none" => req[r].profile \in Profiles
    BY RequestTypes DEF Prepared
  <2>2. Positions(req[r])' /\ ProvisionSound(r)' /\ RemovalSound(r)'
    BY <1>1, <1>11, <2>1 DEF Sound, RequestSound, Positions, ProvisionSound, RemovalSound, MadeAt
  <2>3. TokenSound(r)'
    BY <1>1, <1>8 DEF Sound, RequestSound, TokenSound, Known, OtherActive, Active
  <2>4. QED
    BY <2>2, <2>3 DEF RequestSound
<1>13. QED
  BY <1>5, <1>7, <1>9, <1>10, <1>11, <1>12 DEF Sound
-----------------------------------------------------------------------------
(* The theorems.                                                           *)

\* Nothing is exposed, held or owed at the start.
LEMMA InitSound == ASSUME NEW r, Careful(r), Init PROVE Sound(r)
<1>1. req[r] = Idle
  BY DEF Careful, Init
<1>2. RequestSound(r) /\ Held(r) = {} /\ KindsOnce(HeldList(r))
  BY <1>1, IdleSound
<1>3. /\ NoCloudflare.host = None /\ NoCloudflare.policy = None /\ Known(NoCloudflare) = {}
  BY DEF NoCloudflare, Known
<1>4. \A p \in Profiles : cf[p] = NoCloudflare /\ wish[p] = None
  BY DEF Init
<1>5. RecordsWhole /\ RecordsApart /\ LiveWorks(r)
  BY <1>3, <1>4 DEF RecordsWhole, RecordsApart, LiveWorks, Live
<1>6. PendingApart(r) /\ HeldApart(r)
  BY <1>2 DEF Init, PendingApart, HeldApart
<1>7. AllAccounted(r)
  <2>1. SUFFICES ASSUME NEW o \in Objects, o.kind # "token" PROVE ~There(o)
    BY DEF AllAccounted
  <2>2. /\ o.kind \in {"route", "dns", "app", "policy"}
        /\ o.kind \in {"route", "dns", "app"} => o.name \in Hosts
        /\ o.kind = "policy" => o.name \in Policies
    BY <2>1, ObjectFields
  <2>3. QED
    BY <2>2 DEF There, Init
<1>8. GivenOut
  BY DEF GivenOut, Init
<1>9. QED
  BY <1>2, <1>5, <1>6, <1>7, <1>8 DEF Sound

\* Every step keeps what holds between the steps.
LEMMA StepSound ==
    ASSUME NEW r, Careful(r), Inv, Sound(r), [Next]_vars
    PROVE  Sound(r)'
<1>1. Requests = {r}
  BY DEF Careful
<1>2. CASE Begin(r)
  <2>1. CASE \E p \in Profiles, h \in Hosts, t \in Tokens \cup {None} : BeginProvision(r, p, h, t)
    BY <2>1, BeginProvisionSound
  <2>2. CASE \E p \in Profiles, op \in {"remove", "delete"}, d \in BOOLEAN : BeginRemove(r, p, op, d)
    BY <2>2, BeginRemoveSound
  <2>3. CASE \E record \in cleanup : BeginRetry(r, record)
    BY <2>3, BeginRetrySound
  <2>4. CASE \/ \E p \in Profiles : BeginGenerate(r, p)
             \/ \E p \in Profiles, t \in Tokens : BeginRotate(r, p, t)
             \/ \E p \in Profiles, t \in Tokens, d \in BOOLEAN : BeginRetire(r, p, t, d)
    BY <2>4, BeginTokensSound
  <2>5. QED
    BY <1>2, <2>1, <2>2, <2>3, <2>4 DEF Begin
<1>3. CASE RequestStep(r)
  BY <1>3, ReadRoutesSound, WriteRoutesSound, CreateDnsSound, ProvisionTokenSound,
     CreatePolicySound, CreateAppSound, ReadForRemovalSound, RemoveRouteSound,
     DeleteObjectSound, GenerateTokenSound, GenerateAdmitSound, RotateSound,
     RetireAdmitSound, RetireDeleteSound DEF RequestStep
<1>4. CASE \/ \E record \in cleanup : Forget(record)
           \/ \E p \in Profiles, h \in Hosts \cup {None} : Configure(p, h)
           \/ \E p \in Profiles : DeleteUnexposed(p)
  BY <1>4, OperatorSound
<1>5. CASE UNCHANGED vars
  <2>1. UNCHANGED <<remote, local>> /\ req' = req
    BY <1>5 DEF vars
  <2>2. cf' = cf
    BY <2>1 DEF local
  <2>3. \A p \in Profiles : Live(p, r)' <=> Live(p, r)
    BY <2>1, <2>2 DEF Live
  <2>4. HeldList(r)' = HeldList(r) /\ Held(r)' = Held(r) /\ (Undoing(r)' <=> Undoing(r))
    BY <2>1 DEF HeldList, Held, Undoing
  <2>5. KindsOnce(HeldList(r))'
    BY <2>4, SMTT(60) DEF Sound, HeldApart, KindsOnce
  <2>6. RequestSound(r)'
    BY <2>1 DEF Sound, RequestSound, Positions, ProvisionSound, RemovalSound, TokenSound,
       Known, OtherActive, Active, TokenPending, MadeAt, remote, local
  <2>7. QED
    BY <2>1, <2>3, <2>4, <2>5, <2>6, HeldSame
<1>6. QED
  BY <1>1, <1>2, <1>3, <1>4, <1>5 DEF Next

\* What holds between the steps is what the properties ask for.
LEMMA SoundAccounted ==
    ASSUME NEW r, Careful(r), Inv, Sound(r)
    PROVE  Accounted
<1>1. SUFFICES ASSUME NEW o \in Objects, o.kind # "token", Exists(o)
               PROVE  \/ \E p \in Profiles : o \in UsedBy(p)
                      \/ \E c \in cleanup : c.object = o
                      \/ \E x \in Requests : o \in HeldBy(x)
                      \/ o \in forgotten
  BY DEF Accounted
<1>2. There(o)
  BY <1>1, ExistsThere
<1>3. InUse(o, r) \/ Pending(o) \/ o \in Held(r) \/ o \in forgotten
  BY <1>1, <1>2 DEF Sound, AllAccounted
<1>4. InUse(o, r) => \E p \in Profiles : o \in UsedBy(p)
  BY UsedByUses DEF InUse, Live
<1>5. Held(r) = HeldBy(r)
  BY DEF Held, HeldList, HeldBy, Undoing
<1>6. QED
  BY <1>3, <1>4, <1>5 DEF Pending, Careful

\* The same for what is owed ...
LEMMA SoundPendingNotInUse ==
    ASSUME NEW r, Careful(r), Inv, Sound(r)
    PROVE  PendingNotInUse
<1>1. SUFFICES ASSUME NEW c \in cleanup, NEW p \in Profiles, ~Removing(p), c.object \in UsedBy(p)
               PROVE  FALSE
  BY DEF PendingNotInUse
<1>2. c.object \in Objects
  BY NamedObjects
<1>3. cf[p].host # None /\ Uses(p, c.object)
  BY <1>1, <1>2, UsedByUses
<1>4. Live(p, r)
  BY <1>1, <1>3 DEF Live, Removing, Careful
<1>5. c.object.kind # "token" /\ InUse(c.object, r)
  BY <1>3, <1>4 DEF InUse, Uses
<1>6. QED
  BY <1>5 DEF Sound, PendingApart

\* ... and for what is exposed.
LEMMA SoundExposureWorks ==
    ASSUME NEW r, Careful(r), Inv, Sound(r)
    PROVE  ExposureWorks
<1>1. SUFFICES ASSUME NEW p \in Profiles, cf[p].host # None, req[r].profile # p
               PROVE  /\ route[cf[p].host] = p /\ cf[p].host \in dns
                      /\ app[cf[p].host] = cf[p].policy
                      /\ Active(cf[p]) \cap include[cf[p].policy] \cap tokens # {}
  BY DEF ExposureWorks, Careful
<1>2. Live(p, r)
  BY <1>1 DEF Live
<1>3. /\ route[cf[p].host] = p /\ cf[p].host \in dns /\ app[cf[p].host] = cf[p].policy
      /\ include[cf[p].policy] # {} /\ include[cf[p].policy] \subseteq Active(cf[p])
      /\ Active(cf[p]) \subseteq tokens
  BY <1>1, <1>2 DEF Sound, LiveWorks
<1>4. QED
  BY <1>3

\* The inductive invariant of all three theorems.
LEMMA AlwaysSound ==
    ASSUME NEW CONSTANT r, Careful(r)
    PROVE  Spec => [](Inv /\ Sound(r))
<1>1. Init => Inv /\ Sound(r)
  BY InitInv, InitSound
<1>2. Inv /\ Sound(r) /\ [Next]_vars => (Inv /\ Sound(r))'
  BY StepInv, StepSound
<1>3. QED
  BY <1>1, <1>2, PTL DEF Spec

\* Every route, DNS record, application and policy at Cloudflare is in the record of a
\* profile, held by the request, owed by a cleanup record, or was given up: at every
\* failure of every step of provisioning, removal and retry.
THEOREM AccountedHolds ==
    ASSUME NEW CONSTANT r, Careful(r)
    PROVE  Spec => []Accounted
<1>1. Inv /\ Sound(r) => Accounted
  BY SoundAccounted
<1>2. QED
  BY <1>1, AlwaysSound, PTL

\* A cleanup record, however old, never names what an exposed profile relies on.
THEOREM PendingNotInUseHolds ==
    ASSUME NEW CONSTANT r, Careful(r)
    PROVE  Spec => []PendingNotInUse
<1>1. Inv /\ Sound(r) => PendingNotInUse
  BY SoundPendingNotInUse
<1>2. QED
  BY <1>1, AlwaysSound, PTL

\* A profile that is recorded as exposed can be reached with one of its active tokens,
\* whatever failed before.
THEOREM ExposureWorksHolds ==
    ASSUME NEW CONSTANT r, Careful(r)
    PROVE  Spec => []ExposureWorks
<1>1. Inv /\ Sound(r) => ExposureWorks
  BY SoundExposureWorks
<1>2. QED
  BY <1>1, AlwaysSound, PTL
=============================================================================
