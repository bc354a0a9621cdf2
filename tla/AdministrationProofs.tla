------------------------ MODULE AdministrationProofs ------------------------
(***************************************************************************)
(* Theorems about what guards the administration: tokens give the rights   *)
(* that were reported, for any tokens, targets, grants and lifetime and    *)
(* whatever writes fail (AccessTokens); and sign-ins are throttled, and    *)
(* sessions last, for any clients, window and limits (Logins).             *)
(***************************************************************************)
EXTENDS MCAdministration, NodeClusterProofs, Integers, WellFoundedInduction, TLAPS

-----------------------------------------------------------------------------
(* The tokens.                                                             *)

\* A configuration, in memory or in the file, agrees with what the operator was told.
Agrees(config) ==
    \A t \in Bearers :
        /\ config[t] \in {NoGrant, ledger[t].grant}
        /\ ledger[t].is \in {"unmade", "revoked"} => config[t] = NoGrant
        /\ ledger[t].is = "live" /\ left[t] > 0 => config[t] = ledger[t].grant

\* What was made has a grant, and what was not made has none.
GrantsNoted ==
    \A t \in Bearers :
        IF ledger[t].is = "unmade" THEN ledger[t].grant = NoGrant
        ELSE ledger[t].grant \in GrantRecords

TokensInv == TokensTypeOK /\ Agrees(mem) /\ Agrees(disk) /\ GrantsNoted

\* NoGrant is none of the grants.
LEMMA NoGrantApart == NoGrant \notin GrantRecords
  BY DEF NoGrant, GrantRecords

\* A grant is of one of the two kinds.
LEMMA GrantKinds == \A g \in GrantRecords : g.kind \in {"service", "mcp"}
  BY DEF GrantRecords

\* Nothing is made, noted or left at the start.
LEMMA InitTokensInv == TokensInit => TokensInv
  BY BearerAssumption
  DEF TokensInit, TokensInv, TokensTypeOK, Agrees, GrantsNoted

\* Forgetting what has expired keeps the agreement.
LEMMA PurgedAgrees ==
    ASSUME TokensInv
    PROVE  /\ Purged \in [Bearers -> GrantRecords \cup {NoGrant}]
           /\ Agrees(Purged)
           /\ \A t \in Bearers : Purged[t] # NoGrant =>
                Purged[t] = mem[t] /\ mem[t] = ledger[t].grant /\ ledger[t].is # "unmade"
  BY DEF TokensInv, TokensTypeOK, Agrees, Purged

\* The ledger after a request.
LEMMA ToldNotes ==
    ASSUME NEW written \in BOOLEAN, NEW notes,
           \A t \in Bearers : notes[t] \in [is : {"unmade", "live", "unsure", "revoked"},
                                            grant : GrantRecords \cup {NoGrant}]
    PROVE  /\ Told(written, notes) \in [Bearers -> [is : {"unmade", "live", "unsure", "revoked"},
                                                    grant : GrantRecords \cup {NoGrant}]]
           /\ \A t \in Bearers :
                /\ Told(written, notes)[t].grant = notes[t].grant
                /\ written => Told(written, notes)[t] = notes[t]
                /\ notes[t] = ledger[t] => Told(written, notes)[t] = ledger[t]
                /\ ~written /\ notes[t] # ledger[t] => Told(written, notes)[t].is = "unsure"
  BY DEF Told

\* A request that changes the tokens its notes name, and keeps the others, is reported
\* truly: when the write fails, what was named is unsure.
LEMMA KeptInv ==
    ASSUME TokensInv, NEW written \in BOOLEAN, NEW config, NEW notes,
           config \in [Bearers -> GrantRecords \cup {NoGrant}],
           \A t \in Bearers : notes[t] \in [is : {"unmade", "live", "unsure", "revoked"},
                                            grant : GrantRecords \cup {NoGrant}],
           left' \in [Bearers -> 0..Lifetime],
           Kept(config, written),
           ledger' = Told(written, notes),
           \A t \in Bearers :
              \/ notes[t] = ledger[t] /\ config[t] = Purged[t] /\ left'[t] = left[t]
              \/ /\ notes[t].is \in {"live", "revoked"}
                 /\ notes[t].grant \in GrantRecords
                 /\ config[t] = IF notes[t].is = "live" THEN notes[t].grant ELSE NoGrant
                 /\ disk[t] \in {NoGrant, notes[t].grant}
                 /\ notes[t] # ledger[t]
    PROVE  TokensInv'
<1>1. /\ ledger' \in [Bearers -> [is : {"unmade", "live", "unsure", "revoked"},
                                   grant : GrantRecords \cup {NoGrant}]]
      /\ \A t \in Bearers :
           /\ ledger'[t].grant = notes[t].grant
           /\ written => ledger'[t] = notes[t]
           /\ notes[t] = ledger[t] => ledger'[t] = ledger[t]
           /\ ~written /\ notes[t] # ledger[t] => ledger'[t].is = "unsure"
  BY ToldNotes
<1>2. mem' = config /\ disk' = IF written THEN config ELSE disk
  BY DEF Kept
<1>3. TokensTypeOK'
  BY <1>1, <1>2 DEF TokensInv, TokensTypeOK
<1>4. Agrees(Purged) /\ Agrees(disk)
  BY PurgedAgrees DEF TokensInv
<1>5. ASSUME NEW t \in Bearers
      PROVE  /\ config[t] \in {NoGrant, ledger'[t].grant}
             /\ ledger'[t].is \in {"unmade", "revoked"} => config[t] = NoGrant
             /\ ledger'[t].is = "live" /\ left'[t] > 0 => config[t] = ledger'[t].grant
  <2>1. CASE notes[t] = ledger[t] /\ config[t] = Purged[t] /\ left'[t] = left[t]
    BY <1>1, <1>4, <2>1 DEF Agrees
  <2>2. CASE notes[t] # ledger[t] /\ written
    BY <1>1, <2>2
  <2>3. CASE notes[t] # ledger[t] /\ ~written
    BY <1>1, <2>3
  <2>4. QED
    BY <2>1, <2>2, <2>3
<1>6. ASSUME NEW t \in Bearers, ~written
      PROVE  /\ disk[t] \in {NoGrant, ledger'[t].grant}
             /\ ledger'[t].is \in {"unmade", "revoked"} => disk[t] = NoGrant
             /\ ledger'[t].is = "live" /\ left'[t] > 0 => disk[t] = ledger'[t].grant
  <2>1. CASE notes[t] = ledger[t] /\ left'[t] = left[t]
    BY <1>1, <1>4, <2>1 DEF Agrees
  <2>2. CASE notes[t] # ledger[t]
    BY <1>1, <1>6, <2>2
  <2>3. QED
    BY <2>1, <2>2
<1>7. Agrees(mem)'
  BY <1>2, <1>5 DEF Agrees
<1>8. Agrees(disk)'
  BY <1>2, <1>5, <1>6 DEF Agrees
<1>9. GrantsNoted'
  <2>1. SUFFICES ASSUME NEW t \in Bearers
                 PROVE  IF ledger'[t].is = "unmade" THEN ledger'[t].grant = NoGrant
                        ELSE ledger'[t].grant \in GrantRecords
    BY DEF GrantsNoted
  <2>2. CASE notes[t] = ledger[t]
    BY <1>1, <2>2 DEF TokensInv, GrantsNoted
  <2>3. CASE notes[t] # ledger[t]
    BY <1>1, <2>3
  <2>4. QED
    BY <2>2, <2>3
<1>10. QED
  BY <1>3, <1>7, <1>8, <1>9 DEF TokensInv

\* Every step keeps the invariant.
LEMMA StepTokensInv == TokensInv /\ [TokensNext]_tokenVars => TokensInv'
<1> SUFFICES ASSUME TokensInv, [TokensNext]_tokenVars PROVE TokensInv'
  OBVIOUS
<1> USE BearerAssumption, NoGrantApart
<1>1. ASSUME NEW written \in BOOLEAN, NEW t \in Bearers, NEW g \in Grants,
             CreateBearer(t, g, written)
      PROVE  TokensInv'
  <2> DEFINE config == [Purged EXCEPT ![t] = g]
             notes == [ledger EXCEPT ![t] = Note("live", g)]
  <2>1. /\ config \in [Bearers -> GrantRecords \cup {NoGrant}]
        /\ \A u \in Bearers : notes[u] \in [is : {"unmade", "live", "unsure", "revoked"},
                                             grant : GrantRecords \cup {NoGrant}]
        /\ left' \in [Bearers -> 0..Lifetime]
    BY <1>1, PurgedAgrees DEF CreateBearer, TokensInv, TokensTypeOK, Note
  <2>2. ledger[t].is = "unmade" /\ Kept(config, written) /\ ledger' = Told(written, notes)
    BY <1>1 DEF CreateBearer, IsNextBearer
  <2>3. disk[t] = NoGrant /\ notes[t].is = "live" /\ notes[t].grant = g /\ notes[t] # ledger[t]
        /\ config[t] = g /\ g \in GrantRecords
    BY <2>2, PurgedAgrees DEF TokensInv, TokensTypeOK, Agrees, Note
  <2>4. \A u \in Bearers \ {t} : notes[u] = ledger[u] /\ config[u] = Purged[u] /\ left'[u] = left[u]
    BY <1>1, PurgedAgrees DEF CreateBearer, TokensInv, TokensTypeOK
  <2> HIDE DEF config, notes
  <2>5. QED
    BY <2>1, <2>2, <2>3, <2>4, KeptInv
<1>2. ASSUME NEW written \in BOOLEAN, NEW t \in Bearers, NEW u \in Bearers,
             RotateBearer(t, u, written)
      PROVE  TokensInv'
  <2> DEFINE config == [Purged EXCEPT ![t] = NoGrant, ![u] = mem[t]]
             notes == [ledger EXCEPT ![t].is = "revoked", ![u] = Note("live", ledger[t].grant)]
  <2>1. /\ ledger[u].is = "unmade" /\ ledger[t].is # "unmade" /\ u # t
        /\ Purged[t] # NoGrant /\ mem[t] = ledger[t].grant /\ ledger[t].grant \in GrantRecords
        /\ Purged[t] = ledger[t].grant
    BY <1>2, PurgedAgrees DEF RotateBearer, IsNextBearer, TokensInv, GrantsNoted
  <2>2. /\ config \in [Bearers -> GrantRecords \cup {NoGrant}]
        /\ \A v \in Bearers : notes[v] \in [is : {"unmade", "live", "unsure", "revoked"},
                                             grant : GrantRecords \cup {NoGrant}]
        /\ left' \in [Bearers -> 0..Lifetime]
    <3>1. config \in [Bearers -> GrantRecords \cup {NoGrant}]
      BY <2>1, PurgedAgrees
    <3>2. left' \in [Bearers -> 0..Lifetime]
      BY <1>2 DEF RotateBearer, TokensInv, TokensTypeOK
    <3>3. notes \in [Bearers -> [is : {"unmade", "live", "unsure", "revoked"},
                                 grant : GrantRecords \cup {NoGrant}]]
      BY <2>1 DEF TokensInv, TokensTypeOK, Note
    <3>4. QED
      BY <3>1, <3>2, <3>3
  <2>3. Kept(config, written) /\ ledger' = Told(written, notes)
    BY <1>2 DEF RotateBearer
  <2>4. ledger[t].is # "revoked"
    BY <2>1, PurgedAgrees DEF Agrees
  <2>5. /\ notes[t].is = "revoked" /\ notes[t].grant = ledger[t].grant /\ notes[t] # ledger[t]
        /\ config[t] = NoGrant /\ disk[t] \in {NoGrant, notes[t].grant}
    BY <2>1, <2>4, PurgedAgrees DEF TokensInv, TokensTypeOK, Agrees
  <2>6. /\ notes[u].is = "live" /\ notes[u].grant = ledger[t].grant /\ notes[u] # ledger[u]
        /\ config[u] = notes[u].grant /\ disk[u] = NoGrant
    BY <2>1, PurgedAgrees DEF TokensInv, TokensTypeOK, Agrees, Note
  <2>7. \A v \in Bearers \ {t, u} :
           notes[v] = ledger[v] /\ config[v] = Purged[v] /\ left'[v] = left[v]
    BY <1>2, PurgedAgrees DEF RotateBearer, TokensInv, TokensTypeOK
  <2> HIDE DEF config, notes
  <2>8. \A v \in Bearers :
           \/ notes[v] = ledger[v] /\ config[v] = Purged[v] /\ left'[v] = left[v]
           \/ /\ notes[v].is \in {"live", "revoked"}
              /\ notes[v].grant \in GrantRecords
              /\ config[v] = IF notes[v].is = "live" THEN notes[v].grant ELSE NoGrant
              /\ disk[v] \in {NoGrant, notes[v].grant}
              /\ notes[v] # ledger[v]
    BY <2>1, <2>5, <2>6, <2>7
  <2>9. QED
    BY <2>2, <2>3, <2>8, KeptInv
<1>3. ASSUME NEW written \in BOOLEAN, NEW t \in Bearers, RevokeBearer(t, written)
      PROVE  TokensInv'
  <2> DEFINE config == [Purged EXCEPT ![t] = NoGrant]
             notes == [ledger EXCEPT ![t].is = "revoked"]
  <2>1. /\ ledger[t].is \notin {"unmade", "revoked"} /\ ledger[t].grant \in GrantRecords
    BY <1>3, PurgedAgrees DEF RevokeBearer, TokensInv, GrantsNoted, Agrees
  <2>2. /\ config \in [Bearers -> GrantRecords \cup {NoGrant}]
        /\ \A v \in Bearers : notes[v] \in [is : {"unmade", "live", "unsure", "revoked"},
                                             grant : GrantRecords \cup {NoGrant}]
        /\ left' \in [Bearers -> 0..Lifetime]
    BY <1>3, PurgedAgrees DEF RevokeBearer, TokensInv, TokensTypeOK
  <2>3. Kept(config, written) /\ ledger' = Told(written, notes)
    BY <1>3 DEF RevokeBearer
  <2>4. /\ notes[t].is = "revoked" /\ notes[t].grant = ledger[t].grant /\ notes[t] # ledger[t]
        /\ config[t] = NoGrant /\ disk[t] \in {NoGrant, notes[t].grant}
    BY <2>1, PurgedAgrees DEF TokensInv, TokensTypeOK, Agrees
  <2>5. \A v \in Bearers \ {t} :
           notes[v] = ledger[v] /\ config[v] = Purged[v] /\ left'[v] = left[v]
    BY <1>3, PurgedAgrees DEF RevokeBearer, TokensInv, TokensTypeOK
  <2> HIDE DEF config, notes
  <2>6. QED
    BY <2>1, <2>2, <2>3, <2>4, <2>5, KeptInv
<1>4. ASSUME NEW written \in BOOLEAN, WriteConfig(written) PROVE TokensInv'
  BY <1>4, PurgedAgrees
  DEF WriteConfig, Kept, TokensInv, TokensTypeOK, Agrees, GrantsNoted
<1>5. CASE RefuseUnknown
  BY <1>5, PurgedAgrees DEF RefuseUnknown, TokensInv, TokensTypeOK, Agrees, GrantsNoted
<1>6. CASE RestartProcess
  BY <1>6 DEF RestartProcess, TokensInv, TokensTypeOK, Agrees, GrantsNoted
<1>7. CASE ResetConfig
  BY <1>7 DEF ResetConfig, TokensInv, TokensTypeOK, Agrees, GrantsNoted, Note
<1>8. CASE Clock
  BY <1>8 DEF Clock, TokensInv, TokensTypeOK, Agrees, GrantsNoted
<1>9. CASE UNCHANGED tokenVars
  BY <1>9 DEF tokenVars, TokensInv, TokensTypeOK, Agrees, GrantsNoted
<1>10. QED
  BY <1>1, <1>2, <1>3, <1>4, <1>5, <1>6, <1>7, <1>8, <1>9 DEF TokensNext

\* The invariant holds throughout.
LEMMA AlwaysTokensInv == TokensSpec => []TokensInv
  BY InitTokensInv, StepTokensInv, PTL DEF TokensSpec

\* The tokens of memory and file, their lifetimes and what was told of them have their
\* types, for any grants and whatever writes of node.json fail.
THEOREM TokensTypeCorrect == TokensSpec => []TokensTypeOK
<1>1. TokensInv => TokensTypeOK
  BY DEF TokensInv
<1>2. QED
  BY <1>1, AlwaysTokensInv, PTL

\* Implication of scopes goes one step at a time in the code, and needs no more: what
\* an implied scope implies is implied already.
LEMMA OneStepIsEnough ==
    ASSUME NEW scopes \in SUBSET Scopes, NEW need \in Scopes
    PROVE  LET once == scopes \cup UNION {Implied[s] : s \in scopes} IN
           need \in once \cup UNION {Implied[s] : s \in once}
             <=> need \in scopes \/ \E s \in scopes : need \in Implied[s]
<1>1. \A s \in Scopes : \A u \in Implied[s] : u \in Scopes /\ Implied[u] \subseteq Implied[s]
  BY DEF Implied, Scopes
<1>2. QED
  BY <1>1

\* The rights of a capability, whichever way a service is asked for, are what its name
\* says.
LEMMA ServiceRights ==
    ASSUME NEW g, g \in [kind : {"service"}, target : Targets, capability : Capabilities],
           NEW r \in AccessRequests
    PROVE  ServiceAdmits(g, r) <=> Expected(g, r)
<1>1. CASE r \in RouteRequests
  BY <1>1 DEF RouteRequests, ServiceAdmits, Allows, Expected, Rank, RouteCapability,
     Capabilities, Changing, Running
<1>2. CASE r \in ToolRequests
  BY <1>2 DEF ToolRequests, ServiceAdmits, Allows, ToolAllowed, Expected, Rank, ToolCapability,
     Capabilities, Changing, Running
<1>3. CASE r \in AgentRequests
  BY <1>3 DEF AgentRequests, ServiceAdmits, Expected
<1>4. QED
  BY <1>1, <1>2, <1>3 DEF AccessRequests

\* The rights of an agent are its scopes with all they imply, for its profiles.
LEMMA AgentRights ==
    ASSUME NEW g,
           g \in [kind : {"mcp"}, scopes : SUBSET Scopes \ {{}}, profiles : SUBSET Targets],
           NEW r \in AccessRequests
    PROVE  AgentAdmits(g, r) <=> Expected(g, r)
<1>1. CASE r.by # "agent"
  BY <1>1 DEF AgentAdmits, Expected
<1>2. CASE r.by = "agent"
  <2>1. r \in AgentRequests
    BY <1>2 DEF AccessRequests, RouteRequests, ToolRequests
  <2>2. AgentScope[r.op] \in Scopes
    BY <2>1 DEF AgentRequests, AgentScope, Scopes
  <2>3. ScopeAllows(g, AgentScope[r.op]) <=>
          LET once == g.scopes \cup UNION {Implied[s] : s \in g.scopes}
              all == once \cup UNION {Implied[s] : s \in once} IN
          AgentScope[r.op] \in all
    <3>1. g.scopes \in SUBSET Scopes
      OBVIOUS
    <3> DEFINE scopes == g.scopes
               need == AgentScope[r.op]
    <3>2. scopes \in SUBSET Scopes /\ need \in Scopes
      BY <2>2, <3>1
    <3>3. ScopeAllows(g, need) <=> need \in scopes \/ \E s \in scopes : need \in Implied[s]
      BY DEF ScopeAllows
    <3> HIDE DEF scopes, need
    <3>4. LET once == scopes \cup UNION {Implied[s] : s \in scopes} IN
          need \in once \cup UNION {Implied[s] : s \in once} <=> ScopeAllows(g, need)
      BY <3>2, <3>3, OneStepIsEnough
    <3>5. QED
      BY <3>4 DEF scopes, need
  <2>4. ProfileAllowed(g, r) <=>
          (g.profiles # {} /\ r.op \in {"logs", "render", "edit", "start"}
             => r.target \in g.profiles)
    BY <2>1 DEF ProfileAllowed, AgentRequests, AgentScope
  <2>5. QED
    BY <1>2, <2>3, <2>4 DEF AgentAdmits, Expected
<1>3. QED
  BY <1>1, <1>2

\* A token gives exactly the rights that were reported, until it expires or its
\* revocation is asked for, and none once its revocation was reported: for any number
\* of tokens, rotations, failing writes and restarts, and any grants.
THEOREM TokensAsReportedHolds == TokensSpec => []TokensAsReported
<1>1. TokensInv => TokensAsReported
  <2> SUFFICES ASSUME TokensInv, NEW t \in Bearers, NEW config \in {mem, disk},
                      NEW r \in AccessRequests
               PROVE  /\ ledger[t].is = "live" /\ left[t] > 0 =>
                            (Accepts(config, t, r) <=> Expected(ledger[t].grant, r))
                      /\ ledger[t].is = "revoked" => ~Accepts(config, t, r)
    BY DEF TokensAsReported
  <2>1. Agrees(config)
    BY DEF TokensInv
  <2>2. ASSUME ledger[t].is = "revoked" PROVE ~Accepts(config, t, r)
    BY <2>1, <2>2 DEF Agrees, Accepts, NoGrant
  <2>3. ASSUME ledger[t].is = "live", left[t] > 0
        PROVE  Accepts(config, t, r) <=> Expected(ledger[t].grant, r)
    <3>1. config[t] = ledger[t].grant /\ ledger[t].grant \in GrantRecords
      BY <2>1, <2>3 DEF Agrees, TokensInv, GrantsNoted
    <3>2. CASE ledger[t].grant \in [kind : {"service"}, target : Targets, capability : Capabilities]
      BY <2>3, <3>1, <3>2, ServiceRights DEF Accepts
    <3>3. CASE ledger[t].grant \in
                 [kind : {"mcp"}, scopes : SUBSET Scopes \ {{}}, profiles : SUBSET Targets]
      BY <2>3, <3>1, <3>3, AgentRights DEF Accepts
    <3>4. QED
      BY <3>1, <3>2, <3>3 DEF GrantRecords
  <2>4. QED
    BY <2>2, <2>3
<1>2. QED
  BY <1>1, AlwaysTokensInv, PTL

-----------------------------------------------------------------------------
(* What filtering a sequence does to it: Filtered is computed element by   *)
(* element, and its properties follow by induction on the sequence.        *)

LessThan == {pair \in Nat \X Nat : pair[1] < pair[2]}

\* The order of the numbers is well-founded.
LEMMA LessThanWellFounded == IsWellFoundedOn(LessThan, Nat)
  BY NatLessThanWellFounded DEF OpToRel, LessThan

\* A set of numbers that has a number has a least one.
LEMMA LeastNumber ==
    ASSUME NEW T, T \subseteq Nat, T # {}
    PROVE  \E x \in T : \A y \in T : x <= y
<1>1. PICK x \in T : \A y \in T : ~(<<y, x>> \in LessThan)
  BY LessThanWellFounded, WFMin
<1>2. ASSUME NEW y \in T PROVE x <= y
  <2>1. x \in Nat /\ y \in Nat
    OBVIOUS
  <2>2. ~(y < x)
    BY <1>1, <2>1 DEF LessThan
  <2>3. QED
    BY <2>1, <2>2
<1>3. QED
  BY <1>2

\* A set that has zero, and with a number the next, has every number.
LEMMA NumberInduction ==
    ASSUME NEW S, 0 \in S, \A n \in Nat : n \in S => n + 1 \in S
    PROVE  Nat \subseteq S
<1> DEFINE T == Nat \ S
<1>1. SUFFICES ASSUME T # {} PROVE FALSE
  OBVIOUS
<1>2. PICK x \in T : \A y \in T : x <= y
  BY <1>1, LeastNumber
<1>3. x # 0 /\ x - 1 \in Nat
  OBVIOUS
<1>4. QED
  BY <1>2, <1>3

\* A set that has the empty sequence, and with a sequence those one element longer, has
\* every sequence.
LEMMA SequenceInduction ==
    ASSUME NEW X, NEW S, <<>> \in S,
           \A s \in Seq(X), x \in X : s \in S => Append(s, x) \in S
    PROVE  Seq(X) \subseteq S
<1> DEFINE N == {n \in Nat : \A s \in Seq(X) : Len(s) = n => s \in S}
<1>1. 0 \in N
  <2>1. \A s \in Seq(X) : Len(s) = 0 => s = <<>>
    OBVIOUS
  <2>2. QED
    BY <2>1
<1>2. ASSUME NEW n \in Nat, n \in N PROVE n + 1 \in N
  <2>1. SUFFICES ASSUME NEW s \in Seq(X), Len(s) = n + 1 PROVE s \in S
    OBVIOUS
  <2> DEFINE front == SubSeq(s, 1, n)
  <2>2. front \in Seq(X) /\ Len(front) = n /\ s[n + 1] \in X
    BY <2>1
  <2>3. s = Append(front, s[n + 1])
    BY <2>1, <2>2
  <2>4. front \in S
    BY <1>2, <2>2
  <2>5. QED
    BY <2>2, <2>3, <2>4
<1> HIDE DEF N
<1>3. Nat \subseteq N
  BY <1>1, <1>2, NumberInduction
<1>4. QED
  <2>1. SUFFICES ASSUME NEW s \in Seq(X) PROVE s \in S
    OBVIOUS
  <2>2. Len(s) \in N
    BY <1>3
  <2>3. QED
    BY <2>2 DEF N

\* What has been kept of the first n elements, up to m of them.
Keeps(f, s, T, m) ==
    f = [n \in 0..m |->
          IF n = 0 THEN <<>>
          ELSE IF s[n] \in T THEN Append(f[n - 1], s[n]) ELSE f[n - 1]]

\* What has been kept of the first k elements.
LEMMA KeepsAt ==
    ASSUME NEW f, NEW s, NEW T, NEW m \in Nat, Keeps(f, s, T, m), NEW k \in 0..m
    PROVE  f[k] = IF k = 0 THEN <<>>
                  ELSE IF s[k] \in T THEN Append(f[k - 1], s[k]) ELSE f[k - 1]
<1> DEFINE E(n) == IF n = 0 THEN <<>>
                   ELSE IF s[n] \in T THEN Append(f[n - 1], s[n]) ELSE f[n - 1]
<1>1. f = [n \in 0..m |-> E(n)]
  BY DEF Keeps
<1> HIDE DEF E
<1>2. f[k] = E(k)
  BY <1>1
<1>3. QED
  BY <1>2 DEF E

\* It can be computed.
LEMMA KeepsExists ==
    ASSUME NEW s, NEW T, NEW m \in Nat
    PROVE  \E f : Keeps(f, s, T, m)
<1> DEFINE N == {n \in Nat : \E f : Keeps(f, s, T, n)}
<1>1. 0 \in N
  <2>1. Keeps([n \in 0..0 |-> <<>>], s, T, 0)
    BY DEF Keeps
  <2>2. QED
    BY <2>1
<1>2. ASSUME NEW n \in Nat, n \in N PROVE n + 1 \in N
  <2>1. PICK f : Keeps(f, s, T, n)
    BY <1>2
  <2> DEFINE g == [k \in 0..(n + 1) |->
                     IF k <= n THEN f[k]
                     ELSE IF s[n + 1] \in T THEN Append(f[n], s[n + 1]) ELSE f[n]]
  <2>2. ASSUME NEW k \in 0..(n + 1)
        PROVE  g[k] = IF k = 0 THEN <<>>
                      ELSE IF s[k] \in T THEN Append(g[k - 1], s[k]) ELSE g[k - 1]
    <3>1. CASE k <= n
      <4>1. f[k] = IF k = 0 THEN <<>>
                   ELSE IF s[k] \in T THEN Append(f[k - 1], s[k]) ELSE f[k - 1]
        BY <2>1, <3>1, KeepsAt
      <4>2. g[k] = f[k] /\ (k # 0 => g[k - 1] = f[k - 1])
        BY <3>1
      <4>3. QED
        BY <4>1, <4>2
    <3>2. CASE k = n + 1
      BY <3>2
    <3>3. QED
      BY <3>1, <3>2
  <2>3. Keeps(g, s, T, n + 1)
    BY <2>2 DEF Keeps
  <2>4. QED
    BY <2>3
<1> HIDE DEF N
<1>3. QED
  BY <1>1, <1>2, NumberInduction DEF N

\* It is what filtering computes.
LEMMA FilteredKeeps ==
    ASSUME NEW X, NEW s \in Seq(X), NEW T
    PROVE  \E f : Keeps(f, s, T, Len(s)) /\ Filtered(s, T) = f[Len(s)]
<1>1. Filtered(s, T) = (CHOOSE f : Keeps(f, s, T, Len(s)))[Len(s)]
  BY DEF Filtered, Keeps
<1>2. \E f : Keeps(f, s, T, Len(s))
  <2>1. Len(s) \in Nat
    OBVIOUS
  <2>2. QED
    BY <2>1, KeepsExists
<1>3. QED
  BY <1>1, <1>2

\* It depends on the elements kept from only.
LEMMA KeepsAgree ==
    ASSUME NEW s, NEW r, NEW T, NEW m \in Nat, NEW f, NEW g, NEW k \in Nat, m <= k,
           Keeps(f, s, T, m), Keeps(g, r, T, k), \A n \in 1..m : s[n] = r[n]
    PROVE  f[m] = g[m]
<1> DEFINE N == {n \in Nat : n <= m => f[n] = g[n]}
<1>1. 0 \in N
  <2>1. f[0] = <<>> /\ g[0] = <<>>
    BY KeepsAt
  <2>2. QED
    BY <2>1
<1>2. ASSUME NEW n \in Nat, n \in N PROVE n + 1 \in N
  <2>1. SUFFICES ASSUME n + 1 <= m PROVE f[n + 1] = g[n + 1]
    OBVIOUS
  <2>2. f[n] = g[n] /\ s[n + 1] = r[n + 1]
    BY <1>2, <2>1
  <2>3. /\ f[n + 1] = IF s[n + 1] \in T THEN Append(f[n], s[n + 1]) ELSE f[n]
        /\ g[n + 1] = IF r[n + 1] \in T THEN Append(g[n], r[n + 1]) ELSE g[n]
    <3>1. n + 1 \in 0..m /\ n + 1 \in 0..k /\ n + 1 # 0 /\ (n + 1) - 1 = n
      BY <2>1
    <3> HIDE DEF N
    <3>2. f[n + 1] = IF s[n + 1] \in T THEN Append(f[n], s[n + 1]) ELSE f[n]
      BY <3>1, KeepsAt
    <3>3. g[n + 1] = IF r[n + 1] \in T THEN Append(g[n], r[n + 1]) ELSE g[n]
      BY <3>1, KeepsAt
    <3>4. QED
      BY <3>2, <3>3
  <2>4. QED
    BY <2>2, <2>3
<1> HIDE DEF N
<1>3. Nat \subseteq N
  BY <1>1, <1>2, NumberInduction
<1>4. m \in N
  BY <1>3
<1>5. QED
  BY <1>4 DEF N

\* Nothing is kept of nothing.
LEMMA FilteredEmpty == ASSUME NEW T PROVE Filtered(<<>>, T) = <<>>
<1>1. PICK f : Keeps(f, <<>>, T, 0) /\ Filtered(<<>>, T) = f[0]
  <2>1. <<>> \in Seq({}) /\ Len(<<>>) = 0
    OBVIOUS
  <2>2. QED
    BY <2>1, FilteredKeeps
<1>2. f[0] = <<>>
  BY <1>1, KeepsAt
<1>3. QED
  BY <1>1, <1>2

\* A longer sequence keeps its last element, or not.
LEMMA FilteredAppend ==
    ASSUME NEW X, NEW s \in Seq(X), NEW x \in X, NEW T
    PROVE  Filtered(Append(s, x), T) =
             IF x \in T THEN Append(Filtered(s, T), x) ELSE Filtered(s, T)
<1> DEFINE r == Append(s, x)
           m == Len(s)
<1>1. r \in Seq(X) /\ Len(r) = m + 1 /\ m \in Nat /\ r[m + 1] = x
  OBVIOUS
<1>2. \A n \in 1..m : s[n] = r[n]
  OBVIOUS
<1> HIDE DEF r
<1>3. PICK f : Keeps(f, s, T, m) /\ Filtered(s, T) = f[m]
  BY FilteredKeeps
<1>4. PICK g : Keeps(g, r, T, m + 1) /\ Filtered(r, T) = g[m + 1]
  BY <1>1, FilteredKeeps
<1>5. f[m] = g[m]
  BY <1>1, <1>2, <1>3, <1>4, KeepsAgree
<1>6. g[m + 1] = IF r[m + 1] \in T THEN Append(g[m], r[m + 1]) ELSE g[m]
  <2>1. m + 1 \in 0..(m + 1) /\ m + 1 \in Nat /\ m + 1 # 0 /\ (m + 1) - 1 = m
    BY <1>1
  <2> HIDE DEF m
  <2>2. QED
    BY <1>4, <2>1, KeepsAt
<1>7. QED
  BY <1>1, <1>3, <1>4, <1>5, <1>6 DEF r

\* What is kept belongs to the set, and is no longer.
LEMMA FilteredType ==
    ASSUME NEW X, NEW T
    PROVE  \A s \in Seq(X) : Filtered(s, T) \in Seq(X \cap T) /\ Len(Filtered(s, T)) <= Len(s)
<1> DEFINE S == {s \in Seq(X) : Filtered(s, T) \in Seq(X \cap T)
                                 /\ Len(Filtered(s, T)) <= Len(s)}
<1>1. <<>> \in S
  <2>1. <<>> \in Seq(X) /\ <<>> \in Seq(X \cap T) /\ Len(<<>>) <= Len(<<>>)
    OBVIOUS
  <2>2. QED
    BY <2>1, FilteredEmpty
<1>2. ASSUME NEW s \in Seq(X), NEW x \in X, s \in S PROVE Append(s, x) \in S
  <2>1. Filtered(s, T) \in Seq(X \cap T) /\ Len(Filtered(s, T)) <= Len(s)
    BY <1>2
  <2>2. Append(s, x) \in Seq(X) /\ Len(Append(s, x)) = Len(s) + 1
    OBVIOUS
  <2>3. CASE x \in T
    <3>1. /\ Append(Filtered(s, T), x) \in Seq(X \cap T)
          /\ Len(Append(Filtered(s, T), x)) <= Len(s) + 1
      BY <2>1, <2>3
    <3>2. Filtered(Append(s, x), T) = Append(Filtered(s, T), x)
      BY <2>3, FilteredAppend
    <3>3. QED
      BY <2>2, <3>1, <3>2
  <2>4. CASE x \notin T
    <3>1. Filtered(Append(s, x), T) = Filtered(s, T)
      BY <2>4, FilteredAppend
    <3>2. Len(Filtered(s, T)) <= Len(s) + 1
      BY <2>1
    <3>3. QED
      BY <2>1, <2>2, <3>1, <3>2
  <2>5. QED
    BY <2>3, <2>4
<1> HIDE DEF S
<1>3. Seq(X) \subseteq S
  BY <1>1, <1>2, SequenceInduction
<1>4. QED
  BY <1>3 DEF S

\* What all belongs is kept whole.
LEMMA FilteredWhole ==
    ASSUME NEW T
    PROVE  \A s \in Seq(T) : Filtered(s, T) = s
<1> DEFINE S == {s \in Seq(T) : Filtered(s, T) = s}
<1>1. <<>> \in S
  BY FilteredEmpty
<1>2. ASSUME NEW s \in Seq(T), NEW x \in T, s \in S PROVE Append(s, x) \in S
  BY <1>2, FilteredAppend
<1> HIDE DEF S
<1>3. Seq(T) \subseteq S
  BY <1>1, <1>2, SequenceInduction
<1>4. QED
  BY <1>3 DEF S

\* Filtering twice keeps what belongs to both sets.
LEMMA FilteredTwice ==
    ASSUME NEW X, NEW T, NEW U
    PROVE  \A s \in Seq(X) : Filtered(Filtered(s, T), U) = Filtered(s, T \cap U)
<1> DEFINE S == {s \in Seq(X) : Filtered(Filtered(s, T), U) = Filtered(s, T \cap U)}
<1>1. <<>> \in S
  BY FilteredEmpty
<1>2. ASSUME NEW s \in Seq(X), NEW x \in X, s \in S PROVE Append(s, x) \in S
  <2>1. Filtered(s, T) \in Seq(X)
    <3>1. Filtered(s, T) \in Seq(X \cap T)
      BY FilteredType
    <3>2. QED
      BY <3>1
  <2>2. Filtered(Filtered(s, T), U) = Filtered(s, T \cap U)
    BY <1>2
  <2>3. Filtered(Append(s, x), T \cap U) =
          IF x \in T \cap U THEN Append(Filtered(s, T \cap U), x) ELSE Filtered(s, T \cap U)
    BY FilteredAppend
  <2>4. CASE x \in T
    <3>1. Filtered(Append(s, x), T) = Append(Filtered(s, T), x)
      BY <2>4, FilteredAppend
    <3>2. Filtered(Append(Filtered(s, T), x), U) =
            IF x \in U THEN Append(Filtered(Filtered(s, T), U), x)
            ELSE Filtered(Filtered(s, T), U)
      BY <2>1, FilteredAppend
    <3>3. Filtered(Filtered(Append(s, x), T), U) = Filtered(Append(s, x), T \cap U)
      BY <2>2, <2>3, <2>4, <3>1, <3>2
    <3>4. Append(s, x) \in Seq(X)
      OBVIOUS
    <3>5. QED
      BY <3>3, <3>4
  <2>5. CASE x \notin T
    <3>1. Filtered(Append(s, x), T) = Filtered(s, T)
      BY <2>5, FilteredAppend
    <3>2. QED
      BY <2>2, <2>3, <2>5, <3>1
  <2>6. QED
    BY <2>4, <2>5
<1> HIDE DEF S
<1>3. Seq(X) \subseteq S
  BY <1>1, <1>2, SequenceInduction
<1>4. QED
  BY <1>3 DEF S

\* The elements of a sequence.
ElementsOf(s) == {s[i] : i \in DOMAIN s}

\* A longer sequence has one more element.
LEMMA ElementsAppend ==
    ASSUME NEW X, NEW s \in Seq(X), NEW x \in X
    PROVE  ElementsOf(Append(s, x)) = ElementsOf(s) \cup {x}
<1>1. DOMAIN s = 1..Len(s) /\ DOMAIN Append(s, x) = 1..(Len(s) + 1)
  OBVIOUS
<1>2. Append(s, x)[Len(s) + 1] = x /\ \A i \in 1..Len(s) : Append(s, x)[i] = s[i]
  OBVIOUS
<1>3. QED
  BY <1>1, <1>2 DEF ElementsOf

\* The elements of what is kept are those of the sequence that belong.
LEMMA FilteredElements ==
    ASSUME NEW X, NEW T
    PROVE  \A s \in Seq(X) : ElementsOf(Filtered(s, T)) = ElementsOf(s) \cap T
<1> DEFINE S == {s \in Seq(X) : ElementsOf(Filtered(s, T)) = ElementsOf(s) \cap T}
<1>1. <<>> \in S
  BY FilteredEmpty DEF ElementsOf
<1>2. ASSUME NEW s \in Seq(X), NEW x \in X, s \in S PROVE Append(s, x) \in S
  <2>1. ElementsOf(Append(s, x)) = ElementsOf(s) \cup {x}
    BY ElementsAppend
  <2>2. CASE x \in T
    <3>1. Filtered(s, T) \in Seq(X)
      <4>1. Filtered(s, T) \in Seq(X \cap T)
        BY FilteredType
      <4>2. QED
        BY <4>1
    <3>2. ElementsOf(Append(Filtered(s, T), x)) = ElementsOf(Filtered(s, T)) \cup {x}
      BY <3>1, ElementsAppend
    <3>3. Filtered(Append(s, x), T) = Append(Filtered(s, T), x)
      BY <2>2, FilteredAppend
    <3>4. ElementsOf(Filtered(Append(s, x), T)) = ElementsOf(Append(s, x)) \cap T
      BY <1>2, <2>1, <2>2, <3>2, <3>3
    <3>5. Append(s, x) \in Seq(X)
      OBVIOUS
    <3>6. QED
      BY <3>4, <3>5
  <2>3. CASE x \notin T
    BY <1>2, <2>1, <2>3, FilteredAppend
  <2>4. QED
    BY <2>2, <2>3
<1> HIDE DEF S
<1>3. Seq(X) \subseteq S
  BY <1>1, <1>2, SequenceInduction
<1>4. QED
  BY <1>3 DEF S

\* Each element replaced by a function of it.
Mapped(h, s) == [i \in DOMAIN s |-> h[s[i]]]

\* Mapping keeps the length.
LEMMA MappedType ==
    ASSUME NEW X, NEW Y, NEW h \in [X -> Y], NEW s \in Seq(X)
    PROVE  Mapped(h, s) \in Seq(Y) /\ Len(Mapped(h, s)) = Len(s)
  BY DEF Mapped

\* A longer sequence has the image of its last element last.
LEMMA MappedAppend ==
    ASSUME NEW X, NEW Y, NEW h \in [X -> Y], NEW s \in Seq(X), NEW x \in X
    PROVE  Mapped(h, Append(s, x)) = Append(Mapped(h, s), h[x])
<1> DEFINE r == Append(s, x)
           y == h[x]
<1>1. r \in Seq(X) /\ Len(r) = Len(s) + 1 /\ y \in Y
  OBVIOUS
<1> HIDE DEF r, y
<1>2. \A t \in Seq(X) : Mapped(h, t) \in Seq(Y) /\ Len(Mapped(h, t)) = Len(t)
  BY MappedType, ZenonT(120)
<1>3. Mapped(h, s) \in Seq(Y) /\ Len(Mapped(h, s)) = Len(s)
  BY <1>2
<1>4. Mapped(h, r) \in Seq(Y) /\ Len(Mapped(h, r)) = Len(s) + 1
  <2>1. Mapped(h, r) \in Seq(Y) /\ Len(Mapped(h, r)) = Len(r)
    BY <1>2, <1>1
  <2>2. QED
    BY <1>1, <2>1
<1>5. Append(Mapped(h, s), y) \in Seq(Y) /\ Len(Append(Mapped(h, s), y)) = Len(s) + 1
  BY <1>1, <1>3
<1>6. ASSUME NEW i \in 1..(Len(s) + 1)
      PROVE  Mapped(h, r)[i] = Append(Mapped(h, s), y)[i]
  <2>1. Mapped(h, r)[i] = h[r[i]]
    BY <1>1 DEF Mapped
  <2>2. CASE i = Len(s) + 1
    <3>1. r[i] = x
      BY <2>2 DEF r
    <3>2. Append(Mapped(h, s), y)[i] = y
      BY <1>1, <1>3, <2>2
    <3>3. QED
      BY <2>1, <3>1, <3>2 DEF y
  <2>3. CASE i \in 1..Len(s)
    <3>1. r[i] = s[i]
      BY <2>3 DEF r
    <3>2. Append(Mapped(h, s), y)[i] = Mapped(h, s)[i]
      BY <1>1, <1>3, <2>3
    <3>3. Mapped(h, s)[i] = h[s[i]]
      BY <2>3 DEF Mapped
    <3>4. QED
      BY <2>1, <3>1, <3>2, <3>3
  <2>4. i = Len(s) + 1 \/ i \in 1..Len(s)
    OBVIOUS
  <2>5. QED
    BY <2>2, <2>3, <2>4, Zenon
<1>7. Mapped(h, r) = Append(Mapped(h, s), y)
  BY <1>4, <1>5, <1>6
<1>8. QED
  BY <1>7 DEF r, y

\* When what is left out stays out, filtering before makes no difference.
LEMMA FilteredMapped ==
    ASSUME NEW X, NEW h \in [X -> X], NEW T, \A x \in X : h[x] \in T => x \in T
    PROVE  \A s \in Seq(X) :
             Filtered(Mapped(h, Filtered(s, T)), T) = Filtered(Mapped(h, s), T)
<1> DEFINE S == {s \in Seq(X) :
                   Filtered(Mapped(h, Filtered(s, T)), T) = Filtered(Mapped(h, s), T)}
<1>1. <<>> \in S
  BY FilteredEmpty
<1>2. ASSUME NEW s \in Seq(X), NEW x \in X, s \in S PROVE Append(s, x) \in S
  <2>1. Filtered(s, T) \in Seq(X)
    <3>1. Filtered(s, T) \in Seq(X \cap T)
      BY FilteredType
    <3>2. QED
      BY <3>1
  <2> DEFINE before == Mapped(h, Filtered(s, T))
             after == Mapped(h, s)
  <2>2. Filtered(before, T) = Filtered(after, T)
    BY <1>2
  <2>3. before \in Seq(X) /\ after \in Seq(X) /\ h[x] \in X
    BY <2>1, MappedType
  <2>4. Mapped(h, Append(s, x)) = Append(after, h[x])
    BY MappedAppend, ZenonT(60)
  <2>5. Mapped(h, Append(Filtered(s, T), x)) = Append(before, h[x])
    BY <2>1, MappedAppend, ZenonT(60)
  <2> HIDE DEF before, after
  <2>6. Filtered(Append(before, h[x]), T) = Filtered(Append(after, h[x]), T)
    <3>1. Filtered(Append(before, h[x]), T) =
            IF h[x] \in T THEN Append(Filtered(before, T), h[x]) ELSE Filtered(before, T)
      BY <2>3, FilteredAppend
    <3>2. Filtered(Append(after, h[x]), T) =
            IF h[x] \in T THEN Append(Filtered(after, T), h[x]) ELSE Filtered(after, T)
      BY <2>3, FilteredAppend
    <3>3. QED
      BY <2>2, <3>1, <3>2
  <2>7. CASE x \in T
    <3>1. Filtered(Append(s, x), T) = Append(Filtered(s, T), x)
      BY <2>7, FilteredAppend
    <3>2. Append(s, x) \in Seq(X)
      OBVIOUS
    <3>3. QED
      BY <2>4, <2>5, <2>6, <3>1, <3>2
  <2>8. CASE x \notin T
    <3>1. Filtered(Append(s, x), T) = Filtered(s, T)
      BY <2>8, FilteredAppend
    <3>2. Filtered(Append(after, h[x]), T) = Filtered(after, T)
      BY <2>3, <2>8, FilteredAppend
    <3>3. Append(s, x) \in Seq(X)
      OBVIOUS
    <3>4. QED
      BY <2>2, <2>4, <3>1, <3>2, <3>3 DEF before
  <2>9. QED
    BY <2>7, <2>8
<1> HIDE DEF S
<1>3. Seq(X) \subseteq S
  BY <1>1, <1>2, SequenceInduction
<1>4. QED
  BY <1>3 DEF S

-----------------------------------------------------------------------------
(* What the throttle and the sessions keep, and how it relates to what     *)
(* happened.                                                               *)

FailureRecords ==
    [attempts : Seq(0..Old), blocked : 0..MaxBackoff, seen : 0..Old, tracked : BOOLEAN]
WrongRecords == [ages : Seq(0..Window), since : 0..Old]

LoginsTyped ==
    /\ failures \in [Clients -> FailureRecords]
    /\ wrong \in [Clients -> WrongRecords]
    /\ sessions \in Seq(Session)
    /\ given \in Seq(Session)
    /\ password \in BOOLEAN

\* The attempts in the window are the wrong passwords, never more than the limit; none
\* is younger than the last one, and a block began before the oldest left the window.
Counted(f, w) ==
    /\ w.ages = InWindow(f.attempts)
    /\ Len(w.ages) <= MaxAttempts
    /\ \A a \in ElementsOf(w.ages) : w.since <= a
    /\ f.blocked > 0 => w.since + f.blocked <= Window + BaseBackoff

\* The sessions that have not expired are those given out, and an id is of one session.
SessionsKept ==
    /\ given = Live(sessions)
    /\ Len(sessions) <= MaxSessions
    /\ \A s, t \in ElementsOf(sessions) : s.id = t.id => s = t

LoginsInv ==
    /\ LoginsTyped
    /\ \A c \in Clients : Counted(failures[c], wrong[c])
    /\ SessionsKept

-----------------------------------------------------------------------------
(* The throttle.                                                           *)

\* The limits are numbers, and what is old is out of the window.
LEMMA LoginNumbers ==
    /\ Window \in Nat /\ BaseBackoff \in Nat /\ MaxBackoff \in Nat /\ MaxSessions \in Nat
    /\ MaxAttempts \in Nat /\ MaxAttempts > 0 /\ Duration \in Nat /\ Duration > 0
    /\ Old \in Nat /\ Old > Window
  BY LoginsAssumption DEF Old

\* Sequences over a set are sequences over a larger one.
LEMMA WiderSequences ==
    ASSUME NEW X, NEW Y, X \subseteq Y, NEW s \in Seq(X)
    PROVE  s \in Seq(Y)
  OBVIOUS

\* The elements of a sequence over a set are in the set.
LEMMA ElementsBelong ==
    ASSUME NEW X, NEW s \in Seq(X)
    PROVE  ElementsOf(s) \subseteq X
  BY DEF ElementsOf

\* The attempts in the window stay so when they are looked through again.
LEMMA InWindowFacts ==
    ASSUME NEW s \in Seq(0..Old)
    PROVE  /\ InWindow(s) \in Seq(0..Window)
           /\ InWindow(s) \in Seq(0..Old)
           /\ InWindow(InWindow(s)) = InWindow(s)
<1>1. Filtered(s, 0..Window) \in Seq((0..Old) \cap (0..Window))
  BY FilteredType
<1>2. InWindow(s) \in Seq(0..Window) /\ InWindow(s) \in Seq(0..Old)
  <2>1. /\ (0..Old) \cap (0..Window) \subseteq 0..Window
        /\ (0..Old) \cap (0..Window) \subseteq 0..Old
    OBVIOUS
  <2>2. QED
    BY <1>1, <2>1, WiderSequences DEF InWindow
<1>3. InWindow(InWindow(s)) = InWindow(s)
  BY <1>2, FilteredWhole DEF InWindow
<1>4. QED
  BY <1>2, <1>3

\* At the limit, the block is the base.
LEMMA BackoffAtLimit ==
    Backoff(MaxAttempts) \in 0..MaxBackoff /\ Backoff(MaxAttempts) <= BaseBackoff
<1>1. BaseBackoff * 2 ^ (MaxAttempts - MaxAttempts) = BaseBackoff
  BY LoginNumbers
<1>2. QED
  BY <1>1, LoginNumbers DEF Backoff

\* A client that is forgotten starts anew.
LEMMA ForgottenCounted ==
    /\ Untracked \in FailureRecords
    /\ NoWrong \in WrongRecords
    /\ Counted(Untracked, NoWrong)
<1>1. Untracked \in FailureRecords /\ NoWrong \in WrongRecords
  BY LoginNumbers DEF Untracked, NoWrong, FailureRecords, WrongRecords
<1>2. InWindow(<<>>) = <<>>
  BY FilteredEmpty DEF InWindow
<1>3. ElementsOf(<<>>) = {} /\ Len(<<>>) = 0
  BY DEF ElementsOf
<1>4. Counted(Untracked, NoWrong)
  BY <1>2, <1>3, LoginNumbers DEF Counted, Untracked, NoWrong
<1>5. QED
  BY <1>1, <1>4

\* Cleaning up counts as before; a client turned away then has a recent wrong password.
LEMMA CleanedCounted ==
    ASSUME LoginsTyped, NEW c \in Clients, Counted(failures[c], wrong[c])
    PROVE  LET f == CleanedUp[c] IN
           /\ f \in FailureRecords
           /\ Counted(f, wrong[c])
           /\ f.attempts = wrong[c].ages
           /\ ~Allowed(f) => wrong[c].since <= Window + BaseBackoff
           /\ f.blocked = 0 /\ ~Allowed(f) =>
                wrong[c].since <= Window /\ Len(f.attempts) = MaxAttempts
<1> DEFINE old == failures[c]
           w == wrong[c]
           kept == [old EXCEPT !.attempts = InWindow(@)]
           f == CleanedUp[c]
<1>1. old \in FailureRecords /\ w \in WrongRecords
  BY DEF LoginsTyped
<1>2. /\ old.attempts \in Seq(0..Old) /\ old.blocked \in 0..MaxBackoff
      /\ w.ages \in Seq(0..Window) /\ w.since \in 0..Old
  BY <1>1 DEF FailureRecords, WrongRecords
<1>3. /\ InWindow(old.attempts) \in Seq(0..Old)
      /\ InWindow(InWindow(old.attempts)) = InWindow(old.attempts)
  BY <1>2, InWindowFacts
<1>4. /\ w.ages = InWindow(old.attempts)
      /\ Len(w.ages) <= MaxAttempts
      /\ \A a \in ElementsOf(w.ages) : w.since <= a
      /\ old.blocked > 0 => w.since + old.blocked <= Window + BaseBackoff
  BY DEF Counted
<1>5. kept \in FailureRecords /\ kept.attempts = w.ages /\ kept.blocked = old.blocked
  BY <1>1, <1>3, <1>4 DEF FailureRecords
<1>6. f = IF kept.attempts = <<>> /\ kept.blocked = 0 THEN Untracked ELSE kept
  BY DEF CleanedUp
<1> HIDE DEF f, kept, old, w
<1>7. f.attempts = w.ages /\ f.blocked = old.blocked /\ f \in FailureRecords
  BY <1>5, <1>6, ForgottenCounted DEF Untracked
<1>8. Counted(f, w)
  BY <1>3, <1>4, <1>7 DEF Counted
<1>9. ASSUME f.blocked = 0, ~Allowed(f)
      PROVE  w.since <= Window /\ Len(f.attempts) = MaxAttempts
  <2>1. Len(w.ages) >= MaxAttempts
    BY <1>7, <1>9 DEF Allowed, TooMany
  <2>2. Len(w.ages) = MaxAttempts /\ w.ages[1] \in 0..Window /\ w.ages[1] \in ElementsOf(w.ages)
    BY <1>2, <1>4, <2>1, LoginNumbers DEF ElementsOf
  <2>3. w.since <= w.ages[1]
    BY <1>4, <2>2
  <2>4. QED
    BY <1>2, <1>7, <2>2, <2>3, LoginNumbers
<1>10. ASSUME ~Allowed(f) PROVE w.since <= Window + BaseBackoff
  <2>1. CASE f.blocked = 0
    BY <1>2, <1>9, <1>10, <2>1, LoginNumbers
  <2>2. CASE f.blocked # 0
    BY <1>2, <1>4, <1>7, <2>2, LoginNumbers
  <2>3. QED
    BY <2>1, <2>2
<1>11. QED
  BY <1>7, <1>8, <1>9, <1>10 DEF f, w

\* Being refused adds no wrong password, and blocks for the base at most.
LEMMA RefusedCounted ==
    ASSUME NEW f \in FailureRecords, NEW w \in WrongRecords, Counted(f, w),
           f.blocked = 0 => w.since <= Window /\ Len(f.attempts) = MaxAttempts
    PROVE  Refused(f) \in FailureRecords /\ Counted(Refused(f), w)
<1>1. CASE f.blocked > 0
  BY <1>1 DEF Refused
<1>2. CASE ~(f.blocked > 0)
  <2>1. f.blocked = 0 /\ w.since \in Nat
    BY <1>2, LoginNumbers DEF FailureRecords, WrongRecords
  <2>2. Refused(f) = [f EXCEPT !.blocked = Backoff(MaxAttempts)]
    BY <1>2, <2>1 DEF Refused
  <2>3. /\ Refused(f) \in FailureRecords
        /\ Refused(f).attempts = f.attempts
        /\ Refused(f).blocked = Backoff(MaxAttempts)
    BY <2>2, BackoffAtLimit DEF FailureRecords
  <2>4. w.since + Backoff(MaxAttempts) <= Window + BaseBackoff
    BY <2>1, BackoffAtLimit, LoginNumbers
  <2>5. QED
    BY <2>3, <2>4 DEF Counted
<1>3. QED
  BY <1>1, <1>2

\* A wrong password counts, and at the limit it blocks.
LEMMA FailedCounted ==
    ASSUME NEW f \in FailureRecords, NEW w \in WrongRecords, Counted(f, w),
           f.attempts = w.ages, Allowed(f)
    PROVE  LET v == [ages |-> InWindow(Append(w.ages, 0)), since |-> 0] IN
           Failed(f) \in FailureRecords /\ v \in WrongRecords /\ Counted(Failed(f), v)
<1> DEFINE s == Append(w.ages, 0)
           v == [ages |-> InWindow(s), since |-> 0]
<1>1. w.ages \in Seq(0..Window) /\ f.blocked = 0 /\ Len(w.ages) < MaxAttempts
  BY LoginNumbers DEF WrongRecords, Allowed, TooMany
<1>2. s \in Seq(0..Window) /\ s \in Seq(0..Old) /\ Len(s) <= MaxAttempts
  BY <1>1, LoginNumbers
<1>3. InWindow(s) = s
  BY <1>2, FilteredWhole DEF InWindow
<1>4. v \in WrongRecords /\ v.ages = s /\ v.since = 0
  <2> HIDE DEF s
  <2>1. v = [ages |-> s, since |-> 0] /\ 0 \in 0..Old
    BY <1>3, LoginNumbers
  <2>2. QED
    BY <1>2, <2>1 DEF WrongRecords
<1>5. \A a \in ElementsOf(s) : v.since <= a
  <2> HIDE DEF s
  <2>1. \A a \in ElementsOf(s) : a \in 0..Window
    BY <1>2, ElementsBelong
  <2>2. QED
    BY <1>4, <2>1
<1> DEFINE block == IF TooMany(Len(s)) THEN Backoff(Len(s)) ELSE 0
<1>6. block \in 0..MaxBackoff /\ block <= BaseBackoff
  <2>1. CASE TooMany(Len(s))
    <3>1. Len(s) = MaxAttempts
      BY <1>2, <2>1, LoginNumbers DEF TooMany
    <3>2. QED
      BY <2>1, <3>1, BackoffAtLimit
  <2>2. CASE ~TooMany(Len(s))
    BY <2>2, LoginNumbers
  <2>3. QED
    BY <2>1, <2>2
<1>7. Failed(f) = [attempts |-> s, seen |-> 0, tracked |-> TRUE,
                   blocked |-> IF block > f.blocked THEN block ELSE f.blocked]
  BY <1>3 DEF Failed
<1> HIDE DEF s, v, block
<1>8. Failed(f) = [attempts |-> s, seen |-> 0, tracked |-> TRUE, blocked |-> block]
  <2>1. (IF block > f.blocked THEN block ELSE f.blocked) = block
    BY <1>1, <1>6, LoginNumbers
  <2>2. QED
    BY <1>7, <2>1, Zenon
<1>9. Failed(f) \in FailureRecords
  BY <1>2, <1>6, <1>8, LoginNumbers DEF FailureRecords
<1>10. Counted(Failed(f), v)
  BY <1>2, <1>3, <1>4, <1>5, <1>6, <1>8, LoginNumbers DEF Counted
<1>11. QED
  BY <1>4, <1>9, <1>10 DEF v, s

-----------------------------------------------------------------------------
(* The sessions.                                                           *)

LiveSessions == {s \in Session : s.left > 0}

\* The sessions that have not expired are some of the sessions.
LEMMA LiveFacts ==
    ASSUME NEW ss \in Seq(Session)
    PROVE  /\ Live(ss) \in Seq(LiveSessions)
           /\ Live(ss) \in Seq(Session)
           /\ Len(Live(ss)) <= Len(ss)
           /\ ElementsOf(Live(ss)) = ElementsOf(ss) \cap LiveSessions
<1>1. /\ Filtered(ss, LiveSessions) \in Seq(Session \cap LiveSessions)
      /\ Len(Filtered(ss, LiveSessions)) <= Len(ss)
  BY FilteredType
<1>2. /\ Session \cap LiveSessions \subseteq LiveSessions
      /\ Session \cap LiveSessions \subseteq Session
  OBVIOUS
<1>3. ElementsOf(Filtered(ss, LiveSessions)) = ElementsOf(ss) \cap LiveSessions
  BY FilteredElements
<1>4. Live(ss) = Filtered(ss, LiveSessions)
  BY DEF Live, LiveSessions
<1>5. QED
  BY <1>1, <1>2, <1>3, <1>4, WiderSequences

\* Where none has expired all are live.
LEMMA LiveWhole ==
    ASSUME NEW ss \in Seq(LiveSessions)
    PROVE  Live(ss) = ss
  BY FilteredWhole DEF Live, LiveSessions

\* A new session comes after those that have not expired.
LEMMA SessionForKept ==
    ASSUME LoginsTyped, SessionsKept, NEW id \in SessionIds, FreeId(id), SessionFor(id)
    PROVE  /\ sessions' \in Seq(Session) /\ given' \in Seq(Session)
           /\ SessionsKept'
<1> DEFINE session == [id |-> id, left |-> Duration]
           latest == Append(given, session)
<1>1. session \in Session /\ session \in LiveSessions /\ session.id = id
  BY LoginNumbers DEF Session, LiveSessions
<1>2. /\ sessions \in Seq(Session) /\ given \in Seq(LiveSessions) /\ given = Live(sessions)
      /\ ElementsOf(given) \subseteq ElementsOf(sessions)
      /\ Len(given) <= MaxSessions
      /\ Len(sessions) <= MaxSessions /\ MaxSessions \in Nat
      /\ \A s, t \in ElementsOf(sessions) : s.id = t.id => s = t
  BY LiveFacts, LoginNumbers DEF LoginsTyped, SessionsKept
<1>3. /\ sessions' = Limited(Live(Append(sessions, session)))
      /\ given' = IF Len(latest) > MaxSessions THEN Tail(latest) ELSE latest
  BY DEF SessionFor
<1>4. \A s \in ElementsOf(given) : s.id # id
  BY DEF FreeId, IdsOf, ElementsOf
<1> HIDE DEF session
<1>5. Live(Append(sessions, session)) = latest
  <2>1. Filtered(Append(sessions, session), LiveSessions) =
          IF session \in LiveSessions THEN Append(Filtered(sessions, LiveSessions), session)
          ELSE Filtered(sessions, LiveSessions)
    BY <1>1, <1>2, FilteredAppend
  <2>2. QED
    BY <1>1, <1>2, <2>1 DEF Live, LiveSessions
<1>6. /\ latest \in Seq(LiveSessions) /\ Len(latest) = Len(given) + 1
      /\ ElementsOf(latest) = ElementsOf(given) \cup {session}
  BY <1>1, <1>2, ElementsAppend
<1>7. \A s, t \in ElementsOf(latest) : s.id = t.id => s = t
  BY <1>1, <1>2, <1>4, <1>6
<1> HIDE DEF latest
<1>8. sessions' = given'
  BY <1>3, <1>5 DEF Limited
<1>9. /\ given' \in Seq(LiveSessions)
      /\ Len(given') <= MaxSessions
      /\ ElementsOf(given') \subseteq ElementsOf(latest)
  <2>1. CASE Len(latest) > MaxSessions
    <3>1. Tail(latest) \in Seq(LiveSessions) /\ Len(Tail(latest)) = Len(latest) - 1
      BY <1>2, <1>6, <2>1
    <3>2. \A i \in DOMAIN Tail(latest) : i + 1 \in DOMAIN latest /\ Tail(latest)[i] = latest[i + 1]
      BY <1>2, <1>6, <2>1
    <3>3. ElementsOf(Tail(latest)) \subseteq ElementsOf(latest)
      BY <3>2 DEF ElementsOf
    <3>4. QED
      BY <1>2, <1>3, <1>6, <2>1, <3>1, <3>3
  <2>2. CASE ~(Len(latest) > MaxSessions)
    BY <1>2, <1>3, <1>6, <2>2
  <2>3. QED
    BY <2>1, <2>2
<1>10. Live(sessions') = sessions'
  BY <1>8, <1>9, LiveWhole
<1>11. given' \in Seq(Session) /\ sessions' \in Seq(Session)
  BY <1>8, <1>9, WiderSequences DEF LiveSessions
<1>12. SessionsKept'
  BY <1>7, <1>8, <1>9, <1>10 DEF SessionsKept
<1>13. QED
  BY <1>11, <1>12

\* Taking out one id.
LEMMA WithoutFacts ==
    ASSUME NEW ss \in Seq(Session), NEW id
    PROVE  /\ Without(ss, id) \in Seq(Session)
           /\ Len(Without(ss, id)) <= Len(ss)
           /\ ElementsOf(Without(ss, id)) = {s \in ElementsOf(ss) : s.id # id}
           /\ Live(Without(ss, id)) = Without(Live(ss), id)
<1> DEFINE T == {s \in Session : s.id # id}
<1>1. Filtered(ss, T) \in Seq(Session \cap T) /\ Len(Filtered(ss, T)) <= Len(ss)
  BY FilteredType
<1>2. ElementsOf(Filtered(ss, T)) = ElementsOf(ss) \cap T
  BY FilteredElements
<1>3. ElementsOf(ss) \subseteq Session
  BY DEF ElementsOf
<1>4. Filtered(Filtered(ss, T), LiveSessions) = Filtered(ss, T \cap LiveSessions)
  BY FilteredTwice
<1>5. Filtered(Filtered(ss, LiveSessions), T) = Filtered(ss, LiveSessions \cap T)
  BY FilteredTwice
<1>6. T \cap LiveSessions = LiveSessions \cap T /\ Session \cap T \subseteq Session
  OBVIOUS
<1>7. Without(ss, id) = Filtered(ss, T) /\ Without(Live(ss), id) = Filtered(Live(ss), T)
  BY DEF Without
<1>8. \A r : Live(r) = Filtered(r, LiveSessions)
  BY DEF Live, LiveSessions
<1>9. Live(Without(ss, id)) = Without(Live(ss), id)
  BY <1>4, <1>5, <1>6, <1>7, <1>8
<1>10. ElementsOf(Without(ss, id)) = {s \in ElementsOf(ss) : s.id # id}
  BY <1>2, <1>3, <1>7
<1> HIDE DEF T
<1>11. Without(ss, id) \in Seq(Session) /\ Len(Without(ss, id)) <= Len(ss)
  BY <1>1, <1>6, <1>7, WiderSequences
<1>12. QED
  BY <1>9, <1>10, <1>11

\* A session that is logged out is given out no more.
LEMMA WithoutKept ==
    ASSUME LoginsTyped, SessionsKept, NEW id, sessions' = Without(sessions, id),
           given' = Without(given, id)
    PROVE  /\ sessions' \in Seq(Session) /\ given' \in Seq(Session)
           /\ SessionsKept'
<1>1. /\ sessions \in Seq(Session) /\ given \in Seq(Session) /\ given = Live(sessions)
      /\ Len(sessions) <= MaxSessions /\ Len(sessions) \in Nat /\ MaxSessions \in Nat
      /\ \A s, t \in ElementsOf(sessions) : s.id = t.id => s = t
  BY LoginNumbers DEF LoginsTyped, SessionsKept
<1>2. sessions' \in Seq(Session) /\ given' \in Seq(Session) /\ Len(sessions') <= Len(sessions)
  BY <1>1, WithoutFacts
<1>3. ElementsOf(sessions') = {s \in ElementsOf(sessions) : s.id # id}
  BY <1>1, WithoutFacts
<1>4. given' = Live(sessions')
  BY <1>1, WithoutFacts
<1>5. Len(sessions') <= MaxSessions
  BY <1>1, <1>2
<1>6. QED
  BY <1>1, <1>2, <1>3, <1>4, <1>5 DEF SessionsKept

\* A session that has expired is not among those given out.
LEMMA ExpiredKept ==
    ASSUME LoginsTyped, SessionsKept, NEW id, ForgetExpired(id)
    PROVE  /\ sessions' \in Seq(Session) /\ given' \in Seq(Session)
           /\ SessionsKept'
<1>1. /\ sessions \in Seq(Session) /\ given \in Seq(Session) /\ given = Live(sessions)
      /\ \A s, t \in ElementsOf(sessions) : s.id = t.id => s = t
  BY DEF LoginsTyped, SessionsKept
<1>2. sessions' = Without(sessions, id) /\ given' = given
  BY DEF ForgetExpired
<1>3. PICK i \in DOMAIN sessions : sessions[i] = [id |-> id, left |-> 0]
  BY DEF ForgetExpired
<1>4. \A s \in ElementsOf(given) : s.id # id
  <2>1. SUFFICES ASSUME NEW s \in ElementsOf(given), s.id = id PROVE FALSE
    OBVIOUS
  <2>2. s \in ElementsOf(sessions) /\ s \in LiveSessions
    BY <1>1, LiveFacts
  <2>3. sessions[i] \in ElementsOf(sessions) /\ sessions[i].id = id /\ sessions[i].left = 0
    BY <1>3 DEF ElementsOf
  <2>4. s = sessions[i]
    BY <1>1, <2>1, <2>2, <2>3
  <2>5. QED
    BY <2>2, <2>3, <2>4 DEF LiveSessions
<1>5. Without(given, id) = given
  <2> DEFINE T == {s \in Session : s.id # id}
  <2>1. given \in Seq(T)
    BY <1>1, <1>4 DEF ElementsOf
  <2> HIDE DEF T
  <2>2. Filtered(given, T) = given
    BY <2>1, FilteredWhole
  <2>3. QED
    BY <2>2 DEF Without, T
<1>6. QED
  BY <1>2, <1>5, WithoutKept

-----------------------------------------------------------------------------
(* The steps.                                                              *)

\* In the beginning there are no attempts and no sessions.
LEMMA LoginsInitInv == LoginsInit => LoginsInv
<1> SUFFICES ASSUME LoginsInit PROVE LoginsInv
  OBVIOUS
<1>1. Live(<<>>) = <<>> /\ ElementsOf(<<>>) = {} /\ Len(<<>>) = 0
  BY FilteredEmpty DEF Live, ElementsOf
<1>2. LoginsTyped
  <2>1. failures \in [Clients -> FailureRecords] /\ wrong \in [Clients -> WrongRecords]
    BY ForgottenCounted DEF LoginsInit
  <2>2. sessions \in Seq(Session) /\ given \in Seq(Session)
    BY DEF LoginsInit
  <2>3. password \in BOOLEAN
    BY DEF LoginsInit
  <2>4. QED
    BY <2>1, <2>2, <2>3 DEF LoginsTyped
<1>3. \A c \in Clients : Counted(failures[c], wrong[c])
  BY ForgottenCounted DEF LoginsInit
<1>4. SessionsKept
  BY <1>1, LoginNumbers DEF LoginsInit, SessionsKept
<1>5. QED
  BY <1>2, <1>3, <1>4 DEF LoginsInv

\* Steps that leave the sessions as they are.
LEMMA SessionsRest ==
    ASSUME LoginsTyped, SessionsKept, UNCHANGED <<sessions, given>>
    PROVE  sessions' \in Seq(Session) /\ given' \in Seq(Session) /\ SessionsKept'
<1>1. sessions' = sessions /\ given' = given
  OBVIOUS
<1>2. sessions' \in Seq(Session) /\ given' \in Seq(Session)
  BY <1>1 DEF LoginsTyped
<1>3. SessionsKept'
  BY <1>1 DEF SessionsKept, Live, Filtered, ElementsOf
<1>4. QED
  BY <1>2, <1>3

\* Steps that leave the throttle as it is.
LEMMA ThrottleRests ==
    ASSUME LoginsInv, UNCHANGED <<failures, wrong>>,
           sessions' \in Seq(Session), given' \in Seq(Session), password' \in BOOLEAN,
           SessionsKept'
    PROVE  LoginsInv'
<1>1. failures' = failures /\ wrong' = wrong
  OBVIOUS
<1>2. LoginsTyped'
  BY <1>1 DEF LoginsInv, LoginsTyped
<1>3. \A c \in Clients : Counted(failures'[c], wrong'[c])
  BY <1>1 DEF LoginsInv
<1>4. QED
  BY <1>2, <1>3 DEF LoginsInv

\* Steps of the throttle, client by client.
LEMMA ThrottleMoves ==
    ASSUME LoginsInv, NEW fs, NEW ws, failures' = fs, wrong' = ws,
           fs = [c \in Clients |-> fs[c]], ws = [c \in Clients |-> ws[c]],
           \A c \in Clients :
               fs[c] \in FailureRecords /\ ws[c] \in WrongRecords /\ Counted(fs[c], ws[c]),
           sessions' \in Seq(Session), given' \in Seq(Session), password' \in BOOLEAN,
           SessionsKept'
    PROVE  LoginsInv'
<1>1. fs \in [Clients -> FailureRecords] /\ ws \in [Clients -> WrongRecords]
  OBVIOUS
<1>2. LoginsTyped'
  BY <1>1 DEF LoginsTyped
<1>3. \A c \in Clients : Counted(failures'[c], wrong'[c])
  OBVIOUS
<1>4. QED
  BY <1>2, <1>3 DEF LoginsInv

\* What cleaning up leaves of all clients.
LEMMA AllCleaned ==
    ASSUME LoginsInv
    PROVE  /\ CleanedUp = [c \in Clients |-> CleanedUp[c]]
           /\ wrong = [c \in Clients |-> wrong[c]]
           /\ \A c \in Clients :
                /\ CleanedUp[c] \in FailureRecords /\ wrong[c] \in WrongRecords
                /\ Counted(CleanedUp[c], wrong[c])
<1>1. CleanedUp = [c \in Clients |-> CleanedUp[c]]
  BY DEF CleanedUp
<1>2. wrong = [c \in Clients |-> wrong[c]] /\ \A c \in Clients : wrong[c] \in WrongRecords
  BY DEF LoginsInv, LoginsTyped
<1>3. \A c \in Clients : CleanedUp[c] \in FailureRecords /\ Counted(CleanedUp[c], wrong[c])
  BY CleanedCounted DEF LoginsInv
<1>4. QED
  BY <1>1, <1>2, <1>3

\* An attempt that is refused changes the block only.
LEMMA LoginRefusedInv == ASSUME LoginsInv, NEW c \in Clients, LoginRefused(c) PROVE LoginsInv'
<1> DEFINE old == CleanedUp
           fs == [old EXCEPT ![c] = Refused(@)]
<1>1. /\ failures' = fs /\ wrong' = wrong /\ password' = password
      /\ UNCHANGED <<sessions, given>> /\ ~Allowed(old[c])
  BY DEF LoginRefused
<1>2. /\ old = [d \in Clients |-> old[d]] /\ wrong = [d \in Clients |-> wrong[d]]
      /\ \A d \in Clients : /\ old[d] \in FailureRecords /\ wrong[d] \in WrongRecords
                            /\ Counted(old[d], wrong[d])
  BY AllCleaned
<1>3. old[c].blocked = 0 => wrong[c].since <= Window /\ Len(old[c].attempts) = MaxAttempts
  BY <1>1, CleanedCounted DEF LoginsInv
<1> HIDE DEF old
<1>4. Refused(old[c]) \in FailureRecords /\ Counted(Refused(old[c]), wrong[c])
  BY <1>2, <1>3, RefusedCounted
<1>5. fs = [d \in Clients |-> fs[d]] /\ fs[c] = Refused(old[c])
      /\ \A d \in Clients : d # c => fs[d] = old[d]
  BY <1>2
<1>6. sessions' \in Seq(Session) /\ given' \in Seq(Session) /\ SessionsKept'
  BY <1>1, SessionsRest DEF LoginsInv
<1>7. password' \in BOOLEAN
  BY <1>1 DEF LoginsInv, LoginsTyped
<1> HIDE DEF fs
<1>8. \A d \in Clients : /\ fs[d] \in FailureRecords /\ wrong[d] \in WrongRecords
                         /\ Counted(fs[d], wrong[d])
  BY <1>2, <1>4, <1>5
<1>9. QED
  BY <1>1, <1>2, <1>5, <1>6, <1>7, <1>8, ThrottleMoves

\* A wrong password is counted, and at most one client is forgotten for it.
LEMMA LoginFailsInv == ASSUME LoginsInv, NEW c \in Clients, LoginFails(c) PROVE LoginsInv'
<1> DEFINE old == CleanedUp
           v == [ages |-> InWindow(Append(wrong[c].ages, 0)), since |-> 0]
           fs == [old EXCEPT ![c] = Failed(@)]
           ws == [wrong EXCEPT ![c] = [ages |-> InWindow(Append(@.ages, 0)), since |-> 0]]
<1>1. /\ Allowed(old[c]) /\ password' = password /\ UNCHANGED <<sessions, given>>
      /\ \E gone \in Evictable(fs) :
           /\ failures' = [d \in Clients |-> IF d \in gone THEN Untracked ELSE fs[d]]
           /\ wrong' = [d \in Clients |-> IF d \in gone THEN NoWrong ELSE ws[d]]
  BY DEF LoginFails
<1>2. PICK gone : /\ failures' = [d \in Clients |-> IF d \in gone THEN Untracked ELSE fs[d]]
                  /\ wrong' = [d \in Clients |-> IF d \in gone THEN NoWrong ELSE ws[d]]
  BY <1>1
<1>3. /\ old = [d \in Clients |-> old[d]] /\ wrong = [d \in Clients |-> wrong[d]]
      /\ \A d \in Clients : /\ old[d] \in FailureRecords /\ wrong[d] \in WrongRecords
                            /\ Counted(old[d], wrong[d])
  BY AllCleaned
<1>4. old[c].attempts = wrong[c].ages
  BY CleanedCounted DEF LoginsInv
<1> HIDE DEF old
<1>5. Failed(old[c]) \in FailureRecords /\ v \in WrongRecords /\ Counted(Failed(old[c]), v)
  BY <1>1, <1>3, <1>4, FailedCounted
<1>6. /\ fs[c] = Failed(old[c]) /\ ws[c] = v
      /\ \A d \in Clients : d # c => fs[d] = old[d] /\ ws[d] = wrong[d]
  BY <1>3
<1>7. sessions' \in Seq(Session) /\ given' \in Seq(Session) /\ SessionsKept'
  BY <1>1, SessionsRest DEF LoginsInv
<1>8. password' \in BOOLEAN
  BY <1>1 DEF LoginsInv, LoginsTyped
<1> HIDE DEF fs, ws, v
<1>9. \A d \in Clients : /\ fs[d] \in FailureRecords /\ ws[d] \in WrongRecords
                         /\ Counted(fs[d], ws[d])
  BY <1>3, <1>5, <1>6
<1> DEFINE fs2 == [d \in Clients |-> IF d \in gone THEN Untracked ELSE fs[d]]
           ws2 == [d \in Clients |-> IF d \in gone THEN NoWrong ELSE ws[d]]
<1>10. \A d \in Clients : /\ fs2[d] \in FailureRecords /\ ws2[d] \in WrongRecords
                          /\ Counted(fs2[d], ws2[d])
  BY <1>9, ForgottenCounted
<1>11. /\ fs2 = [d \in Clients |-> fs2[d]] /\ ws2 = [d \in Clients |-> ws2[d]]
       /\ failures' = fs2 /\ wrong' = ws2
  BY <1>2
<1> HIDE DEF fs2, ws2
<1>12. QED
  BY <1>7, <1>8, <1>10, <1>11, ThrottleMoves

\* A sign-in forgets the attempts and makes a session.
LEMMA LoginSucceedsInv ==
    ASSUME LoginsInv, NEW c \in Clients, LoginSucceeds(c) PROVE LoginsInv'
<1> DEFINE old == CleanedUp
           fs == [old EXCEPT ![c] = Untracked]
           ws == [wrong EXCEPT ![c] = NoWrong]
<1>1. /\ failures' = fs /\ wrong' = ws /\ password' = password
      /\ \E id \in SessionIds : FreeId(id) /\ SessionFor(id)
  BY DEF LoginSucceeds
<1>2. /\ old = [d \in Clients |-> old[d]] /\ wrong = [d \in Clients |-> wrong[d]]
      /\ \A d \in Clients : /\ old[d] \in FailureRecords /\ wrong[d] \in WrongRecords
                            /\ Counted(old[d], wrong[d])
  BY AllCleaned
<1>3. sessions' \in Seq(Session) /\ given' \in Seq(Session) /\ SessionsKept'
  BY <1>1, SessionForKept DEF LoginsInv
<1>4. password' \in BOOLEAN
  BY <1>1 DEF LoginsInv, LoginsTyped
<1> HIDE DEF old
<1>5. /\ fs = [d \in Clients |-> fs[d]] /\ ws = [d \in Clients |-> ws[d]]
      /\ fs[c] = Untracked /\ ws[c] = NoWrong
      /\ \A d \in Clients : d # c => fs[d] = old[d] /\ ws[d] = wrong[d]
  BY <1>2
<1> HIDE DEF fs, ws
<1>6. \A d \in Clients : /\ fs[d] \in FailureRecords /\ ws[d] \in WrongRecords
                         /\ Counted(fs[d], ws[d])
  BY <1>2, <1>5, ForgottenCounted
<1>7. QED
  BY <1>1, <1>3, <1>4, <1>5, <1>6, ThrottleMoves

\* A logout touches no attempts.
LEMMA LogoutInv == ASSUME LoginsInv, NEW id, Logout(id) PROVE LoginsInv'
<1>1. /\ sessions' = Without(sessions, id) /\ given' = Without(given, id)
      /\ UNCHANGED <<failures, wrong>> /\ password' = password
  BY DEF Logout
<1>2. sessions' \in Seq(Session) /\ given' \in Seq(Session) /\ SessionsKept'
  BY <1>1, WithoutKept DEF LoginsInv
<1>3. password' \in BOOLEAN
  BY <1>1 DEF LoginsInv, LoginsTyped
<1>4. QED
  BY <1>1, <1>2, <1>3, ThrottleRests

\* The expired session of a request is forgotten, and nothing else.
LEMMA ForgetExpiredInv == ASSUME LoginsInv, NEW id, ForgetExpired(id) PROVE LoginsInv'
<1>1. UNCHANGED <<failures, wrong>> /\ password' = password
  BY DEF ForgetExpired
<1>2. sessions' \in Seq(Session) /\ given' \in Seq(Session) /\ SessionsKept'
  BY ExpiredKept DEF LoginsInv
<1>3. password' \in BOOLEAN
  BY <1>1 DEF LoginsInv, LoginsTyped
<1>4. QED
  BY <1>1, <1>2, <1>3, ThrottleRests

\* The password is no part of the throttle.
LEMMA SetPasswordInv == ASSUME LoginsInv, SetPassword PROVE LoginsInv'
<1>1. UNCHANGED <<failures, wrong>> /\ UNCHANGED <<sessions, given>> /\ password' \in BOOLEAN
  BY DEF SetPassword
<1>2. sessions' \in Seq(Session) /\ given' \in Seq(Session) /\ SessionsKept'
  BY <1>1, SessionsRest DEF LoginsInv
<1>3. QED
  BY <1>1, <1>2, ThrottleRests

\* A restart or reset leaves nothing.
LEMMA ForgetLoginsInv == ASSUME LoginsInv, NEW keep \in BOOLEAN, ForgetLogins(keep) PROVE LoginsInv'
<1> DEFINE fs == [c \in Clients |-> Untracked]
           ws == [c \in Clients |-> NoWrong]
<1>1. /\ failures' = fs /\ wrong' = ws /\ sessions' = <<>> /\ given' = <<>>
      /\ password' = (keep /\ password)
  BY DEF ForgetLogins
<1>2. Live(<<>>) = <<>> /\ ElementsOf(<<>>) = {} /\ Len(<<>>) = 0
  BY FilteredEmpty DEF Live, ElementsOf
<1>3. SessionsKept'
  BY <1>1, <1>2, LoginNumbers DEF SessionsKept
<1>4. password' \in BOOLEAN
  BY <1>1 DEF LoginsInv, LoginsTyped
<1>5. /\ fs = [c \in Clients |-> fs[c]] /\ ws = [c \in Clients |-> ws[c]]
      /\ \A c \in Clients : fs[c] = Untracked /\ ws[c] = NoWrong
  OBVIOUS
<1> HIDE DEF fs, ws
<1>6. \A c \in Clients : /\ fs[c] \in FailureRecords /\ ws[c] \in WrongRecords
                         /\ Counted(fs[c], ws[c])
  BY <1>5, ForgottenCounted
<1>7. sessions' \in Seq(Session) /\ given' \in Seq(Session)
  BY <1>1
<1>8. QED
  BY <1>1, <1>3, <1>4, <1>5, <1>6, <1>7, ThrottleMoves

\* The clock ages what the throttle keeps of a client.
LEMMA TickCounted ==
    ASSUME NEW f \in FailureRecords, NEW w \in WrongRecords, Counted(f, w),
           NEW v, NEW x,
           v = [f EXCEPT !.attempts = [i \in DOMAIN f.attempts |-> Older(f.attempts[i])],
                         !.blocked = Less(@), !.seen = IF f.tracked THEN Older(@) ELSE @],
           x = [ages |-> InWindow([i \in DOMAIN w.ages |-> Older(w.ages[i])]),
                since |-> Older(w.since)]
    PROVE  v \in FailureRecords /\ x \in WrongRecords /\ Counted(v, x)
<1> DEFINE h == [a \in 0..Old |-> Older(a)]
<1>1. /\ f.attempts \in Seq(0..Old) /\ f.blocked \in 0..MaxBackoff /\ f.seen \in 0..Old
      /\ f.tracked \in BOOLEAN
      /\ w.ages \in Seq(0..Window) /\ w.since \in 0..Old
  BY DEF FailureRecords, WrongRecords
<1>2. w.ages \in Seq(0..Old)
  <2>1. 0..Window \subseteq 0..Old
    BY LoginNumbers
  <2>2. QED
    BY <1>1, <2>1, WiderSequences
<1>3. /\ h \in [0..Old -> 0..Old]
      /\ \A a \in 0..Old : h[a] = Older(a) /\ h[a] >= a /\ h[a] <= a + 1
      /\ \A a \in 0..Old : h[a] \in 0..Window => a \in 0..Window
      /\ \A a, b \in 0..Old : a <= b => h[a] <= h[b]
  BY LoginNumbers DEF Older
<1> HIDE DEF h
<1>4. \A s \in Seq(0..Old) : [i \in DOMAIN s |-> Older(s[i])] = Mapped(h, s)
  <2>1. SUFFICES ASSUME NEW s \in Seq(0..Old)
                 PROVE  [i \in DOMAIN s |-> Older(s[i])] = Mapped(h, s)
    OBVIOUS
  <2>2. \A i \in DOMAIN s : Older(s[i]) = h[s[i]]
    <3>1. \A i \in DOMAIN s : s[i] \in 0..Old
      BY ElementsBelong DEF ElementsOf
    <3>2. QED
      BY <1>3, <3>1
  <2>3. QED
    BY <2>2 DEF Mapped
<1>5. \A s \in Seq(0..Old) : Mapped(h, s) \in Seq(0..Old) /\ Len(Mapped(h, s)) = Len(s)
  <2> DEFINE R == 0..Old
  <2>1. h \in [R -> R]
    BY <1>3
  <2> HIDE DEF R
  <2>2. \A s \in Seq(R) : Mapped(h, s) \in Seq(R) /\ Len(Mapped(h, s)) = Len(s)
    BY <2>1, MappedType
  <2>3. QED
    BY <2>2 DEF R
<1> DEFINE after == Mapped(h, f.attempts)
           ages == InWindow(Mapped(h, w.ages))
<1>6. ages = InWindow(after)
  <2>1. \A s \in Seq(0..Old) :
          Filtered(Mapped(h, Filtered(s, 0..Window)), 0..Window) = Filtered(Mapped(h, s), 0..Window)
    <3> DEFINE R == 0..Old
               T == 0..Window
    <3>1. h \in [R -> R] /\ \A a \in R : h[a] \in T => a \in T
      BY <1>3
    <3> HIDE DEF R, T
    <3>2. \A s \in Seq(R) :
            Filtered(Mapped(h, Filtered(s, T)), T) = Filtered(Mapped(h, s), T)
      BY <3>1, FilteredMapped
    <3>3. QED
      BY <3>2 DEF R, T
  <2>2. w.ages = Filtered(f.attempts, 0..Window)
    BY DEF Counted, InWindow
  <2>3. QED
    BY <1>1, <2>1, <2>2 DEF InWindow
<1>7. ages \in Seq(0..Window) /\ Len(ages) <= MaxAttempts
      /\ ElementsOf(ages) \subseteq ElementsOf(Mapped(h, w.ages))
  <2> DEFINE m == Mapped(h, w.ages)
  <2>1. m \in Seq(0..Old) /\ Len(m) = Len(w.ages) /\ Len(m) <= MaxAttempts
    BY <1>2, <1>5 DEF Counted
  <2> HIDE DEF m
  <2>2. Filtered(m, 0..Window) \in Seq((0..Old) \cap (0..Window))
        /\ Len(Filtered(m, 0..Window)) <= Len(m)
    BY <2>1, FilteredType
  <2>3. ElementsOf(Filtered(m, 0..Window)) = ElementsOf(m) \cap (0..Window)
    BY <2>1, FilteredElements
  <2>4. InWindow(m) \in Seq(0..Window) /\ Len(InWindow(m)) \in Nat /\ Len(m) \in Nat
    BY <2>1, InWindowFacts
  <2>5. Len(InWindow(m)) <= MaxAttempts
    BY <2>1, <2>2, <2>4, LoginNumbers DEF InWindow
  <2>6. QED
    BY <2>3, <2>4, <2>5 DEF m, InWindow
<1>8. \A a \in ElementsOf(ages) : h[w.since] <= a
  <2>1. SUFFICES ASSUME NEW i \in DOMAIN w.ages PROVE h[w.since] <= h[w.ages[i]]
    <3>1. DOMAIN Mapped(h, w.ages) = DOMAIN w.ages
          /\ \A j \in DOMAIN w.ages : Mapped(h, w.ages)[j] = h[w.ages[j]]
      BY DEF Mapped
    <3>2. ElementsOf(Mapped(h, w.ages)) = {h[w.ages[j]] : j \in DOMAIN w.ages}
      BY <3>1 DEF ElementsOf
    <3>3. QED
      BY <1>7, <2>1, <3>2
  <2>2. w.ages[i] \in ElementsOf(w.ages) /\ w.ages[i] \in 0..Old
    BY <1>2, ElementsBelong DEF ElementsOf
  <2>3. w.since <= w.ages[i]
    BY <2>2 DEF Counted
  <2>4. QED
    BY <1>1, <1>3, <2>2, <2>3
<1>9. /\ v.attempts = after /\ v.blocked = Less(f.blocked)
      /\ v = [attempts |-> after, blocked |-> Less(f.blocked),
              seen |-> IF f.tracked THEN Older(f.seen) ELSE f.seen, tracked |-> f.tracked]
  BY <1>1, <1>4 DEF FailureRecords
<1>10. x = [ages |-> ages, since |-> h[w.since]]
  BY <1>1, <1>2, <1>3, <1>4
<1>11. after \in Seq(0..Old)
  BY <1>1, <1>5
<1> HIDE DEF after, ages
<1>12. /\ Less(f.blocked) \in 0..MaxBackoff
       /\ Less(f.blocked) > 0 => Less(f.blocked) = f.blocked - 1 /\ f.blocked > 0
  BY <1>1, LoginNumbers, SMTT(60) DEF Less
<1>13. (IF f.tracked THEN Older(f.seen) ELSE f.seen) \in 0..Old
  BY <1>1, LoginNumbers, SMTT(60) DEF Older
<1>14. v \in FailureRecords
  BY <1>1, <1>9, <1>11, <1>12, <1>13 DEF FailureRecords
<1>15. x \in WrongRecords
  BY <1>1, <1>3, <1>7, <1>10 DEF WrongRecords
<1>16. v.blocked > 0 => h[w.since] + v.blocked <= Window + BaseBackoff
  <2>1. SUFFICES ASSUME v.blocked > 0 PROVE h[w.since] + v.blocked <= Window + BaseBackoff
    OBVIOUS
  <2>2. v.blocked = f.blocked - 1 /\ f.blocked > 0 /\ f.blocked \in Nat
    BY <1>1, <1>9, <1>12, <2>1, LoginNumbers
  <2>3. w.since + f.blocked <= Window + BaseBackoff
    BY <2>2 DEF Counted
  <2>4. h[w.since] <= w.since + 1 /\ h[w.since] \in Nat /\ w.since \in Nat
    BY <1>1, <1>3, LoginNumbers
  <2>5. QED
    BY <2>2, <2>3, <2>4, LoginNumbers
<1>17. Counted(v, x)
  BY <1>6, <1>7, <1>8, <1>9, <1>10, <1>16, SMTT(60) DEF Counted
<1>18. QED
  BY <1>14, <1>15, <1>17

\* The clock ages sessions, those kept and those given out alike.
LEMMA TickKept ==
    ASSUME LoginsTyped, SessionsKept, LoginsTick
    PROVE  sessions' \in Seq(Session) /\ given' \in Seq(Session) /\ SessionsKept'
<1> DEFINE h == [s \in Session |-> [s EXCEPT !.left = Less(@)]]
<1>1. /\ sessions \in Seq(Session) /\ given = Live(sessions) /\ given \in Seq(Session)
      /\ Len(sessions) <= MaxSessions
      /\ \A s, t \in ElementsOf(sessions) : s.id = t.id => s = t
  BY DEF LoginsTyped, SessionsKept
<1>2. \A s \in Session : /\ h[s] \in Session /\ h[s].id = s.id
                         /\ h[s] \in LiveSessions => s \in LiveSessions
  BY LoginNumbers DEF Session, LiveSessions, Less
<1>3. h \in [Session -> Session]
  BY <1>2
<1>4. \A ss \in Seq(Session) : [i \in DOMAIN ss |-> [ss[i] EXCEPT !.left = Less(@)]] = Mapped(h, ss)
  BY DEF Mapped
<1> HIDE DEF h
<1>5. sessions' = Mapped(h, sessions) /\ given' = Live(Mapped(h, given))
  BY <1>1, <1>4 DEF LoginsTick
<1>6. \A ss \in Seq(Session) : Mapped(h, ss) \in Seq(Session) /\ Len(Mapped(h, ss)) = Len(ss)
  BY <1>3, MappedType
<1>7. given' = Live(sessions')
  <2>1. \A ss \in Seq(Session) :
          Filtered(Mapped(h, Filtered(ss, LiveSessions)), LiveSessions)
            = Filtered(Mapped(h, ss), LiveSessions)
    BY <1>2, <1>3, FilteredMapped
  <2>2. \A ss : Live(ss) = Filtered(ss, LiveSessions)
    BY DEF Live, LiveSessions
  <2>3. QED
    BY <1>1, <1>5, <2>1, <2>2
<1>8. sessions' \in Seq(Session) /\ given' \in Seq(Session) /\ Len(sessions') <= MaxSessions
  BY <1>1, <1>5, <1>6, <1>7, LiveFacts
<1>9. \A s, t \in ElementsOf(sessions') : s.id = t.id => s = t
  <2>1. \A s \in ElementsOf(sessions') : \E r \in ElementsOf(sessions) : s = h[r]
    BY <1>5 DEF Mapped, ElementsOf
  <2>2. \A r \in ElementsOf(sessions) : r \in Session
    BY <1>1, ElementsBelong
  <2>3. QED
    BY <1>1, <1>2, <2>1, <2>2
<1>10. QED
  BY <1>7, <1>8, <1>9 DEF SessionsKept

\* The clock moves both.
LEMMA LoginsTickInv == ASSUME LoginsInv, LoginsTick PROVE LoginsInv'
<1> DEFINE f2(c) == [failures[c] EXCEPT
                       !.attempts = [i \in DOMAIN failures[c].attempts |->
                                       Older(failures[c].attempts[i])],
                       !.blocked = Less(@),
                       !.seen = IF failures[c].tracked THEN Older(@) ELSE @]
           w2(c) == [ages |-> InWindow([i \in DOMAIN wrong[c].ages |-> Older(wrong[c].ages[i])]),
                     since |-> Older(wrong[c].since)]
           fs == [c \in Clients |-> f2(c)]
           ws == [c \in Clients |-> w2(c)]
<1>1. failures' = fs /\ wrong' = ws
  BY DEF LoginsTick
<1>2. \A c \in Clients : /\ failures[c] \in FailureRecords /\ wrong[c] \in WrongRecords
                         /\ Counted(failures[c], wrong[c])
  BY DEF LoginsInv, LoginsTyped
<1>3. ASSUME NEW c \in Clients
      PROVE  fs[c] \in FailureRecords /\ ws[c] \in WrongRecords /\ Counted(fs[c], ws[c])
  <2>1. fs[c] = f2(c) /\ ws[c] = w2(c)
    OBVIOUS
  <2>2. f2(c) \in FailureRecords /\ w2(c) \in WrongRecords /\ Counted(f2(c), w2(c))
    <3>1. \A v, x : v = f2(c) /\ x = w2(c) =>
            v \in FailureRecords /\ x \in WrongRecords /\ Counted(v, x)
      BY <1>2, TickCounted
    <3> HIDE DEF f2, w2
    <3>2. QED
      BY <3>1
  <2> HIDE DEF f2, w2, fs, ws
  <2>3. QED
    BY <2>1, <2>2
<1>4. sessions' \in Seq(Session) /\ given' \in Seq(Session) /\ SessionsKept'
  BY TickKept DEF LoginsInv
<1>5. password' \in BOOLEAN
  BY DEF LoginsTick, LoginsInv, LoginsTyped
<1> HIDE DEF f2, w2
<1>6. fs = [c \in Clients |-> fs[c]] /\ ws = [c \in Clients |-> ws[c]]
  OBVIOUS
<1> HIDE DEF fs, ws
<1>7. QED
  BY <1>1, <1>3, <1>4, <1>5, <1>6, ThrottleMoves

-----------------------------------------------------------------------------
(* The theorems.                                                           *)

\* Every step keeps the invariant.
LEMMA LoginsStep == LoginsInv /\ [LoginsNext]_loginVars => LoginsInv'
<1> SUFFICES ASSUME LoginsInv, [LoginsNext]_loginVars PROVE LoginsInv'
  OBVIOUS
<1>1. CASE UNCHANGED loginVars
  <2>1. UNCHANGED <<failures, wrong>> /\ UNCHANGED <<sessions, given>> /\ password' = password
    BY <1>1 DEF loginVars
  <2>2. sessions' \in Seq(Session) /\ given' \in Seq(Session) /\ SessionsKept'
    BY <2>1, SessionsRest DEF LoginsInv
  <2>3. password' \in BOOLEAN
    BY <2>1 DEF LoginsInv, LoginsTyped
  <2>4. QED
    BY <2>1, <2>2, <2>3, ThrottleRests
<1>2. ASSUME NEW c \in Clients, LoginRefused(c) PROVE LoginsInv'
  BY <1>2, LoginRefusedInv
<1>3. ASSUME NEW c \in Clients, LoginFails(c) PROVE LoginsInv'
  BY <1>3, LoginFailsInv
<1>4. ASSUME NEW c \in Clients, LoginSucceeds(c) PROVE LoginsInv'
  BY <1>4, LoginSucceedsInv
<1>5. ASSUME NEW id \in SessionIds, Logout(id) PROVE LoginsInv'
  BY <1>5, LogoutInv
<1>6. ASSUME NEW id \in SessionIds, ForgetExpired(id) PROVE LoginsInv'
  BY <1>6, ForgetExpiredInv
<1>7. CASE SetPassword
  BY <1>7, SetPasswordInv
<1>8. CASE LoginsTick
  BY <1>8, LoginsTickInv
<1>9. ASSUME NEW keep \in BOOLEAN, ForgetLogins(keep) PROVE LoginsInv'
  BY <1>9, ForgetLoginsInv
<1>10. QED
  BY <1>1, <1>2, <1>3, <1>4, <1>5, <1>6, <1>7, <1>8, <1>9 DEF LoginsNext

\* It holds in every state.
LEMMA AlwaysLoginsInv == LoginsSpec => []LoginsInv
  BY LoginsInitInv, LoginsStep, PTL DEF LoginsSpec

\* The tables of failed attempts and of sessions, the password, and what has happened to
\* them (auth.py) have their types.
THEOREM LoginsTypeCorrect == LoginsSpec => []LoginsTypeOK
<1>1. LoginsInv => LoginsTypeOK
  <2> SUFFICES ASSUME LoginsInv PROVE LoginsTypeOK
    OBVIOUS
  <2>1. \A c \in Clients : failures[c] \in FailureRecords /\ wrong[c] \in WrongRecords
    BY DEF LoginsInv, LoginsTyped
  <2>2. /\ sessions \in Seq(Session) /\ given \in Seq(Session) /\ password \in BOOLEAN
    BY DEF LoginsInv, LoginsTyped
  <2>3. \A c \in Clients :
          /\ failures[c].attempts \in Seq(0..Old)
          /\ failures[c].blocked \in 0..MaxBackoff
          /\ failures[c].seen \in 0..Old
          /\ failures[c].tracked \in BOOLEAN
          /\ wrong[c].ages \in Seq(0..Window)
          /\ wrong[c].since \in 0..Old
    BY <2>1 DEF FailureRecords, WrongRecords
  <2>4. QED
    BY <2>2, <2>3 DEF LoginsTypeOK
<1>2. QED
  BY <1>1, AlwaysLoginsInv, PTL

\* Guessing is throttled, a lockout ends, and the latest sessions last (auth.py), for any
\* clients, window and limits, in whatever order clients fail, succeed, wait and log out.
THEOREM LoginsSoundHolds == LoginsSpec => []LoginsSound
<1>1. LoginsInv => LoginsSound
  <2> SUFFICES ASSUME LoginsInv PROVE LoginsSound
    OBVIOUS
  <2>1. Throttled
    BY DEF LoginsInv, Counted, Throttled
  <2>2. LockoutEnds
    BY CleanedCounted DEF LoginsInv, LockoutEnds
  <2>3. SessionsLast
    <3>1. sessions \in Seq(Session) /\ given = Live(sessions) /\ Len(sessions) <= MaxSessions
      BY DEF LoginsInv, LoginsTyped, SessionsKept
    <3>2. ElementsOf(given) \subseteq ElementsOf(sessions)
      BY <3>1, LiveFacts
    <3>3. \A i \in DOMAIN given : \E j \in DOMAIN sessions : sessions[j] = given[i]
      BY <3>2 DEF ElementsOf
    <3>4. QED
      BY <3>1, <3>3 DEF SessionsLast
  <2>4. QED
    BY <2>1, <2>2, <2>3 DEF LoginsSound
<1>2. QED
  BY <1>1, AlwaysLoginsInv, PTL

-----------------------------------------------------------------------------
(* The cluster, the tokens and the sign-ins.                               *)

\* What is checked of the three parts in one run is checked of each: a step of one leaves
\* the others at rest.
THEOREM AdministrationIsParts ==
    AdministrationSpec => ClusterSpec /\ TokensSpec /\ LoginsSpec
<1>1. AdministrationInit => Init /\ TokensInit /\ LoginsInit
  BY DEF AdministrationInit
<1>2. [AdministrationNext]_<<vars, tokenVars, loginVars, part>> =>
        [ClusterNext]_vars /\ [TokensNext]_tokenVars /\ [LoginsNext]_loginVars
  <2> SUFFICES ASSUME [AdministrationNext]_<<vars, tokenVars, loginVars, part>>
               PROVE  [ClusterNext]_vars /\ [TokensNext]_tokenVars /\ [LoginsNext]_loginVars
    OBVIOUS
  <2>1. CASE UNCHANGED <<vars, tokenVars, loginVars, part>>
    BY <2>1
  <2>2. CASE AdministrationNext
    <3>1. \/ ClusterNext /\ UNCHANGED <<tokenVars, loginVars>>
          \/ TokensNext /\ UNCHANGED <<vars, loginVars>>
          \/ LoginsNext /\ UNCHANGED <<vars, tokenVars>>
      BY <2>2, Zenon
         DEF AdministrationNext, ClusterMoves, TokensMove, LoginsMove, ClusterNext, TokensNext,
             LoginsNext
    <3>2. QED
      BY <3>1
  <2>3. QED
    BY <2>1, <2>2
<1>3. QED
  BY <1>1, <1>2, PTL DEF AdministrationSpec, ClusterSpec, TokensSpec, LoginsSpec

\* Whoever enrolls, signs in or holds a token, every variable of the three parts has values
\* of its kind.
THEOREM AdministrationTypeCorrect == AdministrationSpec => []AdministrationTypeOK
<1>1. TypeOK /\ TokensTypeOK /\ LoginsTypeOK => AdministrationTypeOK
  BY DEF AdministrationTypeOK
<1>2. QED
  BY <1>1, AdministrationIsParts, TypeCorrect, TokensTypeCorrect, LoginsTypeCorrect, PTL
=============================================================================
