------------------------------- MODULE Logins -------------------------------
(***************************************************************************)
(* Sign-in with the admin password (auth.py 44-181, cluster_routes.py      *)
(* 110-246): the throttle of failed attempts by client, the sessions, and  *)
(* the password that is set once.  Times are kept as ages, so that the     *)
(* clock has no end.  A tick is a slice of the window; a session lives for *)
(* some ticks.                                                             *)
(***************************************************************************)
EXTENDS Naturals, Sequences, FiniteSets

CONSTANTS
    Clients,         \* the addresses that attempts come from
    Window,          \* LOGIN_WINDOW_SECONDS
    MaxAttempts,     \* LOGIN_MAX_ATTEMPTS
    BaseBackoff, MaxBackoff,
    MaxTracked,      \* MAX_LOGIN_TRACKED_CLIENTS
    MaxSessions,
    Duration         \* of a session; every session has the same

ASSUME LoginsAssumption ==
    /\ {Window, BaseBackoff, MaxBackoff, MaxTracked, MaxSessions} \subseteq Nat
    /\ {MaxAttempts, Duration} \subseteq Nat \ {0}

VARIABLES
    failures,   \* _login_failures
    sessions,   \* _sessions, in the order of their making
    password,   \* admin_password_hash is set
    wrong,      \* history: ages of the wrong passwords compared for a client
    given       \* history: the last MaxSessions sessions given out and not ended

loginVars == <<failures, sessions, password, wrong, given>>

\* A client nothing is kept of; otherwise the ages of its attempts, the rest of its
\* block, and how long ago it was last seen.  Older than old makes no difference.
Untracked == [attempts |-> <<>>, blocked |-> 0, seen |-> 0, tracked |-> FALSE]
Old == Window + MaxBackoff + 1
SessionIds == 1..(2 * MaxSessions + 1)
NoWrong == [ages |-> <<>>, since |-> Old]

LoginsInit ==
    /\ failures = [c \in Clients |-> Untracked]
    /\ sessions = <<>>
    /\ password = FALSE
    /\ wrong = [c \in Clients |-> NoWrong]
    /\ given = <<>>

-----------------------------------------------------------------------------
(* The throttle.                                                           *)

\* The elements of a sequence that belong to a set, as list comprehensions have them.
Filtered(s, T) ==
    LET kept[n \in 0..Len(s)] ==
            IF n = 0 THEN <<>>
            ELSE IF s[n] \in T THEN Append(kept[n - 1], s[n]) ELSE kept[n - 1] IN
    kept[Len(s)]

InWindow(ages) == Filtered(ages, 0..Window)

\* _cleanup_login_failures.
CleanedUp ==
    [c \in Clients |->
        LET f == [failures[c] EXCEPT !.attempts = InWindow(@)] IN
        IF f.attempts = <<>> /\ f.blocked = 0 THEN Untracked ELSE f]

Backoff(n) ==
    LET delay == BaseBackoff * 2 ^ (n - MaxAttempts) IN
    IF delay < MaxBackoff THEN delay ELSE MaxBackoff

\* Variant of TooMany: the limit itself is still allowed.
MoreThanLimit(n) == n > MaxAttempts

TooMany(n) == n >= MaxAttempts

\* login_is_allowed.
Allowed(f) == f.blocked = 0 /\ ~TooMany(Len(f.attempts))

\* An attempt that is not allowed is not counted, but begins a new block when the last
\* one has ended and the attempts that caused it have not.
Refused(f) ==
    IF f.blocked > 0 THEN f ELSE [f EXCEPT !.blocked = Backoff(Len(f.attempts))]

\* record_failed_login.
Failed(f) ==
    LET attempts == InWindow(Append(f.attempts, 0))
        block == IF TooMany(Len(attempts)) THEN Backoff(Len(attempts)) ELSE 0 IN
    [attempts |-> attempts, seen |-> 0, tracked |-> TRUE,
     blocked |-> IF block > f.blocked THEN block ELSE f.blocked]

\* _evict_login_clients: if there are too many, the one seen longest ago.
Tracked(fs) == {c \in Clients : fs[c].tracked}

Evictable(fs) ==
    IF Cardinality(Tracked(fs)) <= MaxTracked THEN {{}}
    ELSE {{c} : c \in {c \in Tracked(fs) : \A d \in Tracked(fs) : fs[d].seen <= fs[c].seen}}

-----------------------------------------------------------------------------
(* Sessions.                                                               *)

Session == [id : SessionIds, left : 0..Duration]

Live(ss) == Filtered(ss, {s \in Session : s.left > 0})

Without(ss, id) == Filtered(ss, {s \in Session : s.id # id})

IdsOf(ss) == {ss[i].id : i \in DOMAIN ss}

\* All last equally long, so the one that expires first is the one made first.
Limited(ss) == IF Len(ss) > MaxSessions THEN Tail(ss) ELSE ss

\* create_session.
SessionFor(id) ==
    LET session == [id |-> id, left |-> Duration]
        latest == Append(given, session) IN
    /\ sessions' = Limited(Live(Append(sessions, session)))
    /\ given' = IF Len(latest) > MaxSessions THEN Tail(latest) ELSE latest

FreeId(id) ==
    LET used == IdsOf(sessions) \cup IdsOf(given) IN
    id \notin used /\ \A i \in SessionIds \ used : id <= i

-----------------------------------------------------------------------------
(* auth_login.                                                             *)

LoginRefused(c) ==
    /\ ~Allowed(CleanedUp[c])
    /\ failures' = [CleanedUp EXCEPT ![c] = Refused(@)]
    /\ UNCHANGED <<sessions, password, wrong, given>>

\* Without a password every attempt fails.
LoginFails(c) ==
    LET fs == [CleanedUp EXCEPT ![c] = Failed(@)]
        ws == [wrong EXCEPT ![c] = [ages |-> InWindow(Append(@.ages, 0)), since |-> 0]] IN
    /\ Allowed(CleanedUp[c])
    /\ \E gone \in Evictable(fs) :
         /\ failures' = [d \in Clients |-> IF d \in gone THEN Untracked ELSE fs[d]]
         /\ wrong' = [d \in Clients |-> IF d \in gone THEN NoWrong ELSE ws[d]]
    /\ UNCHANGED <<sessions, password, given>>

LoginSucceeds(c) ==
    /\ password
    /\ Allowed(CleanedUp[c])
    /\ failures' = [CleanedUp EXCEPT ![c] = Untracked]
    /\ wrong' = [wrong EXCEPT ![c] = NoWrong]
    /\ \E id \in SessionIds : FreeId(id) /\ SessionFor(id)
    /\ UNCHANGED password

\* auth_logout.
Logout(id) ==
    /\ id \in IdsOf(sessions)
    /\ sessions' = Without(sessions, id)
    /\ given' = Without(given, id)
    /\ UNCHANGED <<failures, password, wrong>>

\* validate_session of one that has expired.
ForgetExpired(id) ==
    /\ \E i \in DOMAIN sessions : sessions[i] = [id |-> id, left |-> 0]
    /\ sessions' = Without(sessions, id)
    /\ UNCHANGED <<failures, password, wrong, given>>

\* auth_set_password: once, from the machine itself.
SetPassword ==
    /\ ~password
    /\ password' = TRUE
    /\ UNCHANGED <<failures, sessions, wrong, given>>

\* config_reset ends the sessions and takes the password with the configuration; a
\* restart of the process loses what is in memory.
ForgetLogins(keep) ==
    /\ failures' = [c \in Clients |-> Untracked]
    /\ sessions' = <<>>
    /\ wrong' = [c \in Clients |-> NoWrong]
    /\ given' = <<>>
    /\ password' = (keep /\ password)

Older(age) == IF age < Old THEN age + 1 ELSE age
Less(n) == IF n > 0 THEN n - 1 ELSE 0

LoginsTick ==
    /\ failures' = [c \in Clients |->
          LET f == failures[c] IN
          [f EXCEPT !.attempts = [i \in DOMAIN f.attempts |-> Older(f.attempts[i])],
                    !.blocked = Less(@), !.seen = IF f.tracked THEN Older(@) ELSE @]]
    /\ sessions' = [i \in DOMAIN sessions |-> [sessions[i] EXCEPT !.left = Less(@)]]
    /\ wrong' = [c \in Clients |->
          [ages |-> InWindow([i \in DOMAIN wrong[c].ages |-> Older(wrong[c].ages[i])]),
           since |-> Older(wrong[c].since)]]
    /\ given' = Live([i \in DOMAIN given |-> [given[i] EXCEPT !.left = Less(@)]])
    /\ UNCHANGED password

LoginsNext ==
    \/ \E c \in Clients : LoginRefused(c) \/ LoginFails(c) \/ LoginSucceeds(c)
    \/ \E id \in SessionIds : Logout(id) \/ ForgetExpired(id)
    \/ SetPassword \/ LoginsTick
    \/ \E keep \in BOOLEAN : ForgetLogins(keep)

LoginsSpec == LoginsInit /\ [][LoginsNext]_loginVars
-----------------------------------------------------------------------------
(* Properties.                                                             *)

LoginsTypeOK ==
    /\ \A c \in Clients :
         /\ failures[c].attempts \in Seq(0..Old)
         /\ failures[c].blocked \in 0..MaxBackoff
         /\ failures[c].seen \in 0..Old
         /\ failures[c].tracked \in BOOLEAN
         /\ wrong[c].ages \in Seq(0..Window)
         /\ wrong[c].since \in 0..Old
    /\ sessions \in Seq(Session)
    /\ given \in Seq(Session)
    /\ password \in BOOLEAN

\* In no window does a client have more than MaxAttempts wrong passwords compared, since
\* it last signed in or was forgotten as the one seen longest ago.
Throttled == \A c \in Clients : Len(wrong[c].ages) <= MaxAttempts

\* A client is turned away for a bounded time after its last wrong password, however
\* often it is turned away in between: being refused prolongs nothing.
LockoutEnds ==
    \A c \in Clients : ~Allowed(CleanedUp[c]) => wrong[c].since <= Window + BaseBackoff

\* The last MaxSessions sessions given out are good until they expire or are logged
\* out, and never more are kept.
SessionsLast ==
    /\ Len(sessions) <= MaxSessions
    /\ \A i \in DOMAIN given : \E j \in DOMAIN sessions : sessions[j] = given[i]

\* What a sign-in promises, in whatever order clients fail, succeed, wait and log out.
LoginsSound == Throttled /\ LockoutEnds /\ SessionsLast
=============================================================================
