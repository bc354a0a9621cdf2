---------------------------- MODULE AccessTokens ----------------------------
(***************************************************************************)
(* The bearer tokens of services and of agents (node_config.py 83-426, the *)
(* routes of cluster_routes.py that make, rotate and revoke them, and what *)
(* main.py and mcp_routes.py admit with them).  The configuration of the   *)
(* process is changed before it is written: when the write fails, or the   *)
(* process restarts, memory and file differ.                               *)
(***************************************************************************)
EXTENDS Naturals

CONSTANTS
    Bearers,    \* the tokens that will ever be made, in the order of their making
    Targets,    \* services and profiles a token may be limited to
    Grants,     \* the rights that tokens are made with, a subset of GrantRecords
    Lifetime    \* of a token, in steps of the clock

Capabilities == {"read", "operate", "deploy"}
Scopes == {"read", "logs", "render", "write", "lifecycle",
           "model:read", "model:download", "model:write"}

\* service: a service and a capability; mcp: scopes, and profiles if limited to some.
GrantRecords ==
    [kind : {"service"}, target : Targets, capability : Capabilities]
      \cup [kind : {"mcp"}, scopes : SUBSET Scopes \ {{}}, profiles : SUBSET Targets]

ASSUME BearerAssumption ==
    /\ Bearers \subseteq Nat
    /\ Grants \subseteq GrantRecords
    /\ Lifetime \in Nat \ {0}

NoGrant == [kind |-> "none"]

VARIABLES
    mem,      \* the tokens of the configuration the process works with
    disk,     \* those of node.json
    left,     \* how long each has still to live
    ledger    \* what the operator has been told of each token: history, not in the code

tokenVars == <<mem, disk, left, ledger>>

TokensInit ==
    /\ mem = [t \in Bearers |-> NoGrant]
    /\ disk = mem
    /\ left = [t \in Bearers |-> 0]
    /\ ledger = [t \in Bearers |-> [is |-> "unmade", grant |-> NoGrant]]

-----------------------------------------------------------------------------
(* Changes of the configuration.                                           *)

\* _purge_expired_service_tokens, _purge_expired_mcp_tokens.
Purged == [t \in Bearers |-> IF left[t] = 0 THEN NoGrant ELSE mem[t]]

\* Variant of Told: a failing write goes unnoticed.
ToldAnyway(written, notes) == notes

\* The answer of a request whose write fails is an error, from which the operator
\* cannot tell what has become of the tokens it named.
Told(written, notes) ==
    [t \in Bearers |-> IF written \/ notes[t] = ledger[t] THEN notes[t]
                       ELSE [notes[t] EXCEPT !.is = "unsure"]]

\* save_node_config of the dictionary that is the cache; the file is replaced or kept.
Kept(config, written) ==
    /\ mem' = config
    /\ disk' = IF written THEN config ELSE disk

Note(is, grant) == [is |-> is, grant |-> grant]

IsNextBearer(t) ==
    ledger[t].is = "unmade" /\ \A u \in Bearers : ledger[u].is = "unmade" => t <= u

\* create_service_token, create_mcp_token.
CreateBearer(t, g, written) ==
    /\ IsNextBearer(t)
    /\ Kept([Purged EXCEPT ![t] = g], written)
    /\ left' = [left EXCEPT ![t] = Lifetime]
    /\ ledger' = Told(written, [ledger EXCEPT ![t] = Note("live", g)])

\* rotate_service_token: the old one goes and the new one comes in one write.
RotateBearer(t, u, written) ==
    /\ Purged[t] # NoGrant
    /\ mem[t].kind = "service"
    /\ IsNextBearer(u)
    /\ Kept([Purged EXCEPT ![t] = NoGrant, ![u] = mem[t]], written)
    /\ left' = [left EXCEPT ![u] = Lifetime]
    /\ ledger' = Told(written, [ledger EXCEPT ![t].is = "revoked",
                                              ![u] = Note("live", ledger[t].grant)])

\* revoke_service_token_by_id, revoke_mcp_token_by_id, and revoke_service_token of a
\* token it finds.
RevokeBearer(t, written) ==
    /\ Purged[t] # NoGrant
    /\ Kept([Purged EXCEPT ![t] = NoGrant], written)
    /\ ledger' = Told(written, [ledger EXCEPT ![t].is = "revoked"])
    /\ left' = left

\* A use of any token, the agents' always with the time of use; the list of the
\* configuration (cleanup_expired_tokens); any other change of node.json: what has
\* expired goes, and what memory holds is written.
WriteConfig(written) == Kept(Purged, written) /\ UNCHANGED <<left, ledger>>

\* A token nobody knows is used, rotated or revoked: without anything expired nothing
\* is written, and with it rotation forgets it in memory only.
RefuseUnknown == mem' = Purged /\ UNCHANGED <<disk, left, ledger>>

RestartProcess == mem' = disk /\ UNCHANGED <<disk, left, ledger>>

\* reset_config: the file and the cache go, and the node is configured anew.
ResetConfig ==
    /\ mem' = [t \in Bearers |-> NoGrant]
    /\ disk' = mem'
    /\ ledger' = [t \in Bearers |-> IF ledger[t].is = "unmade" THEN ledger[t]
                                    ELSE Note("revoked", ledger[t].grant)]
    /\ left' = left

Clock ==
    /\ \E t \in Bearers : left[t] > 0
    /\ left' = [t \in Bearers |-> IF left[t] > 0 THEN left[t] - 1 ELSE 0]
    /\ UNCHANGED <<mem, disk, ledger>>

TokensNext ==
    \/ \E written \in BOOLEAN :
         \/ \E t \in Bearers :
              \/ \E g \in Grants : CreateBearer(t, g, written)
              \/ \E u \in Bearers : RotateBearer(t, u, written)
              \/ RevokeBearer(t, written)
         \/ WriteConfig(written)
    \/ RefuseUnknown \/ RestartProcess \/ ResetConfig \/ Clock

TokensSpec == TokensInit /\ [][TokensNext]_tokenVars

-----------------------------------------------------------------------------
(* What is admitted with a token.                                          *)

Rank == [read |-> 0, operate |-> 1, deploy |-> 2]

\* _service_token_required_capability.
RouteCapability ==
    [list |-> "read", logs |-> "read", stop |-> "operate", start |-> "operate",
     restart |-> "operate", register |-> "deploy", deregister |-> "deploy", port |-> "deploy"]

\* _TOOL_REQUIRED_CAPABILITY; status is what the list of services shows.
ToolCapability ==
    [list |-> "read", logs |-> "read", stop |-> "operate", restart |-> "operate",
     register |-> "deploy"]

\* _INFERENCE_TOOL_REQUIRED_SCOPE and the resources, one of each kind.
AgentScope ==
    [operation |-> "read", logs |-> "logs", render |-> "render", edit |-> "write",
     start |-> "lifecycle", resolve |-> "model:read", download |-> "model:download",
     delete |-> "model:write"]

\* _MCP_SCOPE_IMPLICATIONS.
Implied ==
    [s \in Scopes |->
        CASE s \in {"logs", "render", "lifecycle", "model:read"} -> {"read"}
          [] s = "write" -> {"read", "render"}
          [] s \in {"model:download", "model:write"} -> {"read", "model:read"}
          [] s = "read" -> {}]

\* A request by a route of a service, by a tool for services, or by one for inference.
RouteRequests == [by : {"route"}, op : DOMAIN RouteCapability, target : Targets]
ToolRequests == [by : {"tool"}, op : DOMAIN ToolCapability, target : Targets]
AgentRequests == [by : {"agent"}, op : DOMAIN AgentScope, target : Targets]
AccessRequests == RouteRequests \cup ToolRequests \cup AgentRequests

\* service_token_capability_allows.
Allows(capability, needed) == Rank[capability] >= Rank[needed]

\* _handle_mcp_tool_call, once the endpoint has asked for reading.
ToolAllowed(g, op) == Allows(g.capability, "read") /\ Allows(g.capability, ToolCapability[op])

\* auth_middleware; a tool acts on the service of the token, so a request for another
\* one cannot be put; the next port is of no service.
ServiceAdmits(g, r) ==
    /\ r.target = g.target \/ r.op = "port"
    /\ \/ r.by = "route" /\ Allows(g.capability, RouteCapability[r.op])
       \/ r.by = "tool" /\ ToolAllowed(g, r.op)

\* _mcp_scope_allows.
ScopeAllows(g, need) == need \in g.scopes \/ \E s \in g.scopes : need \in Implied[s]

\* _check_profile_scope; get_inference_operation and the models have no profile.
ProfileAllowed(g, r) ==
    \/ g.profiles = {} \/ r.target \in g.profiles
    \/ r.op \in {"operation", "resolve", "download", "delete"}

AgentAdmits(g, r) ==
    r.by = "agent" /\ ScopeAllows(g, AgentScope[r.op]) /\ ProfileAllowed(g, r)

\* check_auth with a service or an agent token, in a process with this configuration.
Accepts(config, t, r) ==
    /\ left[t] > 0
    /\ \/ config[t].kind = "service" /\ ServiceAdmits(config[t], r)
       \/ config[t].kind = "mcp" /\ AgentAdmits(config[t], r)

-----------------------------------------------------------------------------
(* Properties.                                                             *)

TokensTypeOK ==
    /\ mem \in [Bearers -> GrantRecords \cup {NoGrant}]
    /\ disk \in [Bearers -> GrantRecords \cup {NoGrant}]
    /\ left \in [Bearers -> 0..Lifetime]
    /\ ledger \in [Bearers -> [is : {"unmade", "live", "unsure", "revoked"},
                               grant : GrantRecords \cup {NoGrant}]]

\* What the operator may expect of a grant, whichever way it is asked for: looking needs
\* any capability, running one above reading, changing the highest; a scope brings those
\* it implies, and those that they imply.
Changing == {"register", "deregister", "port"}
Running == {"start", "stop", "restart"}

Expected(g, r) ==
    IF g.kind = "service"
    THEN /\ r.by # "agent"
         /\ r.target = g.target \/ r.op = "port"
         /\ r.op \in Changing => g.capability = "deploy"
         /\ r.op \in Running => g.capability # "read"
    ELSE LET once == g.scopes \cup UNION {Implied[s] : s \in g.scopes}
             all == once \cup UNION {Implied[s] : s \in once} IN
         /\ r.by = "agent"
         /\ AgentScope[r.op] \in all
         /\ g.profiles # {} /\ r.op \in {"logs", "render", "edit", "start"}
               => r.target \in g.profiles

\* Whatever writes fail and whenever the process restarts: a token whose making was
\* reported gives, until it expires or its revocation is asked for, exactly the rights
\* it was made with, also when it is the last of several rotations; one whose revocation
\* or rotation was reported gives none, and no restart brings it back.
TokensAsReported ==
    \A t \in Bearers, config \in {mem, disk} :
        /\ ledger[t].is = "live" /\ left[t] > 0 =>
             \A r \in AccessRequests : Accepts(config, t, r) <=> Expected(ledger[t].grant, r)
        /\ ledger[t].is = "revoked" => \A r \in AccessRequests : ~Accepts(config, t, r)
=============================================================================
