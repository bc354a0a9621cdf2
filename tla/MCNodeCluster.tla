--------------------------- MODULE MCNodeCluster ---------------------------
(* Small instances of NodeCluster for TLC. *)
EXTENDS NodeCluster

CONSTANTS m1, t1, e1

OneMachine == {m1}
OneToken == {t1}
OneEnrollment == {e1}
TwoNumbers == 1..2

Scenario(keys, lost_, crashes_, skips, setups) ==
    [keys |-> keys, lost |-> lost_, crashes |-> crashes_, skips |-> skips, setups |-> setups]

\* Two keys, so that a machine may enroll again while its old loop goes on: without
\* tunnels under faults, with them under none; and the tunnels of one worker under faults.
Protocol == Scenario(2, 1, 1, {TRUE}, FALSE)
Reenrolled == Scenario(2, 0, 0, {FALSE}, FALSE)
Tunnels == Scenario(1, 1, 1, BOOLEAN, TRUE)
AllScenarios == {Protocol, Reenrolled, Tunnels}
=============================================================================
