-------------------------- MODULE MCServiceRegistry --------------------------
(* Instances of ServiceRegistry for TLC. *)
EXTENDS ServiceRegistry, TLC

CONSTANTS a, b, c, h1, h2

TwoNames   == {a, b}
ThreeNames == {a, b, c}

(* Both services want one hostname; each has its own; only one has any.    *)
SharedHost == (a :> h1) @@ (b :> h1)
OwnHosts   == (a :> h1) @@ (b :> h2)
OneHost    == (a :> h1) @@ (b :> NoHost)
RequestSymmetry == Permutations(Reqs)

LocalOnly  == [n \in Names |-> NoHost]
=============================================================================
