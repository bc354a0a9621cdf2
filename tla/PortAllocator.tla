---------------------------- MODULE PortAllocator ----------------------------
(***************************************************************************)
(* What the service manager promises its callers, without files, requests  *)
(* or crashes: a registered service holds one port, the lowest that was    *)
(* free, until it is deregistered, and no other service is affected.       *)
(***************************************************************************)
EXTENDS Naturals

CONSTANTS Names, Ports

VARIABLE alloc

Unallocated == 0

Free == Ports \ {alloc[n] : n \in Names}

Init == alloc = [n \in Names |-> Unallocated]

Allocate(n) ==
    /\ alloc[n] = Unallocated
    /\ \E p \in Free :
          /\ \A q \in Free : p <= q
          /\ alloc' = [alloc EXCEPT ![n] = p]

Release(n) ==
    /\ alloc[n] # Unallocated
    /\ alloc' = [alloc EXCEPT ![n] = Unallocated]

Next == \E n \in Names : Allocate(n) \/ Release(n)

Spec == Init /\ [][Next]_alloc
=============================================================================
