--------------------------- MODULE LeaseSemaphore ---------------------------
(***************************************************************************)
(* What an arena pool promises its clients (ArenaPool's "Backpressure"     *)
(* contract): a counting semaphore.  At most MaxArenas arenas are checked  *)
(* out at once, and one leaves the set only by being given back.           *)
(***************************************************************************)
EXTENDS Integers, FiniteSets

CONSTANTS
  Arenas,      \* client-side identities of leased arenas
  MaxArenas    \* slots of the pool

VARIABLE out   \* the arenas checked out

Init == out = {}

Lease(a) ==
  /\ a \notin out
  /\ Cardinality(out) < MaxArenas
  /\ out' = out \union {a}

Return(a) ==
  /\ a \in out
  /\ out' = out \ {a}

Next == \E a \in Arenas : Lease(a) \/ Return(a)

Spec == Init /\ [][Next]_out
=============================================================================
