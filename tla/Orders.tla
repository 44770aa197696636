------------------------------- MODULE Orders -------------------------------
(***************************************************************************)
(* What the registries build from their vectors with the standard library: *)
(* sort_by, filter and flat_map.  An entry is a pair of its place and its  *)
(* value.                                                                  *)
(***************************************************************************)
EXTENDS Integers, Sequences, FiniteSets

\* The values of some entries, each after the ones before it.
InOrder(entries, Before(_, _)) ==
  [n \in 1 .. Cardinality(entries) |->
     (CHOOSE x \in entries : Cardinality({y \in entries : Before(y, x)}) = n - 1)[2]]

\* slice::sort_by is stable: what neither value decides, the places decide.
StableOrder(entries, Before(_, _)) ==
  LET ahead(x, y) == \/ Before(x[2], y[2])
                     \/ ~ Before(y[2], x[2]) /\ x[1] < y[1]
  IN  InOrder(entries, ahead)

\* Iterator::filter keeps the order.
Kept(entries) == LET ahead(x, y) == x[1] < y[1] IN InOrder(entries, ahead)

\* Iterator::flat_map: one list after the other; a place is that of the list
\* and the one in the list.
Flattened(entries) ==
  LET ahead(x, y) == \/ x[1][1] < y[1][1]
                     \/ x[1][1] = y[1][1] /\ x[1][2] < y[1][2]
  IN  InOrder(entries, ahead)
=============================================================================
