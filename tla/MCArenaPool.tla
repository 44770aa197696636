----------------------------- MODULE MCArenaPool -----------------------------
(***************************************************************************)
(* Small instances of ArenaPool: one request, and plane tables that are    *)
(* valid once the arena has been written, past its end, one plane too      *)
(* long, and one whose end overflows.                                      *)
(***************************************************************************)
EXTENDS ArenaPool

MCRequests == { [size |-> 1, align |-> 1, count |-> 1] }

P(off, len) == [off |-> off, len |-> len]

MCPlaneLists ==
  { <<P(0, 1)>>, <<P(1, 1)>>, <<P(0, 0), P(0, 1)>>,
    <<P(7, 1)>> }   \* offset + length overflows when UsizeMod = 8
=============================================================================
