\* Three threads race for a 3-byte arena whose count cap (2) and byte cap both
\* bind; the u32 counter is 3 bits wide and the caps leave it headroom.
SPECIFICATION FairSpec
CONSTANTS
  Threads = {t1, t2, t3}
  Cap = 3
  UsizeMod = 5
  AllocCountCap = 2
  CountMod = 8
  NoCall = NoCall
  Requests <- MCRequests
INVARIANTS
  SlicesDisjoint
  SlicesWellPlaced
  CountExact
  SuccessesWithinCap
  ZeroAboveCursor
PROPERTIES
  AllocReturns
  ImplementsBump
CHECK_DEADLOCK FALSE
