\* The count cap is the largest u32 (width 2 here): a refused call's fetch_add
\* wraps the counter to 0 until its fetch_sub, and lets the others through.
SPECIFICATION Spec
CONSTANTS
  Threads = {t1, t2}
  Cap = 5
  UsizeMod = 8
  AllocCountCap = 3
  CountMod = 4
  NoCall = NoCall
  Requests <- RaceRequests
INVARIANT SuccessesWithinCap
CHECK_DEADLOCK FALSE
