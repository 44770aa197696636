\* One thread, one reset: the second slice shows the bytes of the first.
SPECIFICATION Spec
CONSTANTS
  Threads = {t1}
  Cap = 2
  UsizeMod = 8
  AllocCountCap = 2
  CountMod = 8
  NoCall = NoCall
  Requests <- RaceRequests
PROPERTY FreshSliceIsZero
CHECK_DEADLOCK FALSE
