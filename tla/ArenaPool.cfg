\* Three would-be lessees of a two-slot pool; the pool may die before, during
\* and after every step of a drop.
SPECIFICATION FairSpec
CONSTANTS
  Arenas = {a1, a2, a3}
  Zero = Zero
  MaxArenas = 2
  MaxPlanes = 1
  MaxHandles = 2
  MaxClones = 2
  Cap = 1
  UsizeMod = 8
  Requests <- MCRequests
  PlaneLists <- MCPlaneLists
INVARIANTS
  OneOwner
  HeapAccounted
  LeaseAvailable
  NoStaleBytes
  PlanesInUsedRegion
PROPERTIES
  FrameFrozen
  DropCompletes
  ImplementsSemaphore
CHECK_DEADLOCK FALSE
