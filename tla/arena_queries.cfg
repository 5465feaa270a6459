SPECIFICATION CheckSpec
CONSTANTS
  t1 = t1
  t2 = t2
  t3 = t3
  Thread <- TwoThreads
  Arena = {1, 2, 3}
  Calls = {"Fuse", "IsFused", "SpaceAllocated", "DebugRefCount", "InitialBlock"}
  MaxRefs = 1
  MaxCalls = 2
SYMMETRY TwoThreadsSymmetry
INVARIANTS
  FuseResult
  IsFusedResult
  SpaceAllocatedResult
CHECK_DEADLOCK FALSE
