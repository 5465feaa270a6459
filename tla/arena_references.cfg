SPECIFICATION CreatedSpec
CONSTANTS
  t1 = t1
  t2 = t2
  t3 = t3
  Thread <- TwoThreads
  Arena = {1, 2, 3}
  Calls = {"Fuse", "Free", "IncRefFor"}
  MaxRefs = 2
  MaxCalls = 2
CONSTRAINT OrderedArguments
SYMMETRY TwoThreadsSymmetry
INVARIANTS
  NoUseAfterFree
  RefCountAccurate
  ReclaimAlone
  NoLeak
CHECK_DEADLOCK FALSE
