SPECIFICATION CheckSpec
CONSTANTS
  t1 = t1
  t2 = t2
  t3 = t3
  Thread <- TwoThreads
  Arena = {1, 2, 3}
  Calls = {"Fuse", "Free"}
  MaxRefs = 1
  MaxCalls = 2
SYMMETRY TwoThreadsSymmetry
INVARIANTS
  ParentBelow
  AssertsHold
  LinkExclusive
  ListsAgree
  ListIsGroup
PROPERTIES
  OneWay
  SafeLifetime
CHECK_DEADLOCK FALSE
