SPECIFICATION FairCheckSpec
CONSTANTS
  t1 = t1
  t2 = t2
  t3 = t3
  Thread <- TwoThreads
  Arena = {1, 2}
  Calls = {"Fuse", "Free", "IncRefFor"}
  MaxRefs = 2
  MaxCalls = 2
PROPERTIES
  Lifetime
  CallsReturn
CHECK_DEADLOCK FALSE
