SPECIFICATION Spec
CONSTANTS
  Keys = {2, 3, 6, 11}
  Rewritten = {2}
  WordSize = 8
  MAXARRSIZE = 3
  MIN_DENSITY = 2
  InitLg2 = 1
  MaxLg2 = 2
INVARIANTS
  TableWellFormed
PROPERTIES
  MapSpec
  CompactedArrayDense
CHECK_DEADLOCK FALSE
