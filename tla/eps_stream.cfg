SPECIFICATION Spec
CONSTANTS
  Slop = 3
  MaxSize = 9
  MaxDepth = 3
INVARIANTS
  ReadsSafe
  BytesInOrder
  AssertsHold
  CheckedIsAvailable
PROPERTY
  DelimitedSpec
CHECK_DEADLOCK FALSE
