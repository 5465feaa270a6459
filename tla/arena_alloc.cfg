SPECIFICATION Spec
CONSTANTS
  Addresses = {0, 352, 1056}
  Allocators = {2}
  Sizes = {0, 100, 200}
  InitialSizes = {150}
  MaxBlockSizes = {8, 1024}
  ExtraSizes = {0}
  Guard = 0
  SizeMod = 65536
  MaxAllocs = 2
  MaxBlocks = 3
INVARIANTS AllocationsSafe SpaceAllocatedExact EveryBlockFreed LastIsRecognised HintSuffices
PROPERTY FreeSpaceGrows
CHECK_DEADLOCK FALSE
