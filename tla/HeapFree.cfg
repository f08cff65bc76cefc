CONSTANTS
  HeapSize = 6
  Screen = 1
  Sizes = {1, 2}
  W = 16
  MaxNodes = 16
SPECIFICATION Spec
INVARIANT FreeListIsFree
CHECK_DEADLOCK FALSE
