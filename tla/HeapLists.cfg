CONSTANTS
  HeapSize = 6
  Screen = 1
  Sizes = {1, 2}
  W = 16
  MaxNodes = 12
SPECIFICATION Spec
INVARIANT InBounds
INVARIANT SizeFound
INVARIANT FreeListRight
CHECK_DEADLOCK FALSE
