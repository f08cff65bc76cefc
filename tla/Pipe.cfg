CONSTANTS
  x = x
  y = y
  Bytes = {x, y}
  Size = 2
  IndexRange = 4
  InitialCount = {0}
  ReadSizes = {0, 1, 2}
  Burst = 4
  MaxTyped = 5
SPECIFICATION FairSpec
INVARIANT TypeOK
 
 
 
PROPERTY ReaderServed
CHECK_DEADLOCK FALSE
