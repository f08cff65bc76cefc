CONSTANTS
  idle = idle
  test = test
  cleaner_ = cleaner_
  a = a
  b = b
  c = c
  TCBs = {idle, test, cleaner_, a, b, c}
  NULL = NULL
  Idle = idle
  Test = test
  Cleaner = cleaner_
  MAX_PID = 9
  DEFAULT_TIME_SLICE = 1
  TermPids = {1, 2, 3}
  UserRuns = TRUE
  MaxSpawns = 4
  MaxDepth = 3
SPECIFICATION Spec
SYMMETRY UserSlots
CONSTRAINT Crowded
INVARIANT TypeOK
INVARIANT ListsSound
INVARIANT OwnStack
INVARIANT UnlinkSound
