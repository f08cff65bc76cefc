CONSTANTS
  idle = idle
  test = test
  cleaner_ = cleaner_
  a = a
  b = b
  c = c
  TCBs = {idle, test, cleaner_, a, b}
  NULL = NULL
  Idle = idle
  Test = test
  Cleaner = cleaner_
  MAX_PID = 4
  DEFAULT_TIME_SLICE = 1
  TermPids = {0, 1}
  UserRuns = FALSE
  MaxSpawns = 3
  MaxDepth = 3
SPECIFICATION Spec
SYMMETRY UserSlots
INVARIANT IdleImmortal
INVARIANT UniquePids
