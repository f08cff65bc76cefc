CONSTANTS
  idle = idle
  test = test
  cleaner_ = cleaner_
  a = a
  b = b
  c = c
  TCBs = {idle, test, cleaner_, a, b}
  NULL = NULL
  Idle = idle
  Test = test
  Cleaner = cleaner_
  MAX_PID = 9
  DEFAULT_TIME_SLICE = 1
  TermPids = {}
  UserRuns = FALSE
  MaxSpawns = 2
  MaxDepth = 3
SPECIFICATION FairSpec
CONSTRAINT NotTorn
PROPERTY CleanerDeletes
PROPERTY EveryTaskRuns
PROPERTY WaitReturns
