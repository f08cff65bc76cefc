CONSTANTS
  t1 = t1
  t2 = t2
  f1 = f1
  Tasks = {t1, t2}
  Files = {f1}
  NULL = NULL
  MaxFds = 7
SPECIFICATION Spec
SYMMETRY TaskSymmetry
CONSTRAINT InLists
INVARIANT Resolves
INVARIANT ListsRight
INVARIANT DeafOnlyIfShifted
CHECK_DEADLOCK FALSE
