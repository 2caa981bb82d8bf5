SPECIFICATION LiveSpec

CONSTANTS
  c1 = c1
  c2 = c2
  m1 = m1
  m2 = m2
  NULL = NULL
  Callers = {c1, c2}
  Joiners = {c1}
  Managers = {m1}
  ManagerOf <- MCOneManager
  MaxId = 4
  Counts = {0, 1, 2}

INVARIANTS
  ThreadsAccounted
  RangeIsExact

PROPERTY
  JoinReturns

CHECK_DEADLOCK FALSE
