SPECIFICATION RLiveSpec

CONSTANTS
  t1 = t1
  t2 = t2
  s1 = s1
  s2 = s2
  j1 = j1
  j2 = j2
  j3 = j3
  j4 = j4
  NULL = NULL
  Threads = {t1, t2}
  Workers = {t1}
  Serializers = {s1, s2}
  Jobs <- MCJobs
  Target <- MCTargets
  Reservables = {j1, j2}
  MaxTick = 1
  MaxDirect = 1

INVARIANTS
  OneHolder
  CountAccounts
  TickOrderKept

PROPERTIES
  Implements
  PushedIsExecuted
  CanceledStaysOut
  ReservedIsExecuted

CHECK_DEADLOCK FALSE
