CONSTANTS
  t1 = t1
  t2 = t2
  t3 = t3
  Threads <- MCThreads3
  ThreadId <- MCThreadId3
  RADIX = 8
  MaxDepth = 2
  WriteUnderRead = FALSE
SPECIFICATION LiveSpec
INVARIANTS
  MutualExclusion
  HolderNeverBlocked
PROPERTIES
  Implements
  SpinOnlyBehindProgress
CHECK_DEADLOCK FALSE
