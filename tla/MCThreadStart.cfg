SPECIFICATION StartSpec

CONSTANTS
  t1 = t1
  t2 = t2
  Threads <- MCThreads
  ThreadId <- MCThreadId
  RADIX = 4
  MaxDepth = 1
  WriteUnderRead = FALSE

INVARIANT
  StartKeepsExclusion

CHECK_DEADLOCK FALSE
