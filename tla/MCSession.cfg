SPECIFICATION LiveSpec

CONSTANTS
  t1 = t1
  t2 = t2
  Threads = {t1, t2}
  MaxOps = 2
  UseEx = TRUE
  RecvMayFail = FALSE
  DiscMayFail = FALSE
  DiscAgain = FALSE


INVARIANTS
  RecvEventOnce
  ConnectedIsWatched
  ClearFindsService

PROPERTY
  ClosedIsReported

CHECK_DEADLOCK FALSE
