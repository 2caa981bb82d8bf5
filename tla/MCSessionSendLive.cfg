SPECIFICATION LiveSpec

CONSTANTS
  t1 = t1
  t2 = t2
  p1 = p1
  p2 = p2
  p3 = p3
  Threads = {t1, t2}
  Packets = {p1, p2}
  MaxInFlight = 2
  EarlySend = FALSE

PROPERTY
  QueuedIsPosted

CHECK_DEADLOCK FALSE
