SPECIFICATION PacketLiveSpec

CONSTANTS
  t1 = t1
  t2 = t2
  p1 = p1
  p2 = p2
  p3 = p3
  Threads = {t1, t2}
  Packets = {p1, p2, p3}
  MaxInFlight = 2
  EarlySend = FALSE
  Flushers = {t1, t2}
  MIN_TICK = 1
  MIN_BYTES = 2
  MaxBytes = 2


INVARIANTS
  FlushKeepsPackets
  OneSender
  PostedInOrder

PROPERTY
  SentIsFlushed

CHECK_DEADLOCK FALSE
