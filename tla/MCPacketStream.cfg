SPECIFICATION StreamSpec
CONSTANTS
  t1 = t1
  t2 = t2
  b1 = b1
  b2 = b2
  b3 = b3
  NULL = NULL
  Threads = {t1, t2}
  Buffers = {b1, b2, b3}
  MAX_BUFFER_SIZE = 3
  HEADER = 1
  U16 = 5
  U32 = 16
  DataSizes = {0, 1, 3}
  RawSizes = {1}
  MaxUsed = 5
  RECV_BUFFER_SIZE = 3
  MaxPackets = 2
SYMMETRY MCSymmetry
INVARIANTS
  
  
  HandedAsSent
CHECK_DEADLOCK FALSE
