SPECIFICATION LiveSpec
CONSTANTS
  t1 = t1
  t2 = t2
  Threads = {t1, t2}
  Items = {1, 2}
  MaxItems = 3
PROPERTIES
  ActsAtomically
  ClearEnds
