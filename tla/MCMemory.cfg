SPECIFICATION Spec

CONSTANTS
  t1 = t1
  t2 = t2
  t3 = t3
  b1 = b1
  b2 = b2
  b3 = b3
  Threads = {t1, t2, t3}
  Blocks = {b1, b2, b3}
  NoBlock = NoBlock
  Sizes = {20, 48, 1100, 7700, 9000}
  Layouts <- MCLayouts
  HeaderSize = 16
  ObjectSize = 48
  CountMod = 16

SYMMETRY MCSymmetry

INVARIANTS
  BlockKeepsPool
  BlockInOnePlace
  CountsAccount


  

CHECK_DEADLOCK FALSE
