CONSTANTS
  Thread = {t1, t2}
  NKeys = 7
  NPages = 7
  LeafCap = 3
  InnerCap = 2
  Underfull = 1
  Sparse = 2
  SplitOrdered = FALSE
  Scene <- CallScenes
  MaxOps = 2
SPECIFICATION Spec
SYMMETRY Threads
INVARIANTS TreeInv ScanComplete OnlyScanDescBlocks
PROPERTIES ImplementsStore
CHECK_DEADLOCK FALSE
