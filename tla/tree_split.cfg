CONSTANTS
  Thread = {t1, t2}
  NKeys = 10
  NPages = 9
  LeafCap = 3
  InnerCap = 2
  Underfull = 1
  Sparse = 2
  SplitOrdered = FALSE
  Scene <- SplitScenes
  MaxOps = 1
SPECIFICATION FairSpec
PROPERTIES ImplementsStore LastCallEnds
