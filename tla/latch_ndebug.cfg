CONSTANTS
  Thread = {t1, t2}
  NPages = 2
  MaxShared = 2
  MaxOps = 2
  AssertsOn = FALSE
  Eviction = FALSE
SPECIFICATION Spec
INVARIANTS AllocatedIsFixed
