CONSTANTS
  Thread = {t1, t2}
  NPages = 2
  MaxShared = 1
  MaxOps = 2
  AssertsOn = TRUE
  Eviction = FALSE
SPECIFICATION FairSpec
INVARIANTS AllocatedIsFixed ResidentOnce
PROPERTIES EveryGuardEnds
