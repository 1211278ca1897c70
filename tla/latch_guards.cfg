CONSTANTS
  Thread = {t1, t2}
  NPages = 1
  MaxShared = 1
  MaxOps = 3
  AssertsOn = TRUE
  Eviction = TRUE
SPECIFICATION Spec
SYMMETRY Threads
INVARIANTS LatchInv
PROPERTIES UpgradeKeepsRead ImplementsLatch
