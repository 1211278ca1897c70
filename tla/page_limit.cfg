CONSTANTS
  PageSize = 38
  HeaderSize = 2
  SlotSize = 2
  PidSize = 1
  HintCount = 2
  HeadLen = 2
  Base = 3
  UnderFullSize = 28
  SepWindow = 4
  NPages = 6
  Scene <- LimitScenes
  MaxOps = 6
SPECIFICATION Spec
INVARIANTS AssertsHold
