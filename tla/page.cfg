CONSTANTS
  PageSize = 40
  HeaderSize = 2
  SlotSize = 2
  PidSize = 1
  HintCount = 2
  HeadLen = 2
  Base = 3
  UnderFullSize = 30
  SepWindow = 4
  NPages = 60
  Scene <- PageScenes
  MaxOps = 4
SPECIFICATION Spec
INVARIANTS PagesSound TreeHolds
