CONSTANTS
  NBugs = 2
  Runs = 3
  MaxDistinct = 2
  StderrMax = 1
  PipeCap = 1
  Noise = 2
  WrongAt = {0, 1, 3}
  Fault <- MCFault
SPECIFICATION FairSpec
INVARIANTS ReportsTheEnd NamesTheCheck RowsAddUp
PROPERTIES SuiteEnds
