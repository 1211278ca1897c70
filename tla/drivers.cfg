CONSTANTS
  Systems <- MCSystems
  Workloads <- MCWorkloads
  Combined <- MCCombined
  Extensions <- MCExtensions
  NbOps <- MCNbOps
  NBOPS_MT_CAP = 4
  ArgSets <- MCArgSets
  Logs <- MCLogs
  QueueTimes <- MCQueueTimes
  Reps = 1
  MaxSweeps = 2
  DbSpecs <- MCDbSpecs
  Plans <- MCPlans
  Repetitions = 1
  Outcomes <- MCOutcomes
  MaxInvocations = 2
  RO_WORKLOADS <- MCRO_WORKLOADS
  INS_WORKLOADS <- MCINS_WORKLOADS
  YcsbRuns <- MCYcsbRuns
  MaxExecs = 2
  MaxMishaps = 2
  NbItems = 7
  NbThreads = 2
  Capacity = 2
SPECIFICATION Spec
INVARIANTS OneHeader SweepKept DoneRunsWhole CompletedIsHonest
INVARIANTS RunsOnItsLoad RowsOfTheirRun NothingLost Complete
PROPERTIES DriversEnd
