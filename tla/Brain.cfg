SPECIFICATION BrainSpec
CONSTANTS
  load = load
  mcp = mcp
  LoadTool = load
  Nothing = Nothing
  Runners <- AllRunners
  Core <- CoreRunners
  Names <- AllRunners
  Shells <- ShellRunner
  ToolSearch = TRUE
  Threshold = 1
  ApproverPresent = TRUE
  TailLimit = 2
  MaxTurns = 2
  NudgeEvery = 2
  MaxSteps = 1
  MaxCalls = 2
  Disobedience = 1
  profile = profile
  project = project
  Topics <- TwoTopics
  Batches <- SmallBatches
  Savers = {curator, subagent}
  QueueCap = 2
  MayFail = TRUE
  MayClose = TRUE
  MaxSaves = 3
  MaxReopens = 1
INVARIANTS
  BrainTypeOK
  RequestsFullyAnswered
  NoProviderLeftSending
  RoundsKeepLimits
  VectorsCatchUp
PROPERTIES
  StepsLeaveOrder
  CancelledStepEnds
  IndexProgress
CHECK_DEADLOCK FALSE
