SPECIFICATION WorkersSpec
CONSTANTS
  c1 = c1  c2 = c2  c3 = c3  c4 = c4
  Calls = {c1, c2, c3, c4}
  Outside = Outside
  Enabled = TRUE
  MaxConcurrent = 2
  MaxDepth = 5
  DelegateInherited = TRUE
  LearningEnabled = TRUE
  ChainLength = 3
  MaxText = 2
  PipeCap = 1
  InboxCap = 1
  MaxSends = 2
  MaxLines = 2
INVARIANTS
  WorkersTypeOK
  SlotsMatchHolders
  NestingIsBounded
  StreamsAreWhole
PROPERTIES
  ImplementsPool
  ImplementStreams
  EveryCallReturns
  StreamsComeToRest
CHECK_DEADLOCK FALSE
