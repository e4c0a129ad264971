SPECIFICATION TuiSpec
CONSTANTS
  StreamCap = 2
  MayCancel = FALSE
  MaxTurns = 2
  MaxTokens = 1
  MaxAsks = 0
INVARIANTS
  NoPanic
CHECK_DEADLOCK FALSE
