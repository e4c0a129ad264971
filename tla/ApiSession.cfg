SPECIFICATION ApiSpec
CONSTANTS
  ApiRequests = {r1, r2}
  ApiAsks <- OneSession
  Untitled = "-"
  MaxElsewhere = 0
INVARIANTS
  SessionContinues
CHECK_DEADLOCK FALSE
