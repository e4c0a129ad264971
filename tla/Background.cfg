SPECIFICATION BackgroundSpec
CONSTANTS
  Jobs <- TwoJobs
  Plans <- JobPlans
  Hour = 3
  LastTick = 4
  Callers = {c1, c2}
  Listers = {c1}
  Server = Server
  ServerIds = {2}
  Noise = Noise
  Eof = Eof
  Gone = Gone
  MaxPages = 2
  MaxMessages = 2
  lazy = lazy
  eager = eager
  t1 = t1
  t2 = t2
  Servers <- AllServers
  Standby <- LazyServer
  ToolCalls <- TwoCalls
  ServerOf <- BothLazy
  Nobody = Nobody
  MaxClients = 3
INVARIANTS
  BackgroundTypeOK
  CronOnTime
  ClientAnswers
  SessionsAccountedFor
PROPERTIES
  CronProgress
  ImplementsExchange
  McpSettles
CHECK_DEADLOCK FALSE
