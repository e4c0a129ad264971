SPECIFICATION RoutingSpec
CONSTANTS
  e1 = e1
  e2 = e2
  e3 = e3
  chatA = chatA
  chatB = chatB
  None = None
  Events <- ThreeEvents
  Keys <- TwoKeys
  KeyOf <- TwoChats
  MaxMishaps = 0
INVARIANTS
  HistoriesIsolated
CHECK_DEADLOCK FALSE
