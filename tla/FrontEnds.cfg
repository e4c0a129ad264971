SPECIFICATION FrontEndsSpec
CONSTANTS
  StreamCap = 2
  MayCancel = TRUE
  MaxTurns = 2
  MaxTokens = 3
  MaxAsks = 3
  e1 = e1
  e2 = e2
  e3 = e3
  chatA = chatA
  chatB = chatB
  None = None
  Events <- ThreeEvents
  Keys <- TwoKeys
  KeyOf <- TwoChats
  MaxMishaps = 1
  adapter1 = adapter1
  adapter2 = adapter2
  Adapters <- TwoAdapters
  Lineups <- SomeLineups
  KindsOn <- SomeKinds
  Window = 2
  MaxPosts <- SomePosts
  MaxRuns = 2
  MaxTries = 2
INVARIANTS
  FrontEndsTypeOK
  TurnReachesUser
  KeysKeepConversations
  RepliesMatchMessages
  MessagesDelivered
  CommandsEndInOrder
PROPERTIES
  FrontEndsSettle
CHECK_DEADLOCK FALSE
