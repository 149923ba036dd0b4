SPECIFICATION BSpec
CONSTANTS
  Conversations <- AllConversations
  SplitUrl = FALSE
  ULLONG_MAX = 99
  NReq = 2
  Lens <- SomeLens
  ChunkUnits = {1, 11}
  SplitThenNext = FALSE
  ChunkedThenNext = FALSE
INVARIANTS
  HeadsAsSent
  BodiesAsSent
  StopsOnlyBehind
PROPERTIES
  TokenLevel
  EveryMessageRead
CHECK_DEADLOCK FALSE
