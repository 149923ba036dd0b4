SPECIFICATION FairSpec
CONSTANTS
  MaxLen = 2
  Slice = 1
  NReq = 2
  ReqBodies <- AllBodies
  Resps <- AllResps
  Pipelined = FALSE
  BeforeConnect = 1
  RequestAfterLoss = FALSE
  SockPends = TRUE
  SplitThenNext = TRUE
  TimerSend = TRUE
  SendBusy = FALSE
  MaxRecv = 2
  MaySever = TRUE
INVARIANTS
  NothingAfterEnd
  NothingUnsent
  BodySentOnce
PROPERTIES
  EveryRequestEnds
CHECK_DEADLOCK FALSE
