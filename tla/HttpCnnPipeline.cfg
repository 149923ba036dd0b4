SPECIFICATION FairSpec
CONSTANTS
  MaxLen = 2
  Slice = 2
  NReq = 3
  ReqBodies <- StrmBodies
  Resps <- PlainResps
  Pipelined = TRUE
  BeforeConnect = 2
  RequestAfterLoss = FALSE
  SockPends = FALSE
  SplitThenNext = FALSE
  TimerSend = TRUE
  SendBusy = FALSE
  MaxRecv = 2
  MaySever = TRUE
INVARIANTS
  RequestsInOrder
  OwnResponse
  NothingUnsent
  NoClientAssertFails
CHECK_DEADLOCK FALSE
