SPECIFICATION Spec
CONSTANTS
  MaxLen = 2
  Slice = 1
  NReq = 3
  ReqBodies <- GetOnly
  Resps <- SmallResp
  Pipelined = TRUE
  BeforeConnect = 3
  RequestAfterLoss = FALSE
  SockPends = FALSE
  SplitThenNext = FALSE
  TimerSend = TRUE
  SendBusy = FALSE
  MaxRecv = 2
  MaySever = TRUE
INVARIANTS
  RequestsInOrder
CHECK_DEADLOCK FALSE
