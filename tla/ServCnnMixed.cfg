SPECIFICATION Spec
CONSTANTS
  MaxLen = 2
  Slice = 1
  NReq = 2
  AppShapes <- AllBodies
  TimerSend = TRUE
  EagerSend = FALSE
  Pipelined = TRUE
  WithBody = TRUE
  MaySever = TRUE
INVARIANTS
  WireInOrder
  NoDanglingCtrl
  NoAssertFails
CHECK_DEADLOCK FALSE
