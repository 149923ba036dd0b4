SPECIFICATION Spec
CONSTANTS
  MaxLen = 2
  Slice = 1
  NReq = 2
  AppShapes <- EmptyBody
  TimerSend = FALSE
  EagerSend = FALSE
  Pipelined = TRUE
  WithBody = TRUE
  MaySever = TRUE
INVARIANT
  NoStranded
CHECK_DEADLOCK FALSE
