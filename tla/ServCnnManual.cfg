SPECIFICATION FairSpec
CONSTANTS
  MaxLen = 2
  Slice = 1
  NReq = 2
  AppShapes <- ManualBodies
  TimerSend = FALSE
  EagerSend = FALSE
  Pipelined = FALSE
  WithBody = TRUE
  MaySever = TRUE
INVARIANTS
  ResponsesWellFramed
  NoStranded
CHECK_DEADLOCK FALSE
