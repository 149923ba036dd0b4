SPECIFICATION FairSpec
CONSTANTS
  MaxLen = 2
  Slice = 1
  NReq = 2
  AppShapes <- StreamBodies
  TimerSend = FALSE
  EagerSend = FALSE
  Pipelined = TRUE
  WithBody = TRUE
  MaySever = TRUE
INVARIANTS
  TypeOK
  EndedInOrder
  EndedMeansSent
PROPERTIES
  KeepsPromise
  EveryRequestAnswered
CHECK_DEADLOCK FALSE
