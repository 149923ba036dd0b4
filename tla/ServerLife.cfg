SPECIFICATION Spec
CONSTANTS
  TaskNums = {0, 1, 2}
  Fds = {3, 4}
  HandleMod = 3
  MaxAccept = 3
  MaxStart = 2
  WrapOntoEntry = FALSE
INVARIANTS
  DescriptorsHeld
  EndsAccounted
  CloseIsComplete
PROPERTIES
  CallsReturn
  IdleEnds
CHECK_DEADLOCK FALSE
