SPECIFICATION Spec
CONSTANTS
  MaxUnits = 6
  BufSize = 2
  Slice = 3
  SizeT = 100
  MaxSink = 6
  InnerRanges = FALSE
  FilesShrink = FALSE
  EmptyParts = FALSE
  Oversized = FALSE
  WriteErrors = FALSE
  ChunkedAgain = FALSE
INVARIANTS
  WireIsSource
  CompletedIsWhole
PROPERTIES
  BodyArrives
CHECK_DEADLOCK FALSE
