SPECIFICATION Spec
CONSTANTS
  NReq = 3
  Lens <- AllLens
  ChunkUnits = {0, 2}
  SplitThenNext = FALSE
  ChunkedThenNext = FALSE
INVARIANTS
  BodiesIntact
  OneAtATime
  NothingHeldBack
  NoReaderAssertFails
CHECK_DEADLOCK FALSE
