SPECIFICATION Spec
CONSTANTS
  UrlParts <- SomeUrls
  Pairs <- SomePairs
  Offsets <- SomeOffsets
  SdpLines <- SomeLines
  MaxPairs = 2
  MaxLines = 4
  BareEnds = FALSE
  WideStarts = FALSE
  Hdrs <- SomeHdrs
  MaxHdrs = 2
  Lens = {12}
  Urls <- HeadUrls
  Verbs = {"PUT", "GET"}
  Statuses = {200, 599}
  MaxRequests = 2
  RequestUncleared = FALSE
  ULLONG_MAX = 99
INVARIANTS
  UrlRead
  PairsReadBack
  RangesRight
  SdpReads
  HeadAsAsked
CHECK_DEADLOCK FALSE
