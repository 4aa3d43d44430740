CONSTANTS
  Items = {1, 2}
  Capacity = 2
  NumSinks = 2
  Mask <- StdoutAndFile
  Size <- ShortAndLong
  Broken = {1}
  Stuck = {1}
  Quota = 2
  MaxBuffered = 3
  MaxChunk = 2
  Sweeps = 2
  Flushers = {f}
  Pushers = 2
  MaxPushes = 3
SPECIFICATION FairSpec
INVARIANTS
  SinkIntact
PROPERTIES
  NothingForgotten
  CallersReleased
CHECK_DEADLOCK FALSE
