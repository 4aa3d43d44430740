CONSTANTS
  Requests <- TwoGets
  standing_buffer_size = 4
  max_buffer_size = 8
  Failing = {"b"}
  ResponseLen = 2
  Kinds = {"ssl", "web"}
  Pipelining = TRUE
  SendBuffer = 1
  FlightLen = 2
  Rekeys = {"read", "write"}
  Uris = {"a", "b"}
  Early = {"a"}
  MaxRekeys = 2
SPECIFICATION Spec
INVARIANT UnconsumedKept
CHECK_DEADLOCK FALSE
