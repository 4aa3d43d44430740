CONSTANTS
  Requests <- Session
  standing_buffer_size = 4
  max_buffer_size = 8
  Failing = {"b"}
  ResponseLen = 2
  Kinds = {"ssl", "web"}
  Pipelining = FALSE
  SendBuffer = 1
  FlightLen = 2
  Rekeys = {"read", "write"}
  Uris = {"a", "b"}
  Early = {"a"}
  MaxRekeys = 2
SPECIFICATION FairSpec
INVARIANTS
  ServedInOrder
  SocketSound
PROPERTIES
  FreshMap
  RequestsAnswered
  CloseCompletes
CHECK_DEADLOCK FALSE
