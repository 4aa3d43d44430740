CONSTANTS
  f1 = f1
  f2 = f2
  Fds = {f1, f2}
  Handlers = {f1, f2}
  OwnerOf <- OwnHandlers
  Unpollable = {}
  TableSize = 2
  kMaxEvents = 1
  Acts <- MixedAndCarly
  FnCalls = {"RequestRead"}
  AffinityCalls = {"none", "RequestRead"}
  IdleCalls = {"none", "RequestWrite"}
  MaxKernel = 1
  MaxSheds = 1
  MaxFns = 1
  MaxRuns = 1
SPECIFICATION Spec
INVARIANTS
  NoFault
  NoLostEdge
  EveryFdPlaced
PROPERTIES
  UpcallsRespected
CHECK_DEADLOCK FALSE
