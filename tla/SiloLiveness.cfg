CONSTANTS
  f1 = f1
  f2 = f2
  Fds = {f1, f2}
  Handlers = {f1, f2}
  OwnerOf <- OneHandler
  Unpollable = {}
  TableSize = 1
  kMaxEvents = 1
  Acts <- AllPlain
  FnCalls = {}
  AffinityCalls = {"none", "Add"}
  IdleCalls = {"none"}
  MaxKernel = 1
  MaxSheds = 1
  MaxFns = 0
  MaxRuns = 1
SPECIFICATION FairSpec
PROPERTIES
  ExitsWhenTold
  EveryFdAdmitted
  InputIsServed
CHECK_DEADLOCK FALSE
