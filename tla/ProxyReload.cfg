CONSTANTS
  r1 = r1
  r2 = r2
  r3 = r3
  Requests = {r1, r2}
  Clients = {"one"}
  Aliases = {"coding"}
  Configs <- Reloading
  EventStream = {TRUE}
  ContextEnds = {"gone"}
  Unit = 1
  MaxClock = 0
SPECIFICATION Spec
SYMMETRY Symmetry
INVARIANTS
  ProviderCapacity
  NothingLeftBehind
PROPERTIES
  ImplementsLimits
  ImplementsQueue
