CONSTANTS
  h1 = h1
  h2 = h2
  h3 = h3
  Keys <- MCKeys
  Holders <- MCHolders
  Calls <- MCCalls
  Ceiling <- MCCeiling
  Watched = {"provider"}
  Unit = 2
  MaxClock = 4
SPECIFICATION WSpec
SYMMETRY Symmetry
INVARIANTS
  TypeOK
  ConcurrentCountsLeases
  CapacityRespected
  RateBounded
PROPERTY
  RefusalIsFree
