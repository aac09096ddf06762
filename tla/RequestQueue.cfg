CONSTANTS
  Callers = {1, 2, 3, 4}
  Sizes = {0, 1, 3}
SPECIFICATION FairQSpec
INVARIANTS
  WaitingCountsWaiters
  WaitersBounded
PROPERTIES
  DrainsToSize
  WaitReturns
