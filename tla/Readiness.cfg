CONSTANTS
  p1 = p1
  p2 = p2
  p3 = p3
  Polls = {p1, p2, p3}
  Backends <- MCBackends
SPECIFICATION FairSpec
INVARIANTS
  OneProbe
  ServesThisGeneration
PROPERTY PollsAnswered
