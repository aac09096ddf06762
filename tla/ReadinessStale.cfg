CONSTANTS
  p1 = p1
  p2 = p2
  p3 = p3
  Polls = {p1, p2}
  Backends <- MCBackends
SPECIFICATION Spec
INVARIANT PollsSeeReplacement
