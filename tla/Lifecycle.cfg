CONSTANTS
  Requests = {1}
  MaxEdits = 3
SPECIFICATION FairSpec
INVARIANT OnlyGoodConfigRuns
PROPERTIES
  HupIsHonoured
  TermEnds
