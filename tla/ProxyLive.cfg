CONSTANTS
  r1 = r1
  r2 = r2
  r3 = r3
  Requests = {r1, r2}
  Clients = {"one"}
  Aliases = {"coding"}
  Configs <- Contention
  EventStream = {TRUE, FALSE}
  ContextEnds = {"gone", "deadline"}
  Unit = 1
  MaxClock = 0
SPECIFICATION FairSpec
PROPERTIES
  RequestsFinish
