CONSTANTS
  r1 = r1
  r2 = r2
  r3 = r3
  Requests = {r1}
  Clients = {"one"}
  Aliases = {"coding", "other"}
  Configs <- Failover
  EventStream = {TRUE, FALSE}
  ContextEnds = {"gone", "deadline"}
  Unit = 1
  MaxClock = 1
SPECIFICATION Spec
INVARIANTS
  FailoverOrder
  AnswerJustified
  AtMostOneLateAttempt
  UsageAgrees
  ProviderLeaseOnlyInAttempt
PROPERTIES
  AnswerStands
