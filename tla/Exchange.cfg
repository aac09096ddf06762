CONSTANTS
  Files <- MCFiles
  Editions <- MCEditions
  Arrivals <- MCArrivals
  Jobs <- MCJobs
  Providers <- MCProviders
  Answers <- MCAnswers
  TailLimit = 3
  LogLimits = {1, 3}
SPECIFICATION Spec
INVARIANTS
  AcceptedIsUsable
  OneConfiguration
  AddressVouchedFor
  PromptsInPlace
  TargetsGetTheirOwn
  OverridesWin
  BuffersKeepTheirEnds
  UsageSurvives
