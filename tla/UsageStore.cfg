CONSTANTS
  u1 = u1
  u2 = u2
  Recorders = {u1, u2}
  Entries <- MCEntries
  MaxInt = 3
  LastDay = 2
  Month <- MCMonth
SPECIFICATION FairSpec
INVARIANTS
  ReportsAreExact
  NoWrappedTotal
PROPERTIES
  ImplementsBook
  RecordsReturn
