CONSTANTS
  s1 = s1
  s2 = s2
  Services = {s1, s2}
  Orders = {o1, o2}
  None = None
  Rows <- TwoFiles
  Wanted <- SomeDeals
  Ties = TRUE
  MaxTurned = 1
SPECIFICATION FairSpec
CHECK_DEADLOCK FALSE
INVARIANTS
  TypeOK
  OneTurn
  BookIsUpToDate
  BarsComeFirst
  NoneIgnored
  RowsInStep
  NetIsBought
PROPERTIES
  ImplementsTurns
  SessionEnds
