SPECIFICATION HomeSpec
CONSTANTS
  n1 = n1
  n2 = n2
  Names = {n1, n2}
  Queries = {n1}
  NewNames = {n2}
  Ids = {"demo-1", "real-1", "new-1"}
  RealIds = {"real-1"}
  Null = Null
  Dates <- SomeDates
  NearDates <- TheNear
  Picks <- ThePicks
  Fallback <- TheFallback
  Servers <- TheServers
  OtherLists <- TheOtherLists
INVARIANTS
  HomeTypeOK
  StoredIsShown
  KeptApart
  FiledUnderItsDay
