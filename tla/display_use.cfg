SPECIFICATION FairSpec
CONSTANTS
  s1 = s1
  s2 = s2
  s3 = s3
  s4 = s4
  Starts = {s1, s2, s3, s4}
  Base = 100
  Count = 2
  None = None
  Faults <- AllFaults
INVARIANTS
  OwnUnlessHaunted
PROPERTIES
  RefusedOnlyWhenFull
  StartsSettle
