SPECIFICATION FairSpec
CONSTANTS
  Accounts = {a1, a2}
  Runs = {r1, r2}
  Callers = {c1, c2}
  None = None
  MaxConcurrentSessions = 2
  MaxInFlightStarts = 2
  FailSteps <- AllFailures
  Crashable <- AnyChild
PROPERTIES
  CallsSettle
  IdleReaped
