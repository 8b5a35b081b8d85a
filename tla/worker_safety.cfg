SPECIFICATION Spec
CONSTANTS
  Accounts = {a1, a2, a3, a4}
  Runs = {r1, r2, r3, r4}
  Callers = {c1, c2}
  None = None
  MaxConcurrentSessions = 2
  MaxInFlightStarts = 2
  FailSteps <- CleanFailures
  Crashable <- NoCrashes
SYMMETRY Symmetry
INVARIANTS
  RunsTracked
  OneLivePerAccount
  SessionsWithinOverlap
  HandedOutIsServing
  NoOrphans
PROPERTY
  ImplementsAccountSession
