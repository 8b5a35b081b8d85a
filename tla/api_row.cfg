SPECIFICATION Spec
CONSTANTS
  Accounts = {a1, a2}
  Requests = {q1, q2, q3}
  None = None
  Ops <- AllOps
  Faults <- OrderlyFaults
SYMMETRY Symmetry
INVARIANTS
  WorkerCallsExclusive
  NoAbandonedLock
  RowMatchesWorker
  ErrorOnlyIfDeleted
  SomeoneGetsLock
