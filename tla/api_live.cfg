SPECIFICATION FairSpec
CONSTANTS
  Accounts = {a1}
  Requests = {q1, q2}
  None = None
  Ops <- AllOps
  Faults <- AllFaults
PROPERTIES
  HolderKeepsLock
  RequestsFinish
