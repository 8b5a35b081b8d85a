SPECIFICATION Spec
CONSTANTS
  Devices = {d1, d2}
  Tokens = {t1, t2, t3, t4}
  Requests = {q1, q2, q3, q4}
  None = None
  Overlap = 3
  Faults <- DbFaults
SYMMETRY Symmetry
INVARIANTS
  OneLivePerFamily
  ReuseEndsFamilies
  RevokedDeviceSilent
PROPERTY
  FailedRefreshCanRetry
