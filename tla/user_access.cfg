SPECIFICATION Spec
CONSTANTS
  Requests = {q1, q2, q3}
  Passwords = {w1, w2}
  Secrets = {s1, s2}
  None = None
  Limit = 2
  Window = 2
  MaxTime = 2
  Faults <- AllFaults
SYMMETRY Symmetry
INVARIANTS
  WinnerOwnsAddress
  GateHeld
  UsableSecondFactor
  AttemptsBounded
