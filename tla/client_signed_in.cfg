SPECIFICATION Spec
CONSTANTS
  Phones = {p1}
  Devices = {d1, d2}
  Tokens = {t1, t2, t3, t4}
  Requests = {q1, q2, q3, q4}
  None = None
  Overlap = 2
  Faults <- DbFaults
  Losses <- LostAnswers
SYMMETRY Symmetry
INVARIANTS
  NeverKeepsReplaced
  SignedInUnlessRaced
