SPECIFICATION Spec
CONSTANTS
  s1 = s1
  s2 = s2
  s3 = s3
  p1 = p1
  p2 = p2
  p3 = p3
  p4 = p4
  Starts = {s1, s2, s3}
  Ports = {p1, p2, p3, p4}
  None = None
  Faults <- AllFaults
SYMMETRY Symmetry
INVARIANTS
  OwnUnlessShared
