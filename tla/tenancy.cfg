SPECIFICATION RecordsSpec
CONSTANTS
  u1 = u1
  u2 = u2
  c1 = c1
  c2 = c2
  a1 = a1
  a2 = a2
  Users = {u1, u2}
  CustomerIds = {c1, c2, c3}
  AccountIds = {a1, a2, a3}
  Fields = {f1, f2}
  Requests = {q1, q2, q3}
  Legacy <- TheLegacy
  Null = Null
  Faults <- AllFaults
SYMMETRY Symmetry
INVARIANTS
  RecordsTypeOK
  OwnerOnly
  UpdatesMerge
