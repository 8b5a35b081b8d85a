SPECIFICATION FairSpec
CONSTANTS
  Viewers = {v1, v2}
  Effects = {e1, e2}
  Accounts = {a1, a2}
  Ports = {p1, p2}
  None = None
INVARIANTS
  SeesOwnAccount
  NoLeakedViewer
  ShownIsCurrent
PROPERTY
  EffectsSettle
