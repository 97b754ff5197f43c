CONSTANTS
  g1 = g1
  g2 = g2
  g3 = g3
  s4 = s4
  Groups <- SomeGroups
  Decode <- SomeSegments
  Configs <- DevCreds
SPECIFICATION Spec
INVARIANTS WeakCredsPassInDev
CHECK_DEADLOCK FALSE
