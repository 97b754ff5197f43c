CONSTANTS
  g1 = g1
  g2 = g2
  g3 = g3
  s4 = s4
  Groups <- SomeGroups
  Decode <- SomeSegments
  Configs <- DevConfigs
SPECIFICATION Spec
INVARIANTS DoctorExitForetells
CHECK_DEADLOCK FALSE
