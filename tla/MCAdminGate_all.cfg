CONSTANTS
  g1 = g1
  g2 = g2
  g3 = g3
  s4 = s4
  Groups <- SomeGroups
  Decode <- SomeSegments
  Configs <- EveryConfig
SPECIFICATION Spec
INVARIANTS TypeOK DoctorAgrees HandledOnlyIfAllowed OverridesOnlyInDev
CHECK_DEADLOCK FALSE
