CONSTANTS
  g1 = g1
  g2 = g2
  g3 = g3
  Groups <- ThreeGroups
  Intervals = {0, 1, 2}
  TicksPerSec = 2
  StaleMultiplier = 2
  MaxEntries = 2
  MaxTime = 8
SPECIFICATION Spec
INVARIANTS TypeOK EntriesBounded RetryAfterSuffices
PROPERTIES EarlyOnlyIfCrowded
