CONSTANTS
  k1 = k1
  k2 = k2
  Keys = {k1}
  Loads = {0, 1}
  Boot = 0
  Execs = {e1}
  Stoppers = {s1}
  MaxJobs = 2
  Disks <- DisksOneJob
  Outcomes = {"SKIPPED"}
  NoReg = NoReg
  Nobody = Nobody
SPECIFICATION Spec
INVARIANTS TypeOK OneRunPerKey NoLeakedEntry StopReachesRun
PROPERTIES ReleasedByOwner SerialRuns
