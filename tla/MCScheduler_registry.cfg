CONSTANTS
  k1 = k1
  k2 = k2
  Keys = {k1, k2}
  Loads = {0, 1, 2}
  Boot = 0
  Execs = {e1, e2}
  Stoppers = {}
  MaxJobs = 2
  Disks <- DisksTwoJobs
  Outcomes = {"SKIPPED"}
  NoReg = NoReg
  Nobody = Nobody
SPECIFICATION FairSpec
INVARIANTS NoLostJob
PROPERTIES RunReleased
CHECK_DEADLOCK FALSE
