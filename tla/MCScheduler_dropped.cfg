CONSTANTS
  k1 = k1
  k2 = k2
  Keys = {k1}
  Loads = {0, 1}
  Boot = 0
  Execs = {}
  Stoppers = {}
  MaxJobs = 2
  Disks <- DisksOneJob
  Outcomes = {"SKIPPED"}
  NoReg = NoReg
  Nobody = Nobody
SPECIFICATION Spec
PROPERTIES DroppedLoopNeverWakes
