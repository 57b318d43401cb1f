SPECIFICATION Spec
CONSTANTS
  r = r  d = d  Whole = Whole
  Riscvdv = {}
  Directed = {d}
  SimLogs <- MCStaleLogs
  CutLogs <- MCCutLogs
  COV = FALSE
  Edited <- MCEdited
  MaxMakes = 2
  MaxCrashes = 0
INVARIANT ReportHonest
