SPECIFICATION Spec
CONSTANTS
  r = r  d = d  Whole = Whole
  Riscvdv = {r}
  Directed = {d}
  SimLogs <- MCSimLogs
  CutLogs <- MCCutLogs
  COV = FALSE
  Edited <- MCEdited
  MaxMakes = 3
  MaxCrashes = 1
INVARIANTS NoTestRace MetadataKept PassWasEarned FirstReportHonest GreenMeansAllPassed
