SPECIFICATION Spec
CONSTANTS
  p1 = p1  p2 = p2  p3 = p3
  Procs <- ThreeProcs
  MAX_RUNNING = 2
  GLOBAL_MEMORY_BUFFER = 1
  MIN_RESERVE = 1
  TotalMem = 4
  MaxMemArgs = {4}
  Sizes <- MCSizes
  Expected <- MCExpected
  HasTimeout = {p2}
INVARIANTS TypeOK NoneLost NoOrphan
PROPERTIES EachSettled OldestFirst
