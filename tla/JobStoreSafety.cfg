SPECIFICATION Spec
CONSTANTS
  j1 = j1
  j2 = j2
  j3 = j3
  Jobs = {j1, j2, j3}
  NoJob = NoJob
  c1 = c1
  c2 = c2
  Configs = {c1, c2}
  CountLimit = 1
  ReadsMayFail = TRUE
  MovesMayFail = TRUE
INVARIANT TypeOK
PROPERTY KeepsJobs
CHECK_DEADLOCK FALSE
