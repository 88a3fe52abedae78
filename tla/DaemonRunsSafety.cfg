SPECIFICATION Spec
CONSTANTS
  j1 = j1
  j2 = j2
  Jobs = {j1, j2}
  capped = {j1, j2}
  NoJob = NoJob
  Cap <- OneAttempt
  MaxConcurrent = 1
  RunLimit = 2
  MaxResumes = 2
  MaxBoots = 2
INVARIANTS TypeOK ReservationExact PermitsExact RecordsTellTruth OneExecutor AttemptsWithinCap
PROPERTIES NoLostUpdate DrainShrinks KeepsLedger
CHECK_DEADLOCK FALSE
