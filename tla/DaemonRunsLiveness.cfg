SPECIFICATION FairSpec
CONSTANTS
  j1 = j1
  j2 = j2
  Jobs = {j1, j2}
  capped = {j1}
  NoJob = NoJob
  Cap <- OneAttempt
  MaxConcurrent = 1
  RunLimit = 2
  MaxResumes = 1
  MaxBoots = 1
PROPERTIES ReservationEnds RunsSettle
CHECK_DEADLOCK FALSE
