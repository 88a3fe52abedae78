SPECIFICATION FairSpec
CONSTANTS
  a = a
  b = b
  c = c
  d = d
  NTasks = 3
  NMembers = 2
  Titles = {a, b, c}
  Requests <- AllRequests
  Limits <- TightAndLoose
INVARIANT TypeOK
INVARIANT OneHolder
INVARIANT DepsFirst
INVARIANT CapsHold
INVARIANT ReasonIsTrue
PROPERTY KeepsBoard
PROPERTY TeamEnds
CHECK_DEADLOCK FALSE
