SPECIFICATION FairSpec
CONSTANTS
  solo = solo
  duo = duo
  d1 = d1
  d2 = d2
  Jobs = {duo}
  Dirs = {d1, d2}
  Triggers <- Debounced
  Watchable = {d1, d2}
  MaxChanges = 2
  MaxCommands = 0
  MaxStops = 0
PROPERTY DebounceFires
CHECK_DEADLOCK FALSE
