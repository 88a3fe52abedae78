SPECIFICATION MCSpec
CONSTANTS
  solo = solo
  duo = duo
  d1 = d1
  d2 = d2
  Jobs = {solo, duo}
  Dirs = {d1, d2}
  Triggers <- Immediate
  Watchable = {d1}
  MaxChanges = 2
  MaxCommands = 1
  MaxStops = 1
INVARIANTS TypeOK NoBlindSpot
PROPERTIES ChangeFires Quiesces
CHECK_DEADLOCK FALSE
