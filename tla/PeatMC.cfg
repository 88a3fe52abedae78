SPECIFICATION FairSpec
CONSTANTS
  once = once
  every = every
  Jobs = {once, every}
  Once = {once}
  Concurrent = {once}
  AutoDisable = {every}
  MaxInstants = 2
  MaxFires = 3
  MaxCommands = 2
  MaxStarts = 2
INVARIANTS TypeOK OneFireAtATime FiresPerInstant
PROPERTIES StopDrains DueFires
CHECK_DEADLOCK FALSE
