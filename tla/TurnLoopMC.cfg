SPECIFICATION FairSpec
CONSTANTS
  MaxMessages = 3
  MaxInterrupts = 1
INVARIANTS TypeOK MessageOnce DrainedInOrder FlagsOwned
PROPERTY QueueDrains
CHECK_DEADLOCK FALSE
