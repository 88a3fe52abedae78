SPECIFICATION FairSpec
CONSTANTS
  NPhases = 3
  NTasks = 3
  Plans <- SmallPlans
  Budgets = {0, 2}
  Ceilings = {2, 9}
  MaxCost = 1
  MaxSessions = 3
  MaxCrashes = 1
  MaxFaults = 1
INVARIANTS TypeOK SpendIsSaved EndIsTrue
PROPERTIES KeepsLedger PhaseWithinBudget SessionEnds
CHECK_DEADLOCK FALSE
