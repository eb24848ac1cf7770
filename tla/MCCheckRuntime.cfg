SPECIFICATION Spec
CONSTANTS
  Budget <- MCBudget
  Plans <- MCPlans
  MaxLost = 1
INVARIANTS
  WithinBudget
  SpentOnce
  SchedulesOnLive
  ReadsBack
  OneCard
CHECK_DEADLOCK FALSE
