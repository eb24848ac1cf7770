SPECIFICATION Spec
CONSTANTS
  Unset = Unset
  Backends = {"legacy", "json"}
  RUN_INTERVAL = 2
  RESET_BUFFER = 1
  RESET_NEAR = 1
  CONFIRM_MIN_AGE = 1
  CONFIRM_MATCH = 0
  MAX_WINDOW = 2
  RETRY_GAP = 1
  MaxTime = 4
INVARIANTS
  SuccessRerunsNotLoses
PROPERTIES
  OwedOnlyPaid
  ImplementsSchedule
CHECK_DEADLOCK FALSE
