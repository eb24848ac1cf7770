SPECIFICATION Spec
CONSTANTS
  Unset = Unset
  RUN_INTERVAL = 1
  RESET_BUFFER = 1
  RESET_NEAR = 0
  CONFIRM_MIN_AGE = 1
  CONFIRM_MATCH = 0
  MAX_WINDOW = 1
  RETRY_GAP = 1
  MaxTime = 3
  MaxCrashes = 1
  Nobody = Nobody
  p1 = p1
  Providers = {p1, p2}
  Checkers = {c1}
  Runners = {}
  Users = {u1}
  INITIAL_ATTEMPTS = 2
  WATCHDOG_ATTEMPTS = 1
INVARIANTS
  RecoveredIsReported
PROPERTIES
  ImplementsSchedule
