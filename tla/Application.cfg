SPECIFICATION FairSpec
CONSTANTS
  Unset = Unset
  RUN_INTERVAL = 1
  RESET_BUFFER = 1
  RESET_NEAR = 0
  CONFIRM_MIN_AGE = 1
  CONFIRM_MATCH = 0
  MAX_WINDOW = 2
  RETRY_GAP = 1
  MaxTime = 2
  MaxCrashes = 1
  Nobody = Nobody
  p1 = p1
  Providers = {p1}
  Checkers = {c1}
  Runners = {r1}
  Users = {u1}
  INITIAL_ATTEMPTS = 2
  WATCHDOG_ATTEMPTS = 1
INVARIANTS
  OneAtATime
  GapIsKept
PROPERTIES
  ImplementsSchedule
  DueIsAttempted
  CommandsEnd
