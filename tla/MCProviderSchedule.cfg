SPECIFICATION Spec
CONSTANTS
  Unset = Unset
  RUN_INTERVAL = 4
  RESET_BUFFER = 1
  RESET_NEAR = 1
  CONFIRM_MIN_AGE = 2
  CONFIRM_MATCH = 1
  MAX_WINDOW = 5
  RETRY_GAP = 2
  MaxTime = 6
INVARIANTS
  TypeOK
  Tethered
  CandidateBeyondTether
  NeverBeyondHorizon
  NoRerunStorm
  DebtDuringAttempt
PROPERTIES
  CommittedDeadlineHolds
  DebtOnlyPaid
  PostponedOnlyConfirmed
CHECK_DEADLOCK FALSE
