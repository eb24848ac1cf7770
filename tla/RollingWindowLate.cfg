SPECIFICATION RollingSpec
CONSTANTS
  Unset = Unset
  RUN_INTERVAL = 6
  RESET_BUFFER = 1
  RESET_NEAR = 1
  CONFIRM_MIN_AGE = 3
  CONFIRM_MATCH = 1
  MAX_WINDOW = 6
  RETRY_GAP = 2
  MaxTime = 9
  Window = 5
  MaxLag = 2
PROPERTIES
  AnchorStays
CHECK_DEADLOCK FALSE
