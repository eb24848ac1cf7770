SPECIFICATION FairSpec
CONSTANTS
  Unset = Unset
  WATCHDOG_INTERVAL = 3
  DEADLINE_BACKOFF = 1
  EXTERNAL_RECHECK = 2
  ERROR_BACKOFF = 1
  CHECK_TIMEOUT = 4
  MaxDue = 1
INVARIANTS
  NoOrphan
  PromptDeadline
  NoSilentGap
  NoBacklog
  RunningRowIsLive
PROPERTIES
  CheckForever
  StopEnds
