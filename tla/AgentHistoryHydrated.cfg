CONSTANTS
  None = None
  MinMessages = 2
  TriggerTokens = 3
  KeepRecent = 1
  MaxMessages = 7
  MaxFailures = 0
SPECIFICATION Spec
INVARIANT HydratesHistory
CHECK_DEADLOCK FALSE
