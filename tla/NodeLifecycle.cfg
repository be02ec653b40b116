CONSTANTS
  MaxLines = 2
  MaxAccepted = 1
  MaxNodes = 2
SPECIFICATION ThreadsFairSpec
INVARIANT NothingRunsAfterClose
PROPERTY QuitTerminates
CHECK_DEADLOCK FALSE
