SPECIFICATION Spec
CONSTANTS
  MaxRun = 2
  Chunks = 2
  MaxEvent = 2
  FailLimit = 2
INVARIANT RunsOnce
CHECK_DEADLOCK FALSE
