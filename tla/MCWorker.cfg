SPECIFICATION Spec
CONSTANTS
  MaxRun = 2
  Chunks = 2
  MaxEvent = 2
  FailLimit = 2
INVARIANTS
  NoOverlap
  ReportKept
  NeverBlocked
  LogsKept
  RerunOnlyAfterDrop
PROPERTIES
  RunSettles
CHECK_DEADLOCK FALSE
