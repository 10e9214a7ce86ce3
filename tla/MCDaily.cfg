SPECIFICATION Spec
CONSTANTS
  SnapshotLimit = 2
  PageSize = 1
  Capacity = 1
  DayPlan <- TwoDays
  MaxEvent = 3
  Scenario <- Scenarios
INVARIANTS
  SubmittedExactly
  OpenWorkProtected
  PagedListsTrue
PROPERTIES
  BatchCompletes
CHECK_DEADLOCK FALSE
