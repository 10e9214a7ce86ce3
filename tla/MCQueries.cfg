SPECIFICATION Spec
CONSTANTS
  Limit = 1
  Thread = {h1, h2}
  CacheSize = 2
  BaseDay = 1
  Day = 2
  Scenario <- Scenarios
INVARIANTS
  AnswerCurrent
  PagesExact
  RollbacksListed
SYMMETRY ThreadSymmetry
CHECK_DEADLOCK FALSE
