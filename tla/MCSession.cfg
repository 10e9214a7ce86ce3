SPECIFICATION SessionSpec
CONSTANTS
  Worker = {1, 2}
  Slots <- OneSlot
  Conn = {c1, c2, c3}
  MaxHandle = 4
INVARIANTS
  LatestWins
  ReachableOrOffline
CHECK_DEADLOCK FALSE
