SPECIFICATION SessionSpec
CONSTANTS
  Worker = {1}
  Slots <- OneSlot
  Conn = {c1, c2}
  MaxHandle = 2
INVARIANTS
  DrainHolds
CHECK_DEADLOCK FALSE
