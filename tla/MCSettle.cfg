SPECIFICATION SettleSpec
CONSTANTS
  b1 = b1
  Batch = {b1}
  NoBatch = NoBatch
  Worker = {1}
  Slots <- TwoSlots
  Task = {1, 2}
  BatchOf <- FirstInBatch
  Priority <- Equal
  Key = {}
  MaxRun = 2
  MaxRetries = 1
  HotLimit = 2
  MaxSeq = 4
INVARIANTS
  RecoveredWorkerHeld
PROPERTIES
  NoOvercommit
