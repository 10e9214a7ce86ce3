SPECIFICATION LiveSpec
CONSTANTS
  b1 = b1
  Batch = {b1}
  NoBatch = NoBatch
  Worker = {1}
  Slots <- OneSlot
  Task = {1, 2}
  BatchOf <- FirstInBatch
  Priority <- SecondUrgent
  Key = {}
  MaxRun = 2
  MaxRetries = 1
  HotLimit = 1
  MaxSeq = 3
INVARIANTS
  UnsentIsOwned
PROPERTIES
  NoOvertaking
  QueuedIsServed
