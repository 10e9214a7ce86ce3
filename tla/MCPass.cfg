SPECIFICATION PassSpec
CONSTANTS
  b1 = b1
  Batch = {b1}
  NoBatch = NoBatch
  Worker = {1}
  Slots <- TwoSlots
  Task = {1, 2}
  BatchOf <- FirstInBatch
  Priority <- Equal
  Key = {"k1"}
  MaxRun = 2
  MaxRetries = 1
  HotLimit = 0
  MaxSeq = 4
INVARIANTS
  SlotAccounting
  CoreInv
  QueueExact
  StoppedBatchDrained
PROPERTIES
  FinalStaysFinal
