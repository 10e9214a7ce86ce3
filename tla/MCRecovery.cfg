SPECIFICATION RecoverySpec
CONSTANTS
  b1 = b1
  Batch = {b1}
  NoBatch = NoBatch
  Worker = {1}
  Slots <- OneSlot
  Task = {1}
  BatchOf <- FirstInBatch
  Priority <- Equal
  Key = {}
  MaxRun = 3
  MaxRetries = 1
  HotLimit = 0
  MaxSeq = 4
INVARIANTS
  TypeOK
  StoreAgrees
  RunHistory
  ClaimPinned
  RollbackOwnsRun
  OwnMessagesOnly
  RetriesAccounted
PROPERTIES
  LifecycleSpec
