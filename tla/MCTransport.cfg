\* Graceful close, ordered draining and shutdown of the transport.
CONSTANTS
  Conns = {c1}
  Threads = {t1, t2}
  Load <- MCLoad
  LogMsgs <- MCLogMsgs
  QueueLimit = 1
  LogLimit = 1
  LogThreads = 2
  MaxEvent = 1
SPECIFICATION Spec
INVARIANTS
  RepliesBeforeClose
  DrainedInOrder
PROPERTIES
  HalfCloseEnds
  ShutdownFinishes
CHECK_DEADLOCK FALSE
