SPECIFICATION FairSpec
CONSTANTS
  Buffers = {b1, b2, b3, b4, b5}
  NoBuffer = nil
  Closers = {k1}
  QueueLimit = 2
  PoolSize = 1
  RingSize = 1
  MaxPackets = 3
INVARIANTS NoLostWakeup BuffersExclusive
PROPERTIES ImplementsChannel AcceptedIsHandled CloseTerminates
CHECK_DEADLOCK FALSE
