SPECIFICATION FairSpec
CONSTANTS
  Threads = {t1, t2, t3}
  Values = {v1, v2}
  NoThread = NoThread
  NoValue = NoValue
  MaxCalls = 2
  MaxSpurious = 1
INVARIANTS
  TypeOK
  QueueGuarded
  NoLostWakeup
PROPERTIES
  ImplementsAtomicQueue
  CallReturns
  StrandedOnlyByThrow
CHECK_DEADLOCK FALSE
