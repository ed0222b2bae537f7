CONSTANTS
  Threads = {t1, t2, t3}
  Blocks = {b1, b2, b3, b4}
  NoBlock = NoBlock
  QueueSize = 2
  RetryAttempts = 2
SPECIFICATION FairSpec
INVARIANTS
  TypeOK
  OneOwner
  BoundedByDemand
PROPERTY PushReturns
