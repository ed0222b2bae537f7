CONSTANTS
  SendThreads = {s1, s2}
  SendQueueSize = 3
  Blocks = {b1, b2, b3, b4}
  NoBlock = NoBlock
  QueueSize = 6
  RetryAttempts = 2
  BufSize = 3
  CommandLines <- OneCommandLine
  Configs <- FileConfigs
  ItemKinds <- ThreeSizes
  Lengths = {0, 1, 2}
  MaxRefused = 1
SPECIFICATION FairSpec
PROPERTIES
  LoopEnds
  InterruptExits
