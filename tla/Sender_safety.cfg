CONSTANTS
  SendThreads = {s1}
  SendQueueSize = 1
  Blocks = {b1, b2, b3, b4, b5}
  NoBlock = NoBlock
  QueueSize = 3
  RetryAttempts = 2
  BufSize = 3
  CommandLines <- AllCommandLines
  Configs <- AllConfigs
  ItemKinds <- MixedItems
  Lengths = {4}
  MaxRefused = 1
SPECIFICATION Spec
SYMMETRY Symmetry
INVARIANTS
  TypeOK
  ItemsKept
  
  CallbackFindsBuffer
  NumbersInOrder
  EndsComplete
  SendersRemoved
PROPERTY
  OptionsMatchProgram
