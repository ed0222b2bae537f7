CONSTANTS
  Producers = {p1, p2}
  TimeMod = 4
  Window = 1
  BatchSize = 2
  TimeoutMs = 0
  MaxBuffers = 4
  MaxRefused = 1
SPECIFICATION Spec
SYMMETRY Symmetry
INVARIANTS
  TypeOK
  SingleConsumer
  SortedQueueOrdered
  NoEmptyOutput
  BackStepsReported
  SameTimeInPushOrder
  WindowAbsorbsSkew
  EachBufferOnce
  StopLeavesOnlyBacklog
PROPERTY ContractSpec
