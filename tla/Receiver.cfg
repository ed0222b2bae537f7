SPECIFICATION FairSpec
CONSTANTS
  DeqThreads = {d1, d2}
  BatchSize = 1
  NumSignals = 2
  MaxEvents = 2
INVARIANTS TypeOK ProducersEndFirst LossesKnown WorkerAskedToLeave
PROPERTIES SignalEnds DurationEndsThreads
