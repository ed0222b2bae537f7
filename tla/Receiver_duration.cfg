SPECIFICATION FairSpec
CONSTANTS
  DeqThreads = {d1, d2}
  BatchSize = 1
  NumSignals = 1
  MaxEvents = 2
PROPERTY DurationEndsRun
