SPECIFICATION Spec
CONSTANTS
  Producers = {p1, p2}
  TimeMod = 3
  Window = 1
  BatchSize = 2
  TimeoutMs = 0
  MaxBuffers = 3
  MaxRefused = 0
INVARIANT StopFlushesAll
