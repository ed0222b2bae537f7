CONSTANTS
  Children = {"first", "second"}
  NumSignals = 2
SPECIFICATION FairSpec
INVARIANTS
  NoneLeftBehind
  StoppedBeforeExit
  ConsumerLast
PROPERTIES
  AllEnd
