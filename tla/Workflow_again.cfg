CONSTANTS
  Children = {"first", "second"}
  NumSignals = 1
SPECIFICATION Spec
INVARIANT SecondCallReturns
