CONSTANTS
  Counts = {0, 2}
  Types = {"event", "begin", "format"}
  Items <- MCItems
  Inputs <- MCInputs
  Options <- MCOptions
SPECIFICATION Spec
INVARIANTS
  FragmentsIntact
  SummaryRight
PROPERTY
  CountedEnds
