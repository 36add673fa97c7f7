CONSTANTS
  RegisteredAtStart = TRUE
  Names = {n1, n2}
  TagValues = {a, b}
  Invalid = {}
  Callers = {p1, p2}
  Durations = {1000000, 250000000}
  Floats = {0, 1500000}
  Missing = Missing
  CheckedViews <- ViewsButDepth
  MaxCalls = 1
SPECIFICATION Spec
INVARIANT RecordedUnitsFitNames
CHECK_DEADLOCK FALSE
