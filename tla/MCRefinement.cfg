\* The adapters and the OpenCensus worker refine ViewExport.
CONSTANTS
  RegisteredAtStart = TRUE
  Names = {n1}
  TagValues = {a, b}
  Invalid = {}
  Callers = {p1, p2}
  Durations = {1000000, 250000000}
  Floats = {0, 1500000}
  Missing = Missing
  CheckedViews <- ViewsButDepth
  MaxCalls = 2
SPECIFICATION Spec
PROPERTY ImplementsViewExport
CHECK_DEADLOCK FALSE
