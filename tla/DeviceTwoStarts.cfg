SPECIFICATION Spec
CONSTANTS
  Host = {h1, h2}
  Param = {p1, p2}
  NoParam = NoParam
  SatpWaits = FALSE
  Timeouts = {0}
  Core = {0}
  FarCore = {}
  MaxRuns = 2
INVARIANTS
  OneRun
CHECK_DEADLOCK FALSE
