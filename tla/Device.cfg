SPECIFICATION FairSpec
CONSTANTS
  Host = {h1}
  Param = {p1, p2}
  NoParam = NoParam
  SatpWaits = FALSE
  Timeouts = {0, 999, 1000, 2500}
  Core = {0, 1}
  FarCore = {1}
  MaxRuns = 3
INVARIANTS
  TypeOK
  OneRun
  WaitHonest
  CountersOfLastRun
PROPERTIES
  ImplementsDeviceRuns
  WaitReturns
  StartReturns
CHECK_DEADLOCK FALSE
