CONSTANTS
  a = a
  b = b
  c = c
  d = d
  Tasks = {a, b, c, d}
  DependsOn <- Join
  MaxRepairs <- RepairEach
  Unsupported = {d}
  MaxRetries = 2
  NoTask = NoTask
SPECIFICATION FairSpec
CHECK_DEADLOCK FALSE
INVARIANTS FailureReported ReturnsSettled SkipsExplained
PROPERTIES OnlyRetriesPassLate ImplementsPlanRun Terminates
