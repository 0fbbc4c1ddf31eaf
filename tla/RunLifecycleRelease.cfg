CONSTANTS
  a = a
  b = b
  Tasks = {a, b}
  DependsOn <- Chain
  ReleaseMode = TRUE
  ReleaseMutation = TRUE
  RequireReadback = TRUE
  Options <- ReleaseFlags
  Gates <- ReleaseGates
  MaxCommands = 2
  MaxFaults = 2
  NoTask = NoTask
SPECIFICATION Spec
INVARIANTS ReceiptsReadBack OnlyClearedRuns PassedWasRun PassedPacketsComplete ReleaseEarned
PROPERTY ResumeKeepsProgress
CHECK_DEADLOCK FALSE
