CONSTANTS
  a = a
  b = b
  Tasks = {a, b}
  DependsOn <- Chain
  ReleaseMode = FALSE
  ReleaseMutation = FALSE
  RequireReadback = FALSE
  Options <- PlainFlags
  Gates <- AllowedGate
  MaxCommands = 2
  MaxFaults = 0
  NoTask = NoTask
SPECIFICATION Spec
INVARIANT PassedHasEvidence
CHECK_DEADLOCK FALSE
