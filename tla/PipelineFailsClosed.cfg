CONSTANTS
  a = a
  b = b
  c = c
  d = d
  Names = {a, b, c, d}
  CellLists <- Lists
  Briefs <- AllBriefs
  SwarmLists <- Planned
  Fixtures <- FewDecisions
  MaxCommands = 1
  NoBrief = NoBrief
  Nothing = Nothing
SPECIFICATION Spec
INVARIANT FailsClosed
CHECK_DEADLOCK FALSE
