CONSTANTS
  a = a
  b = b
  c = c
  d = d
  Names = {a, b, c, d}
  CellLists <- Lists
  Briefs <- AllBriefs
  SwarmLists <- Planned
  Fixtures <- FewDecisions
  MaxCommands = 4
  NoBrief = NoBrief
  Nothing = Nothing
SPECIFICATION Spec
INVARIANTS VerdictCorrect ClearedByDecision PlansGrounded OwnWorkcells
PROPERTY CommandsEnd
CHECK_DEADLOCK FALSE
