CONSTANTS
  Cells <- FewCells
  Outputs <- FewOutputs
  MaxCalls = 2
SPECIFICATION Spec
INVARIANTS TypeOK PeersSettled WinnerIsBest PassedEarned AttemptsPaid
PROPERTIES ImplementsExecute CallEnds
CHECK_DEADLOCK FALSE
