CONSTANTS
  p1 = p1
  p2 = p2
  p3 = p3
  w1 = w1
  w2 = w2
  Procs = {p1, p2}
  Workers = {w1, w2}
  WorkerOf <- TwoWorkers
  TTL = 1
  MaxPages = 1
  MaxWrites = 3
  PushAuthorized = TRUE
  PRAuthorized = TRUE
  MaxEvents = 6
  Skew = 0
  MaxClock = 1
  MaxTokens = 2
  NoState = NoState
  Nobody = Nobody
SPECIFICATION Spec
INVARIANTS
  CheckpointValid
  AcknowledgedIsStable
  NoLostUpdate
  RepairOrder
PROPERTIES
  RepliesTruthful
  ExhaustedIsFinal
  ImplementsRun
SYMMETRY SwapWorkers
VIEW WithoutReply
