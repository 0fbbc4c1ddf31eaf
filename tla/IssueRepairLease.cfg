CONSTANTS
  p1 = p1
  p2 = p2
  p3 = p3
  w1 = w1
  w2 = w2
  Procs = {p1, p2, p3}
  Workers = {w1, w2}
  WorkerOf <- RestartedWorker
  TTL = 1
  MaxPages = 1
  MaxWrites = 1
  PushAuthorized = FALSE
  PRAuthorized = FALSE
  MaxEvents = 2
  Skew = 1
  MaxClock = 1
  MaxTokens = 2
  NoState = NoState
  Nobody = Nobody
SPECIFICATION Spec
INVARIANT
  OneHolder
PROPERTIES
  OnlyHolderWrites
  LiveLeaseKept
SYMMETRY SwapRestarts
VIEW WithoutReply
