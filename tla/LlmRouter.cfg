SPECIFICATION Spec
CONSTANTS
  p1 = p1
  p2 = p2
  r1 = r1
  r2 = r2
  FreeChain <- Chain2
  Requests = {r1, r2}
  Paying = {r1}
  Threshold = 2
  MaxOps <- TwoAndOne
INVARIANTS TypeOK LostMeansExhausted RetriesCostOnce RefusalIsLoud BarsHold
CHECK_DEADLOCK FALSE
