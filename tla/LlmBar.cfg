SPECIFICATION Spec
CONSTANTS
  p1 = p1
  p2 = p2
  r1 = r1
  r2 = r2
  FreeChain <- Chain2
  Requests = {r1, r2}
  Paying = {}
  Threshold = 3
  MaxOps <- TwoAndOne
INVARIANT BarsHoldForTheirWindow
CHECK_DEADLOCK FALSE
