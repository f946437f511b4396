SPECIFICATION Spec
CONSTANTS
  p1 = p1
  p2 = p2
  r1 = r1
  r2 = r2
  FreeChain <- Chain2
  Requests = {r1}
  Paying = {}
  Threshold = 3
  MaxOps <- Thrice
INVARIANT LosersAreNotTripped
CHECK_DEADLOCK FALSE
