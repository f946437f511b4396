SPECIFICATION Spec
CONSTANTS
  Writers = {w1, w2, w3}
  Elements = {"t", "x"}
  TableOf <- MCTableOf
  MaxAttempts = 2
  MaxPasses = 2
  MaxInFlight = 3
  MaxFaults = 0
INVARIANT LostSwapsAreMadeUp
CHECK_DEADLOCK FALSE
