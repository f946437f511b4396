SPECIFICATION Spec
CONSTANTS
  Writers = {w1, w2, w3}
  Elements = {"t", "x"}
  TableOf <- MCTableOf
  MaxAttempts = 2
  MaxPasses = 2
  MaxInFlight = 3
  MaxFaults = 1
SYMMETRY WriterSymmetry
INVARIANTS TypeOK TextNeverAhead WidenedOnlyForLandedRows QuietStoresAgree
PROPERTY TextOnlyGrows
CHECK_DEADLOCK FALSE
