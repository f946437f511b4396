SPECIFICATION Spec
CONSTANTS
  Dispatches = {d1, d2, d3}
  Tiers = {"hobby", "pro"}
  Subscriptions = {s1, s2}
  NoSubscription = NoSubscription
  Allowance <- MCAllowance
  MaxPeriod = 2
  MaxSlots = 2
  Rates = {1}
  CapCents = 1
  MaxInFlight = 2
  MaxFaults = 1
SYMMETRY MeterSymmetry
INVARIANTS TypeOK OverageExact LedgerAheadOfStripe CapOvershootBounded BooksBalance
CHECK_DEADLOCK FALSE
