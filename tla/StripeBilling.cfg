SPECIFICATION Spec
CONSTANTS
  Subs = {1, 2}
  Invocations = {i1, i2}
  MaxEvents = 5
  MaxFaults = 1
SYMMETRY InvocationSymmetry
INVARIANTS TypeOK EventsActOnce SettledEventsConverge ParallelNeedsAnUnseenCheckout
CHECK_DEADLOCK FALSE
