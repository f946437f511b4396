SPECIFICATION Spec
CONSTANTS
  Subs = {1}
  Invocations = {i1, i2}
  MaxEvents = 5
  MaxFaults = 0
INVARIANT StatusInAnyOrder
CHECK_DEADLOCK FALSE
