SPECIFICATION Spec
CONSTANTS
  None = None
  d1 = d1
  e1 = e1
  k1 = k1
  Requests = {r1, r2, r3}
  Devices = {d1}
  Emails = {e1}
  Keys = {k1}
  Limit <- Limits
  MaxFaults = 1
SYMMETRY Symmetric
INVARIANTS TypeOK CapsHoldUnlessRaced NobodyIsLockedOut KeyMintsOnce
CHECK_DEADLOCK FALSE
