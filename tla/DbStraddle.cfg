SPECIFICATION Spec
CONSTANTS
  None = None
  Ids = {d1, d2, d3}
  Anons = {}
  Users = {u1, u2}
  Jobs = {j1, j2}
  MaxTries = 1
  MaxFaults = 0
INVARIANT MistakenReapsHeal
CHECK_DEADLOCK FALSE
