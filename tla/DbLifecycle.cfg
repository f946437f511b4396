SPECIFICATION Spec
CONSTANTS
  None = None
  Ids = {d1, d2}
  Anons = {a1}
  Users = {u1, u2}
  Jobs = {j1, j2}
  MaxTries = 3
  MaxFaults = 2
SYMMETRY Symmetric
INVARIANTS TypeOK StoresAgree ReadersAreHeirs OwnersAreServed
PROPERTY ImplementsOwnership
CHECK_DEADLOCK FALSE
