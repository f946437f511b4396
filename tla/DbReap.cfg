SPECIFICATION FairSpec
CONSTANTS
  None = None
  Ids = {d1, d2}
  Anons = {a1}
  Users = {u1}
  Jobs = {j1}
  MaxTries = 2
  MaxFaults = 0
PROPERTY OrphanRolesGo
CHECK_DEADLOCK FALSE
