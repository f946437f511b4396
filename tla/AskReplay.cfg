SPECIFICATION Spec
CONSTANTS
  Hops = {h1, h2, h3}
  Tenants = {t1}
  Reads = {r1}
  Writes = {w1}
  Intents = {"query"}
  MaxAttempts = 2
  MaxInFlight = 2
  MaxFaults = 0
  NoHop = NoHop
  NoPlan = NoPlan
  NoTenant = NoTenant
INVARIANT ApprovedStatementRunsOnce
CHECK_DEADLOCK FALSE
