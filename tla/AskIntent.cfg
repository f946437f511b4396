SPECIFICATION Spec
CONSTANTS
  Hops = {h1, h2, h3}
  Tenants = {t1}
  Reads = {r1}
  Writes = {w1, w2}
  Intents = {"query", "write"}
  MaxAttempts = 3
  MaxInFlight = 1
  MaxFaults = 0
  NoHop = NoHop
  NoPlan = NoPlan
  NoTenant = NoTenant
INVARIANT WriteGoalNeverRunsAsRead
CHECK_DEADLOCK FALSE
