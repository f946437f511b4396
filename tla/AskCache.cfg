SPECIFICATION Spec
CONSTANTS
  Hops = {h1, h2}
  Tenants = {t1, t2}
  Reads = {r1}
  Writes = {w1}
  Intents = {"query"}
  MaxAttempts = 2
  MaxInFlight = 1
  MaxFaults = 0
  NoHop = NoHop
  NoPlan = NoPlan
  NoTenant = NoTenant
PROPERTY CachedPlansArePortable
CHECK_DEADLOCK FALSE
