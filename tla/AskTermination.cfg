SPECIFICATION FairSpec
CONSTANTS
  Hops = {h1, h2}
  Tenants = {t1}
  Reads = {r1}
  Writes = {w1}
  Intents = {"query", "write"}
  MaxAttempts = 3
  MaxInFlight = 2
  MaxFaults = 1
  NoHop = NoHop
  NoPlan = NoPlan
  NoTenant = NoTenant
PROPERTIES HopsTerminate
CHECK_DEADLOCK FALSE
