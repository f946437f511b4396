SPECIFICATION Spec
CONSTANTS
  Hops = {h1, h2, h3}
  Tenants = {t1, t2}
  Reads = {r1}
  Writes = {w1, w2}
  Intents = {"query"}
  MaxAttempts = 2
  MaxInFlight = 2
  MaxFaults = 1
  NoHop = NoHop
  NoPlan = NoPlan
  NoTenant = NoTenant
SYMMETRY AskSymmetry
INVARIANTS TypeOK CommitsWerePreviewed SerialConfirmsCommitOnce
PROPERTIES ReadOnlyTouchesNoPreview SharedPlansArePortable
CHECK_DEADLOCK FALSE
