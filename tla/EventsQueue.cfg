SPECIFICATION Spec
CONSTANTS
  None = None
  Fingerprints = {f1, f2}
  Alerts = {}
  Payments = {p1}
  Batches = {b1, b2}
  Isolates = {i1}
  Confs <- MCConfs
  Threshold = 2
  MaxBatch = 2
  MaxRetries = 1
  MaxFaults = 1
INVARIANTS TypeOK EveryMessageIsAccountedFor AckedMeansDelivered OnlyTheOwningSinkRedrives
SYMMETRY Symmetric
CHECK_DEADLOCK FALSE
