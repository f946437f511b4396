SPECIFICATION Spec
CONSTANTS
  None = None
  Fingerprints = {f1, f2, f3}
  Alerts = {}
  Payments = {}
  Batches = {b1, b2}
  Isolates = {i1}
  Confs <- TinybirdAlone
  Threshold = 2
  MaxBatch = 1
  MaxRetries = 1
  MaxFaults = 0
INVARIANT BreakerResetsOnSuccess
CHECK_DEADLOCK FALSE
