\* Nothing goes wrong: one job on one reachable host, no fault at all.
CONSTANTS
  Jobs = {j1}
  NHosts = 1
  Restartable = {}
  MaxAttempts = 1
  Timeout = 1
  RemoveFailed = FALSE
  MaxLosses = 0
  Faults = {}
SPECIFICATION Spec
CHECK_DEADLOCK FALSE
INVARIANTS
  NoFaultNoFailure
