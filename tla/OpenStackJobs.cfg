\* One rented worker, two jobs that may both be running when the limit passes,
\* one of them with a retry.
CONSTANTS
  Jobs = {j1, j2}
  NHosts = 1
  Restartable = {j1}
  MaxAttempts = 2
  Timeout = 1
  RemoveFailed = TRUE
  MaxLosses = 1
  Faults = {"partition", "exit1"}
SPECIFICATION FairLimited
CHECK_DEADLOCK FALSE
INVARIANTS
  LimitCancels
PROPERTIES
  EveryJobReported
