\* One job that Snakemake may submit twice to the same host.
CONSTANTS
  Jobs = {j1}
  NHosts = 1
  Restartable = {j1}
  MaxAttempts = 2
  Timeout = 1
  RemoveFailed = FALSE
  MaxLosses = 0
  Faults = {"retrieve"}
SPECIFICATION Spec
CHECK_DEADLOCK FALSE
INVARIANTS
  SuccessIsPublished
