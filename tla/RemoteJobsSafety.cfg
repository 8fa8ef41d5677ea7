\* Two jobs, one submission each, two hosts used in turn; two commands fail.
CONSTANTS
  Jobs = {j1, j2}
  NHosts = 2
  Restartable = {}
  MaxAttempts = 1
  Timeout = 1
  RemoveFailed = TRUE
  MaxLosses = 2
  Faults = {"partition", "kill", "exit1", "retrieve", "cancel"}
SPECIFICATION Spec
SYMMETRY JobSymmetry
CHECK_DEADLOCK FALSE
INVARIANTS
  TypeOK
  RunsOnce
  SuccessIsPublished
  OutputsNeverLost
  NothingForgotten
  TimerSound
  FailureSeen
PROPERTIES
  VerdictsSpec
