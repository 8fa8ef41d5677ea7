\* Two processes calling twice each; realizations and the release of the lock
\* fail, calls are interrupted and processes killed, nothing is removed.
CONSTANTS
  Procs = {p1, p2}
  MaxCalls = 2
  MaxBreaks = 0
  Faults = {"guix", "mark", "release", "interrupt", "crash"}
SPECIFICATION FairSpec
CHECK_DEADLOCK FALSE
INVARIANTS
  ReuseCompleted
  LockExplained
PROPERTIES
  EveryCallEnds
  StoreSpec
