SPECIFICATION FairSpec
CONSTANTS
  Runs = {r1, r2}
  Policies = {"fail", "delete", "adopt"}
  Keeps = {"on-failure"}
  Quota = 1
  Life = 1
  MaxTime = 2
  MaxErrors = 1
  Faults = {"boot", "crash", "late", "interrupt", "lookup"}
INVARIANTS TypeOK NoOrphan FailPreservesOthers RunKeepsServer
PROPERTY EveryServerGoes
CHECK_DEADLOCK FALSE
