\* Three processes, two calls each, every fault but the
\* keyboard interrupt, one loss of the profile.
CONSTANTS
  Procs = {p1, p2, p3}
  MaxCalls = 2
  MaxBreaks = 1
  Faults = {"guix", "mark", "release", "crash", "remove"}
SPECIFICATION Spec
SYMMETRY ProcSymmetry
CHECK_DEADLOCK FALSE
INVARIANTS
  TypeOK
  MutualExclusion
  MarkerSound
  UsersKeepProfile
