\* Two commands for one file, one failing call, one image changed by others.
CONSTANTS
  Invocations = {i1, i2}
  Other = other
  Timeout = 2
  MaxErrors = 2
  MaxEvents = 1
SPECIFICATION FairSpec
CHECK_DEADLOCK FALSE
INVARIANTS
  TypeOK
  OneImage
  LeftoverNamed
PROPERTIES
  EveryCommandEnds
