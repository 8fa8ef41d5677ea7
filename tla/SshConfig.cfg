\* Two runs on one machine, two addresses, two registrations per run.
CONSTANTS
  Runs = {r1, r2}
  Addresses = {a1, a2}
  MaxTries = 2
SPECIFICATION Spec
SYMMETRY Symmetry
CONSTRAINT Untorn
CHECK_DEADLOCK FALSE
INVARIANTS
  TypeOK
  EntryStays
  NothingLeft
