SPECIFICATION Spec
CONSTANTS
  Outputs <- MCOutputs
  Kinds = {"file", "dir"}
  MaxCalls = 3
  MaxErrors = 3
INVARIANTS TypeOK TargetsWhole PublishedAll NoTemporaryLeft
PROPERTIES NothingBeforeAllCopied NothingLost
CHECK_DEADLOCK FALSE
