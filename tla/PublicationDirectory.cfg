SPECIFICATION Spec
CONSTANTS
  Outputs <- MCOutputs
  Kinds = {"file", "dir"}
  MaxCalls = 3
  MaxErrors = 2
CHECK_DEADLOCK FALSE
INVARIANT DirectoryAsOnWorker
