\* Two calls over seven declarations and five command lines, one edit.
CONSTANTS
  None = None
  Specs <- MCSpecs
  Settings <- MCSettings
  Paths <- MCPaths
  Pages = {"page"}
  Contents = {"c1", "c2"}
  MaxCalls = 2
  MaxEdits = 1
  ContractCases <- MCContractCases
  ArgvCases <- MCArgvCases
  StagingCases <- MCStagingCases
SPECIFICATION MCSpec
CHECK_DEADLOCK FALSE
INVARIANTS
  ProfileAsAsked
  ContractsKept
  ArgvTold
  SourcesStaged
