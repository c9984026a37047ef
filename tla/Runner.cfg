\* Two processes on one output folder, killed at any step, and two edits or rebuilds.
SPECIFICATION Spec
CONSTANTS
  Runners = {"r1", "r2"}
  Specs <- MCSpecs
  Inputs <- MCInputs
  Configs <- MCConfigs
  Jobs = 2
  MaxEdits = 2
INVARIANTS
  MetaMeansComplete
  FolderHasOneUser
  NoRowsOfAFailedPool
  RowsAreOfTheSource
  ExitCodeTells
PROPERTIES
  RunnersEnd
