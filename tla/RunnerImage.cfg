\* The image of the metadata is read when the rows are written: it need not be the
\* one they were computed in.
SPECIFICATION Spec
CONSTANTS
  Runners = {"r1", "r2"}
  Specs <- MCSpecs
  Inputs <- MCInputs
  Configs <- MCConfigs
  Jobs = 2
  MaxEdits = 2
INVARIANTS
  ImageIsTheOneThatRan
