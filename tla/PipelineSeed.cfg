\* Images generated with one seed, a run under another.
SPECIFICATION Spec
CONSTANTS
  Sets <- MCSets
  Config <- MCConfig
  Seeds = {1, 2}
  MaxCommands = 4
  MaxEdits = 1
INVARIANTS
  DerivedIsInStep
CHECK_DEADLOCK FALSE
