\* Up to four commands, any of them killed, and two edits or removals between them.
SPECIFICATION Spec
CONSTANTS
  Sets <- MCSets
  Config <- MCConfig
  Seeds = {1, 2}
  MaxCommands = 4
  MaxEdits = 2
INVARIANTS
  DamageIsNoticed
  CutFileGivesTheSameRun
  CheckTells
  MetaComeLast
CHECK_DEADLOCK FALSE
