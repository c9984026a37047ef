\* A records file removed without its metadata, and a replay killed before its own.
SPECIFICATION Spec
CONSTANTS
  Sets <- MCSets
  Config <- MCConfig
  Seeds = {1, 2}
  MaxCommands = 4
  MaxEdits = 1
INVARIANTS
  MetaIsOfTheRecords
CHECK_DEADLOCK FALSE
