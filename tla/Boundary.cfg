\* Every text of up to 15 characters in at most five runs of equal characters.
SPECIFICATION Spec
CONSTANTS
  UPPER = {"B", "T"}
  DIGITS = {"7"}
  Char = {"B", "T", "7", "-", "x"}
  MaxLen = 15
  MaxRuns = 5
INVARIANTS
  CheckIsFullmatch
CHECK_DEADLOCK FALSE
