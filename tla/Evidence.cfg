\* Two captures of one id or of two, and one edit or commit while they run.
SPECIFICATION Spec
CONSTANTS
  Captures = {"p1", "p2"}
  Ids = {"E-001", "e-1"}
  ValidIds = {"E-001"}
  Codes = {0}
  Claim = "no"
  Printable <- MCPrintable
  MaxEdits = 1
INVARIANTS
  VerifiedIsWhole
  ExitCodeTells
  HeaderIsTrue
PROPERTIES
  CapturesAreKept
