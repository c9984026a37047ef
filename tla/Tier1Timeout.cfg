\* An answer that is complete when the deadline passes is judged as any other:
\* docs/oracles.md says that a call that timed out gives fault.
SPECIFICATION Spec
CONSTANTS
  Payloads <- MCPayloads
  OwnName = "own"
  OtherName = "other"
INVARIANTS
  TimeoutIsFault
