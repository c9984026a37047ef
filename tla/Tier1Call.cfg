\* Every kind of payload in every mode, cut off at any step.
SPECIFICATION Spec
CONSTANTS
  Payloads <- MCPayloads
  OwnName = "own"
  OtherName = "other"
INVARIANTS
  TypeOK
  ControlsHold
  RowIsValid
  BlockedTouchesNothing
  BenignIsServed
  NothingIsGuessed
  EvidenceSurvives
PROPERTIES
  WorkEnds
