CONSTANTS
  Payloads = {0, 6, 11, 20, 50}
  Extras = {0, 3}
SPECIFICATION Spec
INVARIANTS
  TypeOK
  NothingMissed
  NothingLeft
  PaddingRejects
  OnlyLastTorn
  TextsInPlace
CHECK_DEADLOCK FALSE
