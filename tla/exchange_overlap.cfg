SPECIFICATION Spec
CONSTANTS
  Calls = {c1, c2, c3}
  Methods = {"create", "prepare"}
  Handles = {1}
  MaxActive = 2
  MaxID = 2
  NoRPB = 0
SYMMETRY CallSymmetry
INVARIANTS
  TypeOK
  CorrelationIDsDistinct
  CleanCallAgrees
  RequestsFramed
  NoWakeupMissed
  EachResumedOnce
CHECK_DEADLOCK FALSE
