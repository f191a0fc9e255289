CONSTANTS
  TextSizes = {1, 3, 4, 10, 11, 40}
  MaxShort = 20
  MaxParameters = 4
  MaxRequests = 2
SPECIFICATION Spec
INVARIANTS
  TypeOK
  InStep
  ParametersWalkable
CHECK_DEADLOCK FALSE
