CONSTANTS
  TextSizes = {1, 3, 4, 10, 11, 40}
  MaxShort = 20
  MaxParameters = 4
  MaxRequests = 2
SPECIFICATION Spec
INVARIANT HeaderTellsLength
CHECK_DEADLOCK FALSE
