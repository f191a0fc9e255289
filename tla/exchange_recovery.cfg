SPECIFICATION Spec
CONSTANTS
  Calls = {c1, c2, c3}
  Methods = {"attributes", "create", "prepare"}
  Handles = {1, 2}
  MaxActive = 1
  MaxID = 2
  NoRPB = 0
SYMMETRY CallSymmetry
INVARIANTS
  CleanCallAgrees
  CurrentRPBCreated
  
CHECK_DEADLOCK FALSE
