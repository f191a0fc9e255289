SPECIFICATION FairSpec
CONSTANTS
  Calls = {c1, c2}
  Methods = {"attributes", "create", "prepare"}
  Handles = {1}
  MaxActive = 2
  MaxID = 2
  NoRPB = 0
PROPERTIES
  CallSettles
  StepsRunOut
  ImplementsRemoteCall
CHECK_DEADLOCK FALSE
