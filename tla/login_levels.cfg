SPECIFICATION Spec
CONSTANTS
  PasswordLevels <- AllLevels
  Accounts <- EdgeAccounts
INVARIANTS
  EveryLevelServed
CHECK_DEADLOCK FALSE
