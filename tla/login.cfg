SPECIFICATION FairSpec
CONSTANTS
  PasswordLevels <- AllLevels
  Accounts <- EdgeAccounts
INVARIANTS
  TypeOK
  SubstituteFresh
  ResolvedMeansGranted
  RejectedHasCause
  OneSocket
  NeverLeftWaiting
PROPERTIES
  LoginSettles
  StepsRunOut
  ImplementsSignOn
CHECK_DEADLOCK FALSE
