CONSTANTS
  Alphabet <- EBCDICAlphabet
  Users <- MCUsers
  Passwords <- MCPasswords
  ClientSeeds <- MCClientSeeds
  ServerSeeds <- MCServerSeeds
SPECIFICATION Spec
INVARIANTS
  TypeOK
  HalvesRotate
  Decrypts
  SeedIsCounted
  SubstituteUnwinds
  KeysTellPasswords
  FoldTellsUsers
  KnownSubstitutes
CHECK_DEADLOCK FALSE
