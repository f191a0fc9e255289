SPECIFICATION Spec
CONSTANTS
  MaxStatements = 7
  IntMax = 7
  NameSpace = 4
  Blocks = 2
INVARIANTS
  TypeOK
  NamesDistinct
CHECK_DEADLOCK FALSE
