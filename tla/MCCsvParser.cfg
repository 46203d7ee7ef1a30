SPECIFICATION Spec
CONSTANTS
  Chars <- MCChars
  Capacity = 3
  Atoi <- MCAtoi
  MaxInput = 7
CHECK_DEADLOCK FALSE
INVARIANTS
  TypeOK
  CellsFit
  OneLine
  NothingMisplaced
  LevelIsSecondField
PROPERTIES
  ErrorIsFinal
