SPECIFICATION Spec
CONSTANTS
  CharSize = {1, 2, 3}
  MaxKeys = 5
INVARIANTS
  TypeOK
  ReturnsOneKindAsMeant
  ReturnsWholeCharacters
CHECK_DEADLOCK FALSE
