SPECIFICATION Spec
CONSTANTS
  CharSize = {1, 2}
  MaxKeys = 4
INVARIANTS
  ReturnsWhatIsMeant
CHECK_DEADLOCK FALSE
