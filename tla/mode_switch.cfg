SPECIFICATION LiveSpec
CONSTANTS
  Pid = {1, 2}
  Cmd = {c1, c2}
  None = None
  Tries = 2
  ByHand = TRUE
INVARIANTS
  TypeOK
  SignalsAreSafe
  OldOwnerGone
PROPERTIES
  TakesEffect
  CommandEnds
CHECK_DEADLOCK FALSE
