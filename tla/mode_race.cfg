SPECIFICATION Spec
CONSTANTS
  Pid = {1, 2}
  Cmd = {c1}
  None = None
  Tries = 2
  ByHand = FALSE
PROPERTIES
  DisableHandsOver
CHECK_DEADLOCK FALSE
