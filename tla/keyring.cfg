SPECIFICATION LiveSpec
CONSTANTS
  Cmd = {c1, c2}
  None = None
  MaxInbox = 1
INVARIANTS
  TypeOK
  ExitTellsTruth
  OwnVerdict
PROPERTIES
  CompletedEnds
CHECK_DEADLOCK FALSE
