SPECIFICATION LiveSpec
CONSTANTS
  Token = {t1, t2}
  Conn = {c1, c2}
  Form = {"confirm"}
  Choice = {FALSE}
  None = None
  WaitsForConnections = TRUE
PROPERTIES
  PromptWithdrawn
  OrphansReaped
  EveryPromptEnds
  InterruptEnds
CHECK_DEADLOCK FALSE
