SPECIFICATION Spec
CONSTANTS
  Token = {t1, t2}
  Conn = {c1, c2, c3}
  Form = {"new"}
  Choice = {TRUE}
  None = None
  WaitsForConnections = TRUE
SYMMETRY Interchangeable
INVARIANTS
  TypeOK
  TerminalModes
  PromptIsTracked
  ExchangeFollowsSession
  PasswordWiped
PROPERTIES
  LendsInOrder
  DroppedOnlyWhenIdle
CHECK_DEADLOCK FALSE
