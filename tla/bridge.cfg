SPECIFICATION LiveSpec
CONSTANTS
  Sender = {s1}
  Path = {p1}
  Token = {t1, t2}
  Task = {main, x1, x2}
  Main = main
  None = None
  Reuse = TRUE
  Conn = {c1, c2}
  Form = {"confirm"}
  Choice = {FALSE}
  WaitsForConnections = TRUE
  MaxFaults = 1
INVARIANTS
  OneWantedPrompt
  StopsOnlyTheFinished
  SessionIsHeld
PROPERTIES
  ServerMeetsItsPeer
  NoQuestionLeft
CHECK_DEADLOCK FALSE
