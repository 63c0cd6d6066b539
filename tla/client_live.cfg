SPECIFICATION LiveSpec
CONSTANTS
  Sender = {s1}
  Path = {p1, p2}
  Token = {t1, t2}
  Task = {main, x1, x2}
  Main = main
  None = None
  Reuse = TRUE
PROPERTIES
  EveryoneServed
  BecomesReady
  StopIsConfirmed
CHECK_DEADLOCK FALSE
