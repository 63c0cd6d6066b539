SPECIFICATION Spec
CONSTANTS
  Sender = {s1}
  Path = {p1}
  Token = {t1, t2}
  Task = {main, x1, x2, x3}
  Main = main
  None = None
  Reuse = TRUE
SYMMETRY Interchangeable
PROPERTIES
  NoLateReady
CHECK_DEADLOCK FALSE
