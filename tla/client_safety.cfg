SPECIFICATION SafetySpec
CONSTANTS
  Sender = {s1, s2}
  Path = {p1}
  Token = {t1, t2, t3}
  Task = {main, x1, x2}
  Main = main
  None = None
  Reuse = TRUE
SYMMETRY Interchangeable
INVARIANTS
  TypeOK
  SinglePrompter
  WaitingLine
  NoLostWakeup
  NoStuckSession
PROPERTIES
  ExitClean
  DoneOnce
  ImplementsLine
CHECK_DEADLOCK FALSE
