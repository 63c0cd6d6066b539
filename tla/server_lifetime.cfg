SPECIFICATION Spec
CONSTANTS
  Token = {t1}
  Conn = {c1, c2}
  Form = {"password", "new", "confirm"}
  Choice = {TRUE, FALSE}
  None = None
  WaitsForConnections = TRUE
SYMMETRY Interchangeable
PROPERTIES
  KeptForLifetime
CHECK_DEADLOCK FALSE
