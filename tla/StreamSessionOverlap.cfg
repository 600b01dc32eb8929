SPECIFICATION Spec
CONSTANTS
  Sessions = {s1, s2}
  s1 = s1
  s2 = s2
  None = None
  Autostart = TRUE
INVARIANTS
  ConnectionCovered
CHECK_DEADLOCK FALSE
