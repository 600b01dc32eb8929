SPECIFICATION FairSpec
CONSTANTS
  Sessions = {s1}
  s1 = s1
  None = None
  Autostart = FALSE
PROPERTIES
  NeverStuckOpen
CHECK_DEADLOCK FALSE
