SPECIFICATION Spec
CONSTANT
  MaxSessions = 2
INVARIANTS
  CommandsHaveClient
  DataIsOfAConnection
PROPERTIES
  HiddenPanelLetsGo
CHECK_DEADLOCK FALSE
