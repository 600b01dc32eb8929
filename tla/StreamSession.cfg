SPECIFICATION FairSpec
CONSTANTS
  Sessions = {s1, s2}
  s1 = s1
  s2 = s2
  None = None
  Autostart = FALSE
INVARIANTS
  OneAtATime
  ConnectionCovered
  IdleIsClean
  ConnectsThroughRelay
PROPERTIES
  ImplementsLease
  StopEndsSession
  FlagComesDown
  LossIsNoticed
CHECK_DEADLOCK FALSE
