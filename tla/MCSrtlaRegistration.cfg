SPECIFICATION FairSpec
CONSTANTS
  MaxLinkId = 3
  Switchable = {}
  WindowMin = 1
  WindowDef = 1
  WindowMax = 1
  WindowMult = 1
  WindowIncr = 1
  WindowDecr = 1
  PktLogSize = 1
  MaxInFlight = 0
  SeqMod = 1
  Seqs = {}
  Suffixes = {0, 1}
  ConnTimeout = 1
  IdleTime = 0
  Reg2Resend = 0
INVARIANTS
  PendingIsLinked
  ActiveWasHeard
PROPERTIES
  NoReg2Storm
  TurnsComeCloser
  RegistrationRotates
