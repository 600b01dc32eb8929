SPECIFICATION Spec
CONSTANTS
  MaxLinkId = 2
  Switchable = {2}
  WindowMin = 1
  WindowDef = 2
  WindowMax = 3
  WindowMult = 1
  WindowIncr = 2
  WindowDecr = 1
  PktLogSize = 2
  MaxInFlight = 3
  SeqMod = 8
  Seqs = {7, 0}
  Suffixes = {0}
  ConnTimeout = 0
  IdleTime = 0
  Reg2Resend = 0
VIEW FlowView
INVARIANTS
  SilentLinkOwnsNothing
  WindowBounded
  LiveWithinInFlight
  LiveLinkIsChosen
