SPECIFICATION BondSpec
CONSTANTS
  MaxLinkId = 2
  Switchable = {}
  WindowMin = 1
  WindowDef = 1
  WindowMax = 1
  WindowMult = 1
  WindowIncr = 1
  WindowDecr = 1
  PktLogSize = 1
  MaxInFlight = 0
  SeqMod = 1
  Seqs = {}
  Suffixes = {0, 1, 2}
  ConnTimeout = 2
  IdleTime = 0
  Reg2Resend = 0
  Good = {1, 2}
  MaxRestarts = 1
PROPERTIES
  OnlyALostGroupAsksAnew
