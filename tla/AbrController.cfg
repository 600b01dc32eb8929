SPECIFICATION FairSpec
CONSTANTS
  MinKbps = 3
  MaxKbps = 8
  SndBufHigh = 4
  SndBufLow = 2
  KeepNum = 4
  KeepDen = 5
  Step = 2
  Interval = 4
  Cooldown = 2
  LossHigh = 1
  Second = 2
  SndBufs = {0, 3, 5, 8}
  MaxLoss = 3
  MaxGap = 5
  Starts = {8, 9}
INVARIANTS
  TypeOK
PROPERTIES
  ClimbsPatiently
  DropsSpaced
  DropsHaveCause
  CalmRecovers
  ChokedReachesFloor
