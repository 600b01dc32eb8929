SPECIFICATION Spec
CONSTANTS
  NumTransfers = 2
  MaxFrame = 1
  FramePoolSize = 1
INVARIANTS
  ClosedStreamIsQuiet
  FramesAccounted
  DeletedIsQuiet
PROPERTY
  StopReturns
CHECK_DEADLOCK FALSE
