SPECIFICATION FairSpec
CONSTANTS
  Options <- VideoLive
  PktCap = 2
  FrameCap = 1
  Null = Null
  Flush = Flush
  MayDrop = TRUE
  FilterOut = {1}
  MaxDelay = 0
  MaxPkts = 2
  MaxSeeks = 0
  MaxPauses = 0
PROPERTY StopReturns
CHECK_DEADLOCK FALSE
