SPECIFICATION FairSpec
CONSTANTS
  Options <- Files
  PktCap = 2
  FrameCap = 1
  Null = Null
  Flush = Flush
  MayDrop = FALSE
  FilterOut = {1}
  MaxDelay = 1
  MaxPkts = 4
  MaxSeeks = 1
  MaxPauses = 2
INVARIANT TypeOK PlayedOut FlushedBySeek
PROPERTY InOrder FileEnds
CHECK_DEADLOCK FALSE
