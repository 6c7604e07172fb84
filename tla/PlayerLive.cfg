SPECIFICATION FairSpec
CONSTANTS
  Options <- Cameras
  PktCap = 2
  FrameCap = 1
  Null = Null
  Flush = Flush
  MayDrop = TRUE
  FilterOut = {1}
  MaxDelay = 0
  MaxPkts = 3
  MaxSeeks = 0
  MaxPauses = 0
INVARIANT StagesFed DecoderFed WriterFed
PROPERTY LiveEnds PlaysBack
CHECK_DEADLOCK FALSE
