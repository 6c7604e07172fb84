CONSTANTS
  Options <- Cameras
  Lag = 2
  Expiry = 2
  MaxDelay = 1
  MaxSignals = 2
  MaxClicks = 2
  MaxLosses = 2
SPECIFICATION FairSpec
INVARIANTS TypeOK AlarmFresh Settled AlwaysRecorded
PROPERTY AlarmRecorded
CHECK_DEADLOCK FALSE
