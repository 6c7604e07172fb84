CONSTANTS
  Options <- Plain
  Lag = 2
  Expiry = 2
  MaxDelay = 1
  MaxSignals = 2
  MaxClicks = 2
  MaxLosses = 2
SPECIFICATION Spec
INVARIANT AlarmOver
CHECK_DEADLOCK FALSE
