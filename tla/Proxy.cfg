SPECIFICATION FairSpec
CONSTANTS
  Options <- Both
  MaxStarts = 2
  MaxChanges = 3
  MaxRequests = 2
  MaxMessages = 1
INVARIANTS TypeOK OneServes CameraStops ListenerKept
PROPERTIES Served PortFreed
CHECK_DEADLOCK FALSE
