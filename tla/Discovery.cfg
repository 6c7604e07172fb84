SPECIFICATION FairSpec
CONSTANTS
  c1 = c1
  c2 = c2
  a1 = a1
  a2 = a2
  b = b
  Cameras = {c1, c2}
  Addrs = {a1, a2, b}
  CameraAt <- TwoCameras
  Options <- Mixed
  MaxSearches = 4
  MaxClicks = 2
INVARIANTS TypeOK OnePerCamera OneLogin Complete
PROPERTY Ends
CHECK_DEADLOCK FALSE
