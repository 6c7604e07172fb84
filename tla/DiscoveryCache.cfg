SPECIFICATION Spec
CONSTANTS
  c1 = c1
  c2 = c2
  a1 = a1
  a2 = a2
  b = b
  Cameras = {c1, c2}
  Addrs = {a1, a2, b}
  CameraAt <- TwoCameras
  Options <- Cached
  MaxSearches = 2
  MaxClicks = 1
INVARIANT CacheKept
CHECK_DEADLOCK FALSE
