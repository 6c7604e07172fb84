SPECIFICATION Spec
CONSTANTS
  Options <- OneAV
  CacheTime = 2
  MaxSkew = 1
  MaxTime = 5
  MaxAsks = 1
  MaxBreaks = 1
  Null = Null
PROPERTY PreAlarmKept
