SPECIFICATION FairSpec
CONSTANTS
  Options <- Sources
  CacheTime = 2
  MaxSkew = 1
  MaxTime = 6
  MaxAsks = 2
  MaxBreaks = 1
  Null = Null
INVARIANT TypeOK CacheCovers VideoTrimmed NothingLost
PROPERTY PreAlarmMerged Overlap BreakEnds
