CONSTANTS
  HeadSize = 2
  TextSizes = {0, 1, 3}
  FileSizes = {0, 1, 2, 3}
  Gone = Gone
  MaxSets = 3
  Threshold = 2
  CacheSize = 1
  ReadSize = 2
SPECIFICATION FairSpec
INVARIANTS TypeOK InOrder WholeWhenOk FailsClean SendsWhatWasSet
PROPERTY Returns
CHECK_DEADLOCK FALSE
