CONSTANTS
  a = a
  b = b
  c = c
  d = d
  Path <- MCPath
  Thread = {t1, t2}
  NoPath = NoPath
  Sizes = {1, 5, 6}
  Gone = Gone
  MaxVersion = 1
  Grain = 1
  MaxCacheFiles = 2
  MaxFileSize = 5
  TotalLimit = 3
  Word = 32
SPECIFICATION MCSpec
INVARIANTS TypeOK FreshServed OvershootBounded BytesBounded
PROPERTY SomeLoadReturns
