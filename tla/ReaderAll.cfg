CONSTANTS
  HeaderSizes = {2, 4, 7}
  BodySizes = {None, 0, 2, 5}
  MaxSend = 8
  Caps = {None, 3}
  None = None
  MarkerLen = 2
  MaxHeader = 5
  InitialRead = 3
  NextRead <- Growing
  BodyChunk = 2
  MaxRetry = 2
  ReadTimeout = 1
  Deadline = 3
  ArenaCap = 3
  Word = 8
SPECIFICATION FairSpec
INVARIANTS TypeOK HeaderBounded HeaderEndFound TakesOnlyItsBody MemoryBounded GivesUpLate
PROPERTY Terminates
CHECK_DEADLOCK FALSE
