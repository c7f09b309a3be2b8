SPECIFICATION MCSpec
CONSTANTS
  f1 = f1
  f2 = f2
  r1 = r1
  b1 = b1
  b2 = b2
  None = None
  Fetchers = {f1, f2}
  Peekers = {r1}
  Blobs = {b1, b2}
  Large = {b2}
  Procs = {1, 2, 3}
  PoolSizes = {1, 2}
  Chunks = 2
  PipeCap = 0
  MaxFaults = 1
CONSTRAINT
  OnePairOrCrossing
CHECK_DEADLOCK FALSE
INVARIANTS
  TypeOK
  PoolSound
  AnswersMatch
  CacheFileWhole
PROPERTIES
  EveryFetchReturns
