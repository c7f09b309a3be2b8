CONSTANTS
  r1 = r1
  r2 = r2
  w1 = w1
  w2 = w2
  e1 = e1
  b1 = b1
  b2 = b2
  NoBlob = NoBlob
  Readers = {r1, r2}
  Peekers = {}
  Workers = {w1, w2}
  Prefetchers = {e1}
  Blobs = {b1, b2}
  KnownSize = {b1}
  Leftovers = {"absent", "corrupt"}
  Explicit = 2
SPECIFICATION MCJoinSpec
INVARIANT NoOrphanedRead
PROPERTY KeepsPromise
PROPERTY EveryReadAnswered
CHECK_DEADLOCK FALSE
