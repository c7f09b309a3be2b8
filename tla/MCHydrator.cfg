CONSTANTS
  r1 = r1
  p1 = p1
  w1 = w1
  w2 = w2
  e1 = e1
  b1 = b1
  b2 = b2
  NoBlob = NoBlob
  Readers = {r1}
  Peekers = {p1}
  Workers = {w1, w2}
  Prefetchers = {e1}
  Blobs = {b1, b2}
  KnownSize = {b1}
  Leftovers = {"absent", "good", "short", "corrupt"}
  Explicit = 2

INIT MCInit
NEXT Next
SYMMETRY Interchangeable
CONSTRAINT OneBlobOrQueueing

INVARIANT TypeOK
INVARIANT OneWorkerPerBlob
INVARIANT NoDamagedBlobServed
INVARIANT NobodyWaitsInVain
INVARIANT NoPriorityInversion
