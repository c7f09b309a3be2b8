CONSTANTS
  h1 = h1
  h2 = h2
  r1 = r1
  r2 = r2
  w1 = w1
  p1 = p1
  p2 = p2
  o1 = o1
  o2 = o2
  Handles = {h1, h2}
  Readers = {r1, r2}
  Writers = {w1}
  Paths = {p1, p2}
  Oids = {o1, o2}
  Absent = Absent
  NoRow = NoRow
  Deleted = Deleted
  Error = Error
  None = None
  MaxGen = 2
  MaxOps = 1
INIT MCInit
NEXT Next
CONSTRAINT OneReadOfTwoPaths
SYMMETRY Interchangeable
INVARIANTS TypeOK CacheIsCurrent ReadsAreCurrent
