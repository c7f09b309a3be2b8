SPECIFICATION Spec
CONSTANTS
  Clients = {c1, c2}
  Paths = {p1, p2}
  Oids = {o1, o2}
  Trees <- AllTrees
  Absent = Absent
  NoRow = NoRow
  NoFile = NoFile
  NoPath = NoPath
  MaxClock = 4
  MaxRefreshes = 2
SYMMETRY Interchangeable
CONSTRAINT PairOrLong
CHECK_DEADLOCK FALSE
INVARIANTS
  TypeOK
  RowsHaveFiles
  KeepsWork
  NothingStale
