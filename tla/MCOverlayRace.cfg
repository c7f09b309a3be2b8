SPECIFICATION Spec
CONSTANTS
  Clients = {c1}
  Paths = {p1, p2}
  Oids = {o1, o2}
  Trees <- AllTrees
  Absent = Absent
  NoRow = NoRow
  NoFile = NoFile
  NoPath = NoPath
  MaxClock = 3
  MaxRefreshes = 1
SYMMETRY Interchangeable
CHECK_DEADLOCK FALSE
INVARIANTS
  ConcurrentWriteKept
