SPECIFICATION Spec
CONSTANTS
  d = d
  f = f
  x = x
  o1 = o1
  o2 = o2
  Paths <- Few
  Oids = {o1, o2}
  Trees <- Commits
  Absent = Absent
  Dir = Dir
  NoPath = NoPath
  Tmp <- XTmp
INVARIANTS
  TypesListed
