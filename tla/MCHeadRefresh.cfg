SPECIFICATION MCSpec
CONSTANTS
  Branches = {main, dev}
  Commits = {c1, c2}
  main = main
  first = c1
  HEAD = HEAD
  None = None
  Readers = {r}
  MaxEvents = 3
INVARIANTS
  TypeOK
  StoredDescribesTree
  TreesAreKept
  NothingUnnoticed
PROPERTIES
  SettlesOnHEAD
