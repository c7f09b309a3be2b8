SPECIFICATION MCSpec
CONSTANTS
  d = d
  e = e
  de = de
  c1 = c1
  o1 = o1
  Root = Root
  Names = {d, e}
  Paths = {d, e, de}
  Child <- TreeOf
  Handles = {1}
  MaxInode = 4
  MaxLookups = 2
  Ops = {o1, o2}
  Channels = {c1, c2, c3, c4}
  Errors = {timeout}
  NoError = NoError
CONSTRAINT GateOrTable
INVARIANTS
  MountTypeOK
  GateSound
  KernelIsKnown
PROPERTIES
  KeepsPromise
  SettledReturns
