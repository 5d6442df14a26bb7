CONSTANTS
  p1 = p1
  p2 = p2
  p3 = p3
  f1 = f1
  f2 = f2
  f3 = f3
  f4 = f4
  i1 = i1
  i2 = i2
  Processes = {p1, p2}
  Files = {f1, f2, f3}
  Inodes = {i1, i2}
  None = None
SPECIFICATION Spec
INVARIANTS
  MutualExclusion
  LocksAccountedFor
PROPERTIES
  ImplementsOwnership
  RefusalIsJustified
  LockNeverWedged
