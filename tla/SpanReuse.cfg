CONSTANTS
  t1 = t1
  t2 = t2
  root = root
  leaf = leaf
  other = other
  s1 = s1
  s2 = s2
  s3 = s3
  Threads = {t1, t2}
  Spans = {root, leaf, other}
  Target <- MCTarget
  Level <- MCLevel
  TargetPrefixes <- Vigil
  Setting = 1
  Slots = {s1, s2}
  MaxCalls = 1
  MaxFlushes = 1
  FirstHooks <- LayerOnly
  None = None
SPECIFICATION SafeSpec
SYMMETRY ReuseSymmetry
INVARIANTS
  OpenIsCurrent
  ParentTruthful
  NearestUntilFlush
  FieldsKept
PROPERTY
  ImplementsLedger
CHECK_DEADLOCK FALSE
