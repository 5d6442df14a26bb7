CONSTANTS
  t1 = t1
  t2 = t2
  root = root
  leaf = leaf
  other = other
  s1 = s1
  s2 = s2
  s3 = s3
  Threads = {t1, t2}
  Spans = {root, leaf}
  Target <- MCTarget
  Level <- MCLevel
  TargetPrefixes <- Both
  Setting = 1
  Slots = {s1, s2}
  MaxCalls = 0
  MaxFlushes = 1
  FirstHooks <- LayerOnly
  None = None
SPECIFICATION SafeSpec
INVARIANT ExitClosesOpenSpans
CHECK_DEADLOCK FALSE
