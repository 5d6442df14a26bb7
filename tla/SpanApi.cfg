CONSTANTS
  t1 = t1
  t2 = t2
  k1 = k1
  Threads = {t1, t2}
  Spans = {1, 2, 3}
  Sinks = {k1}
  Environments <- MCEnvironments
  Adoptions <- MCAdoptions
  Chars <- MCChars
  Texts <- MCTexts
  MaxRecord = 16
  MaxCalls = 1
  MaxIds = 5
  MintTrace <- MCMint
  MintSpan <- MCMint
  TraceWidth = 2
  SpanWidth = 2
  Absent = Absent
SPECIFICATION Spec
SYMMETRY ThreadSymmetry
INVARIANTS
  SpansWrittenOnce
  NoDanglingParent
  OneDestination
  OneTrace
  ContextHandedOn
PROPERTY
  RecordsReadBack
CHECK_DEADLOCK FALSE
