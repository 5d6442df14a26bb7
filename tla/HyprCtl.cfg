CONSTANTS
  c1 = c1
  c2 = c2
  Callers = {c1, c2}
  MaxCalls = 3
  MaxCrashes = 1
  None = None
SPECIFICATION Spec
SYMMETRY CallerSymmetry
INVARIANTS
  OkIsObeyed
  CommandsInOrder
CHECK_DEADLOCK FALSE
