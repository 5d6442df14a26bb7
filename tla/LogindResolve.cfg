CONSTANTS
  a = a
  b = b
  c = c
  Sessions = {a, b, c}
  Mine = {a, b}
  UserClass = {a, b, c}
  CallerSession = a
  EnvSession = c
  Manager = Manager
  None = None
SPECIFICATION Spec
INVARIANTS
  NeverForeign
  CallerWins
  NoFalseAbsence
  DesktopWins
CHECK_DEADLOCK FALSE
