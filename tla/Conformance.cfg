CONSTANTS
  r1 = r1
  r2 = r2
  conf = conf
  ci = ci
  Repos = {r1, r2}
  Files = {conf, ci}
  Workflows = {ci}
  Registries <- MCRegistries
  MaxPushes = 1
SPECIFICATION Spec
INVARIANTS
  GreenMeansHeld
  RedMeansBroken
  OneAnswer
CHECK_DEADLOCK FALSE
