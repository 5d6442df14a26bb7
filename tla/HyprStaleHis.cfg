CONSTANTS
  a = a
  b = b
  p = p
  q = q
  r = r
  Instances = {a, b}
  Pids = {p, q, r}
  Environments <- MCEnvironments
  Absolute = {"/home", "/config", "/data", "/run"}
  His = a
  PidsRecycle = FALSE
  None = None
SPECIFICATION Spec
PROPERTY
  DeadEndpointAbandoned
