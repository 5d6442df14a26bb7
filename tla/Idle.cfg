CONSTANTS
  w1 = w1
  w2 = w2
  Workers = {w1, w2}
  UI = ui
  Outputs <- MCOutputs
  FrameInterval = 2
  Delays <- MCDelays
  NoTimer = NoTimer
  MaxRequests = 1
SPECIFICATION Spec
INVARIANTS
  EdgeConservation
  NoLostRedraw
  WorkBoundedByIntent
  WaitFitsScene
PROPERTIES
  ImplementsIntent
  StaticSceneSleeps
CHECK_DEADLOCK FALSE
