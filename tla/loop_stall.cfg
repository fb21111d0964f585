SPECIFICATION Spec
CONSTANTS
  MaxTimers = 2
  MaxDelay = 2
  Worlds <- Stalls
  Fns = {f}
  Workers = {w1, w2}
  MaxItems = 1
  NoFn = NoFn
PROPERTIES StallIsReal
CHECK_DEADLOCK FALSE
