SPECIFICATION Spec
CONSTANTS
  MaxTimers = 2
  MaxDelay = 2
  Worlds <- Uncaught
  Fns = {f}
  Workers = {w1, w2}
  MaxItems = 1
  NoFn = NoFn
PROPERTIES UncaughtEnds
CHECK_DEADLOCK FALSE
