SPECIFICATION Spec
CONSTANTS
  MaxTimers = 2
  MaxDelay = 2
  Worlds <- Programs
  Fns = {f}
  Workers = {w1, w2}
  MaxItems = 1
  NoFn = NoFn
INVARIANTS
  TypeOK
  OncePerArming
  NothingAbandoned
  NoItemLost
  WorkIsTold
PROPERTIES
  CheckpointBetweenTimers
  Ends
CHECK_DEADLOCK FALSE
