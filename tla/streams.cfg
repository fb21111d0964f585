SPECIFICATION Spec
CONSTANTS
  Dsts = {d1, d2}
  Sizes = {0, 2}
  HighWater = 2
  Worlds <- Programs
INVARIANTS
  TypeOK
  NothingLost
  PipesGetAll
  EndsAreLast
  NoReadOrphaned
PROPERTIES
  EndComes
CHECK_DEADLOCK FALSE
