SPECIFICATION Spec
CONSTANTS
  MaxCells = 6
  Worlds <- Programs
  WideCells = {2}
  BlockCells = {2, 3}
  FrameCells = {1, 2}
  MaxHeld = 2
  Watches = {w}
  Deaths = {d}
INVARIANTS TypeOK OneRolePerCell NothingReachableIsFreed BlocksBelong WatchesSeeDeath ExhaustedMeansNoRoom
PROPERTIES DeathsAreTold
CHECK_DEADLOCK FALSE
