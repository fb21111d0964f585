SPECIFICATION Spec
CONSTANTS
  MaxCells = 6
  Worlds <- Promises
  WideCells = {2}
  BlockCells = {2, 3}
  FrameCells = {1, 2}
  MaxHeld = 2
  Watches = {w}
  Deaths = {d}
INVARIANT PromisesArePromises
CHECK_DEADLOCK FALSE
