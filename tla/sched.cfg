SPECIFICATION FairSpec
CONSTANTS
  here = here
  elsewhere = elsewhere
  Region <- Regions
  Uses <- Across
  Worlds <- Together
  MaxConts = 2
  MaxTasks = 1
  MaxAdoptions = 2
  MaxCancels = 1
INVARIANTS
  TypeOK
  NoneForgotten
  ChainsEnd
  RunsWhereOwned
  InParkingOrder
PROPERTIES
  TasksObserveSettled
  WokenRuns
CHECK_DEADLOCK FALSE
