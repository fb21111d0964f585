SPECIFICATION Spec
CONSTANTS
  Dsts = {d1}
  Sizes = {2}
  HighWater = 2
  Worlds <- Feeds
PROPERTIES
  PipedArrives
CHECK_DEADLOCK FALSE
