SPECIFICATION FairSpec
CONSTANTS
  Programs <- Executors
  MaxPromises = 3
  MaxReactions = 3
  MaxPairs = 2
  MaxDepth = 2
  MaxTurns = 1
INVARIANTS
  DecidedOnce
CHECK_DEADLOCK FALSE
