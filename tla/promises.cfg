SPECIFICATION FairSpec
CONSTANTS
  Programs <- Both
  MaxPromises = 3
  MaxReactions = 3
  MaxPairs = 2
  MaxDepth = 2
  MaxTurns = 2
INVARIANTS
  TypeOK
  NothingLost
  UnhandledIsExact
  ResolvedWithAgrees
  DecidedOnceAsPromised
  NothingOrphaned
  GroupsAnswer
PROPERTIES
  KeepsContract
  EveryReactionRuns
CHECK_DEADLOCK FALSE
