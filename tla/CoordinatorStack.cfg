\* The platform stack: engines that wait for each other by name.
SPECIFICATION FairSpec
CONSTANTS
  Engines <- StackEngines
  Names <- StackNames
  NameOf <- StackNameOf
  CategoryOf <- StackNameOf
  DependsOn <- StackDependsOn
  Waits <- StackWaits
  Staged <- StackEngines
  Planning <- StackEngines
  MaxParallel = 2
  RetryCount = 2
  RollbackOnFailure = TRUE
  LongTimeout = TRUE
  MaxApplies = 1
  MaxStops = 1
INVARIANTS WaitersInOrder Accounted
PROPERTIES ApplyReturns
