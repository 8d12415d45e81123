\* Dependencies by uuid, a cycle, two calls of Apply on one coordinator.
SPECIFICATION Spec
CONSTANTS
  Engines <- ChainEngines
  Names <- ChainNames
  NameOf <- ChainNameOf
  CategoryOf <- ChainCategoryOf
  DependsOn <- ChainDependsOn
  Waits <- ChainWaits
  Staged <- ChainWaits
  Planning <- ChainWaits
  MaxParallel = 2
  RetryCount = 0
  RollbackOnFailure = TRUE
  LongTimeout = FALSE
  MaxApplies = 2
  MaxStops = 0
INVARIANTS LevelsInOrder
