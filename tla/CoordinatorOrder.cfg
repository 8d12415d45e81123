\* The engines of a workload do not respect their declared dependency.
SPECIFICATION Spec
CONSTANTS
  Engines <- WorkloadEngines
  Names <- WorkloadNames
  NameOf <- WorkloadNameOf
  CategoryOf <- WorkloadNameOf
  DependsOn <- WorkloadDependsOn
  Waits <- NoEngines
  Staged <- NoEngines
  Planning <- NoEngines
  MaxParallel = 4
  RetryCount = 3
  RollbackOnFailure = TRUE
  LongTimeout = FALSE
  MaxApplies = 1
  MaxStops = 0
INVARIANTS DeclaredOrder
