\* A diamond, a join and a cycle, two slots, a cancellation at any moment and a
\* store that may lose every write.  One name, two schedule objects and two starts
\* of their manager.  An execution that is done stops.
SPECIFICATION WorkflowsSpec
CONSTANTS
  Steps <- MCSteps
  Plans <- MCPlans
  Handled <- MCHandled
  MaxParallel = 2
  None = None
  Names = {n1}
  MaxObjects = 2
  MaxGenerations = 2
INVARIANTS StepsInOrder CompletedMeansAll
PROPERTIES ExecutionEnds LoopsEnd
CHECK_DEADLOCK FALSE
