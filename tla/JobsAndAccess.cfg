\* Three jobs and two workers with cancellations and a Stop; a stopped queue may
\* stop.  A request for one tick that matches a policy with one extension and a
\* request for no time without a policy, extended once; three ticks.
SPECIFICATION JobsAndAccessSpec
CONSTANTS
  Jobs = {j1, j2, j3}
  Workers = {w1, w2}
  Capacity = 1
  NoJob = NoJob
  MayStop = TRUE
  r1 = r1
  r2 = r2
  Requests <- MCRequests
  Duration <- MCDuration
  Limited <- MCLimited
  MaxExtensions = 1
  Extensions <- MCExtensions
  MaxNow = 3
  MaxCalls = 1
INVARIANTS Watched
PROPERTIES ImplementsPool JobsEnd EndedStays NotCutShort ExpiryHappens
CHECK_DEADLOCK FALSE
