\* All graphs on three nodes and two more; two slots; steps with a condition, a
\* retry, a tolerated failure and no attempt at all.  Two events, a function and a
\* webhook, two workers, a queue of one and two attempts; two hooks, of
\* which one wants both of two notices, two posters, a queue of one, two attempts.
SPECIFICATION ServicesSpec
CONSTANTS
  s1 = s1
  s2 = s2
  s3 = s3
  s4 = s4
  None = None
  Ids = {s1, s2, s3, s4}
  Graphs <- MCGraphs
  Attempts <- MCAttempts
  Conditional = {s1, s2, s3}
  Tolerant = {s1, s2}
  MaxParallel = 2
  e1 = e1
  e2 = e2
  f1 = f1
  h1 = h1
  Events = {e1, e2}
  Subscribers = {f1, h1}
  Webhooks = {h1}
  Wants <- MCWants
  Workers = {b1, b2}
  Publishers = {p1}
  QueueSize = 1
  RetryAttempts = 2
  MaxSubscribed = 2
  NoEvent = NoEvent
  Hooks = {f1, h1}
  Notices = {e1, e2}
  Matching <- MCWants
  Posters = {w1, w2}
  DeliveryQueue = 1
  MaxRetries = 2
  NoDelivery = NoDelivery
INVARIANTS DependenciesMet SuccessIsComplete
PROPERTIES ExecutionSettles Delivered DeliveryEnds
CHECK_DEADLOCK FALSE
