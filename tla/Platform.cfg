\* Two events fill the audit log's buffer; one caller deploys three sets of two
\* resources; two requests, two callers and two quotas; two environments, one pull
\* request, a longest time to live of one tick and a clock of three; three environments,
\* one of up to two bases and two of up to one, and one resolution; two services, two
\* callers, three instances, of which each may refuse one stop; four services of three
\* priorities.
SPECIFICATION PlatformSpec
CONSTANTS
  MaxEvents = 2
  MaxFile = 4
  BufferSize = 2
  Torn = Torn
  x = x
  y = y
  Resources = {x, y}
  Plans <- MCPlans
  Deployers = {d1}
  MaxSets = 3
  NoSet = NoSet
  Requests = {r1, r2}
  Callers = {c1, c2}
  Asks <- MCAsks
  Grants <- MCGrants
  Threshold = 2
  NoRequest = NoRequest
  NoQuota = NoQuota
  Pulls = {p1}
  NoPull = NoPull
  Handlers = {h1}
  NoHandler = NoHandler
  TTLs = {1}
  MaxTTL = 1
  MaxEnvs = 2
  MaxNow = 3
  e1 = e1
  e2 = e2
  Environments = {e1, e2, e3}
  Specs <- MCSpecs
  MaxResolved = 1
  Nothing = Nothing
  Services = {s1, s2}
  Resolvers = {g1, g2}
  MaxInstances = 3
  MaxStarts = 4
  MaxUnstopped = 1
  Nil = Nil
  Priorities = {0, 100, 500}
  MaxServices = 4
INVARIANTS EventsAreKept UsedIsReal DependentsFirst
PROPERTIES SucceedsWhenReady StopsWhatItStarted TheOldEnd 
CHECK_DEADLOCK FALSE
