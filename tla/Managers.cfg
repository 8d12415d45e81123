\* Three consumers of two quotas; strategies of each kind and three executions by
\* two callers; two requests and two approvers; two workflows with two
\* definitions; two policies, a loop and a caller, a cooldown of two ticks.
\* Two clients, a lock for one and a half seconds and a clock of four; two
\* writers, two rows and three versions.
\* Two processes and two entries in a file, with three writes and two keys made; two
\* commands that keep one backup, within three seconds.
SPECIFICATION ManagersSpec
CONSTANTS
  q1 = q1
  q2 = q2
  k1 = k1
  k2 = k2
  k3 = k3
  Quotas = {q1, q2}
  Limit <- MCLimit
  Consumers = {k1, k2, k3}
  Covers <- MCCovers
  MaxAmount = 2
  Strategies <- MCStrategies
  Runners = {u1, u2}
  MaxRuns = 3
  Requests = {r1, r2}
  Approvers = {a1, a2}
  None = None
  Nothing = Nothing
  Workflows = {f1, f2}
  Definitions = {d1, d2}
  Callers = {c1, c2}
  NoWorkflow = NoWorkflow
  Loops = {l1}
  Outsiders = {o1}
  MaxPolicies = 2
  MinReplicas = 1
  MaxReplicas = 2
  Affordable = 1
  Cooldown = 2
  Clients = {c1, c2}
  Second = 2
  TTL = 3
  MaxNow = 8
  Writers = {w1, w2}
  MaxIds = 2
  MaxVersion = 3
  Processes = {p1, p2}
  Entries = {e1, e2}
  MaxSaves = 3
  MaxKeys = 2
  Commands = {b1, b2}
  MaxBackups = 1
  MaxSecond = 3
INVARIANTS Overshoot OutcomeMatchesTraffic ProvisionedPerCaller LookupFindsStored ScalingsBounded LeaseKept CurrentRecorded ChangesKept NewestKept
CHECK_DEADLOCK FALSE
