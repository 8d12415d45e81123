\* Two previews of one pull request, two deployments at once, a lifetime of one
\* tick that may be extended to two; two ticks.  Two operators with two commands
\* on three resources.
SPECIFICATION DeploymentsSpec
CONSTANTS
  Ids = {i1, i2}
  None = None
  PRs = {p1}
  Jobs = {j1, j2}
  TTL = 1
  MaxTTL = 2
  Extensions <- MCExtensions
  MaxNow = 2
  MaxFaults = 1
  MaxCalls = 2
  a = a
  b = b
  c = c
  Resources = {a, b, c}
  Batches <- MCBatches
  References <- MCReferences
  Operators = {o1, o2}
  MaxCommands = 2
INVARIANTS OnePerPR Watched StateIsTrue
SYMMETRY Symmetry
CHECK_DEADLOCK FALSE
