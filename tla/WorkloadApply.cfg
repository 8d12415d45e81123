\* Two processes, two dependencies.
SPECIFICATION WorkloadSpec
CONSTANTS
  Commands = {c1, c2}
  Dependencies = {"db", "cache"}
  Nobody = Nobody
INVARIANTS AppliedIsProvisioned
CHECK_DEADLOCK FALSE
