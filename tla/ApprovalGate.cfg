\* One execution, three users, the workflow registered anew at any time.
SPECIFICATION FairSpec
CONSTANTS
  WorkflowNames = {w}
  None = None
  Definitions <- MCDefinitions
  Execs = {x}
  Users = {alice, bob, carol}
  Roles = {"lead", "dev"}
INVARIANTS EnoughApprovers
PROPERTIES ExecutionsEnd
