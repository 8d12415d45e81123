\* A rejection recorded between the count and the decision is lost.
SPECIFICATION Spec
CONSTANTS
  WorkflowNames = {w}
  None = None
  Definitions <- MCOneDefinition
  Execs = {x}
  Users = {alice, bob}
  Roles = {"lead"}
INVARIANTS RejectionHolds
