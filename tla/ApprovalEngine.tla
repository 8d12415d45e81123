---------------------------- MODULE ApprovalEngine ----------------------------
(***************************************************************************)
(* The approval workflow engine of internal/workflow/engine.go.  Every     *)
(* execution has a goroutine (runExecution) that checks the change window, *)
(* the conditions and the approvals; users approve and reject while it     *)
(* polls.  The goroutine writes the status without the lock that Approve   *)
(* and Reject hold, and decides on what it read before it released it.     *)
(***************************************************************************)
EXTENDS Naturals, Sequences, FiniteSets

CONSTANTS
  WorkflowNames, \* keys of e.workflows
  Definitions,   \* workflow definitions that may be registered
  Execs,         \* execution ids
  Users,
  Roles,
  None           \* no definition is registered under a name

\* A condition is required or not, and has a registered checker or not.
Conditions == [required : BOOLEAN, checker : BOOLEAN]

ASSUME DefinitionsAssumption ==
  \A d \in Definitions :
    /\ d.window \in BOOLEAN /\ d.conditions \in Seq(Conditions)
    /\ d.required \in Nat /\ d.roles \subseteq Roles

ASSUME NoneAssumption == None \notin Definitions

Statuses == {"none", "pending", "blocked", "conditions", "failed", "awaiting",
             "approved", "rejected", "timed_out", "executing", "completed"}

\* Where runExecution is.
Places == {"none", "window", "conditions", "waiting", "decide", "expired",
           "stamp", "execute", "complete", "returned"}

VARIABLES
  workflows, \* e.workflows
  status,    \* exec.Status
  approvals, \* exec.Approvals
  wf,        \* the definition runExecution got, whatever is registered later
  pc,        \* where runExecution is
  checked,   \* number of conditions checked
  missed,    \* executions that failed a required condition
  seen       \* what the last tick of waitForApprovals read

vars == <<workflows, status, approvals, wf, pc, checked, missed, seen>>

Terminal == {"blocked", "failed", "rejected", "timed_out", "completed"}

Records(x, decision) == {i \in DOMAIN approvals[x] :
                           approvals[x][i].decision = decision}

-----------------------------------------------------------------------------
Init ==
  /\ workflows = [n \in WorkflowNames |-> None]
  /\ status = [x \in Execs |-> "none"]
  /\ approvals = [x \in Execs |-> <<>>]
  /\ wf = [x \in Execs |-> None]
  /\ pc = [x \in Execs |-> "none"]
  /\ checked = [x \in Execs |-> 0]
  /\ missed = {}
  /\ seen = [x \in Execs |-> "few"]

\* The last registration of a name wins; running executions keep the
\* definition they started with.
RegisterWorkflow(n, d) ==
  /\ workflows' = [workflows EXCEPT ![n] = d]
  /\ UNCHANGED <<status, approvals, wf, pc, checked, missed, seen>>

\* StartExecution, when the workflow exists and its trigger matches.
StartExecution(x, n) ==
  /\ status[x] = "none" /\ workflows[n] # None
  /\ status' = [status EXCEPT ![x] = "pending"]
  /\ wf' = [wf EXCEPT ![x] = workflows[n]]
  /\ pc' = [pc EXCEPT ![x] = "window"]
  /\ UNCHANGED <<workflows, approvals, checked, missed, seen>>

\* runExecution moves from one place to another and may write the status.
Move(x, place, st) ==
  /\ pc' = [pc EXCEPT ![x] = place]
  /\ status' = [status EXCEPT ![x] = st]

\* Steps of runExecution.  The clock decides whether it is outside the window.
CheckWindow(x) ==
  /\ pc[x] = "window"
  /\ \/ wf[x].window /\ Move(x, "returned", "blocked")
     \/ Move(x, "conditions", "conditions")
  /\ UNCHANGED <<workflows, approvals, wf, checked, missed, seen>>

\* checkCondition: skipped without a checker, else the checker's verdict.
CheckCondition(x, failed) ==
  /\ pc[x] = "conditions" /\ checked[x] < Len(wf[x].conditions)
  /\ failed => wf[x].conditions[checked[x] + 1].checker
  /\ checked' = [checked EXCEPT ![x] = @ + 1]
  /\ missed' = IF failed /\ wf[x].conditions[checked[x] + 1].required
               THEN missed \cup {x} ELSE missed
  /\ UNCHANGED <<workflows, status, approvals, wf, pc, seen>>

MayProceed(x) == x \notin missed

ConditionsDone(x) ==
  /\ pc[x] = "conditions" /\ checked[x] = Len(wf[x].conditions)
  /\ \/ ~MayProceed(x) /\ Move(x, "returned", "failed")
     \/ MayProceed(x) /\ wf[x].required > 0 /\ Move(x, "waiting", "awaiting")
     \/ MayProceed(x) /\ wf[x].required = 0 /\ Move(x, "execute", status[x])
  /\ UNCHANGED <<workflows, approvals, wf, checked, missed, seen>>

\* What one tick of waitForApprovals reads under the read lock.
Scan(x) ==
  IF Records(x, "rejected") # {} THEN "rejected"
  ELSE IF Cardinality(Records(x, "approved")) >= wf[x].required
  THEN "enough" ELSE "few"

Tick(x) ==
  /\ pc[x] = "waiting" /\ Scan(x) # "few"
  /\ seen' = [seen EXCEPT ![x] = Scan(x)]
  /\ Move(x, "decide", status[x])
  /\ UNCHANGED <<workflows, approvals, wf, checked, missed>>

\* The same tick, after the lock is released.
Decide(x) ==
  /\ pc[x] = "decide"
  /\ \/ seen[x] = "rejected" /\ Move(x, "returned", "rejected")
     \/ seen[x] = "enough" /\ Move(x, "execute", "approved")
  /\ UNCHANGED <<workflows, approvals, wf, checked, missed, seen>>

\* Mutant: no timer in the select.
MayExpireNever(x) == FALSE

\* The approval timeout, or the context of the caller.
MayExpire(x) == pc[x] = "waiting"

WaitExpires(x) ==
  /\ MayExpire(x)
  /\ Move(x, "expired", status[x])
  /\ UNCHANGED <<workflows, approvals, wf, checked, missed, seen>>

\* runExecution reads the status and, unless it is rejected, overwrites it.
CheckRejected(x) ==
  /\ pc[x] = "expired"
  /\ Move(x, IF status[x] = "rejected" THEN "returned" ELSE "stamp", status[x])
  /\ UNCHANGED <<workflows, approvals, wf, checked, missed, seen>>

StampTimedOut(x) ==
  /\ pc[x] = "stamp"
  /\ Move(x, "returned", "timed_out")
  /\ UNCHANGED <<workflows, approvals, wf, checked, missed, seen>>

Execute(x) ==
  /\ pc[x] = "execute"
  /\ Move(x, "complete", "executing")
  /\ UNCHANGED <<workflows, approvals, wf, checked, missed, seen>>

Complete(x) ==
  /\ pc[x] = "complete"
  /\ Move(x, "returned", "completed")
  /\ UNCHANGED <<workflows, approvals, wf, checked, missed, seen>>

\* Mutant: Approve accepts a second response of the same user.
RespondedNever(x, user) == FALSE

\* The user is in the list, whatever the decision was.
Responded(x, user) == \E i \in DOMAIN approvals[x] : approvals[x][i].user = user

Awaiting(x) == status[x] = "awaiting"

\* Approve and Reject hold the write lock; neither looks at the roles, the
\* users or allowSelf of the definition, and only Approve looks for a previous
\* response.
Approve(x, user, role) ==
  /\ Awaiting(x) /\ ~Responded(x, user)
  /\ approvals' = [approvals EXCEPT ![x] =
       Append(@, [user |-> user, role |-> role, decision |-> "approved"])]
  /\ UNCHANGED <<workflows, status, wf, pc, checked, missed, seen>>

Reject(x, user, role) ==
  /\ Awaiting(x)
  /\ approvals' = [approvals EXCEPT ![x] =
       Append(@, [user |-> user, role |-> role, decision |-> "rejected"])]
  /\ status' = [status EXCEPT ![x] = "rejected"]
  /\ UNCHANGED <<workflows, wf, pc, checked, missed, seen>>

\* A turn of runExecution, the end of its wait apart.
RunStep(x) ==
  \/ CheckWindow(x) \/ \E f \in BOOLEAN : CheckCondition(x, f)
  \/ ConditionsDone(x) \/ Tick(x) \/ Decide(x)
  \/ CheckRejected(x) \/ StampTimedOut(x) \/ Execute(x) \/ Complete(x)

Next ==
  \/ \E n \in WorkflowNames, d \in Definitions : RegisterWorkflow(n, d)
  \/ \E x \in Execs :
       \/ \E n \in WorkflowNames : StartExecution(x, n)
       \/ RunStep(x)
       \/ WaitExpires(x)
       \/ \E u \in Users, r \in Roles : Approve(x, u, r) \/ Reject(x, u, r)

Spec == Init /\ [][Next]_vars

\* The goroutine runs and its timer fires; nobody has to respond.
FairSpec == Spec /\ \A x \in Execs : WF_vars(RunStep(x)) /\ WF_vars(WaitExpires(x))

-----------------------------------------------------------------------------
(* Properties *)

Response == [user : Users, role : Roles, decision : {"approved", "rejected"}]

\* The statuses the goroutine's place allows; Reject changes them under it.
StatusAt ==
  [none |-> {"none"}, window |-> {"pending"}, conditions |-> {"conditions"},
   waiting |-> {"awaiting", "rejected"}, decide |-> {"awaiting", "rejected"},
   expired |-> {"awaiting", "rejected"}, stamp |-> {"awaiting", "rejected"},
   execute |-> {"conditions", "approved"}, complete |-> {"executing"},
   returned |-> Terminal]

\* The registry and every execution keep their shape, and the status an
\* execution shows is one of those its goroutine's place allows.
TypeOK ==
  /\ workflows \in [WorkflowNames -> Definitions \cup {None}]
  /\ approvals \in [Execs -> Seq(Response)]
  /\ wf \in [Execs -> Definitions \cup {None}]
  /\ checked \in [Execs -> Nat]
  /\ missed \subseteq Execs
  /\ seen \in [Execs -> {"few", "enough", "rejected"}]
  /\ pc \in [Execs -> Places] /\ status \in [Execs -> Statuses]
  /\ \A x \in Execs : /\ status[x] \in StatusAt[pc[x]]
                      /\ pc[x] # "none" => wf[x] # None

Past(x) == status[x] \in {"approved", "executing", "completed"}

\* No execution gets past the approval step without the number of approvals its
\* own definition asks for, each from a different user, whatever was registered
\* or rejected in the meantime.
EnoughApprovers ==
  \A x \in Execs : Past(x) =>
    Cardinality({approvals[x][i].user : i \in Records(x, "approved")})
      >= wf[x].required

\* An execution that a required condition failed is never put to approval, and
\* one outside its change window has not even checked them.
GatesHold ==
  \A x \in Execs :
    /\ Past(x) \/ approvals[x] # <<>> =>
         \A i \in DOMAIN wf[x].conditions : i <= checked[x] /\ x \notin missed
    /\ status[x] = "blocked" => checked[x] = 0 /\ approvals[x] = <<>>

\* When runExecution has returned, late responses are refused and the status
\* is final.
TerminalStays ==
  [][\A x \in Execs : pc[x] = "returned" =>
       status'[x] = status[x] /\ approvals'[x] = approvals[x]]_vars

\* Each started execution reaches a terminal status although nobody responds:
\* the approval timeout ends the wait.
ExecutionsEnd ==
  \A x \in Execs : (status[x] = "pending") ~> (pc[x] = "returned")

\* cli/workflow.go:297 "Workflow %s rejected", printed when Reject succeeds: an
\* execution with a recorded rejection does not complete.
RejectionHolds ==
  \A x \in Execs : status[x] = "completed" => Records(x, "rejected") = {}
=============================================================================
