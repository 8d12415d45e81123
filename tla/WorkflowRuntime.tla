---------------------------- MODULE WorkflowRuntime ----------------------------
(***************************************************************************)
(* One execution of a DAG workflow by internal/workflow/runtime.go.  Its   *)
(* goroutine runs the levels of the plan, one goroutine per step behind a  *)
(* semaphore, while CancelExecution reads and writes the same status; both *)
(* save the execution by marshalling it and then putting it, and a failed  *)
(* put is ignored by the goroutine.  Executions share nothing but the key  *)
(* space of the store.                                                     *)
(***************************************************************************)
EXTENDS Naturals, FiniteSets

CONSTANTS
  Steps,      \* step ids
  Plans,      \* validated workflows: functions from their steps to dependsOn
  Handled,    \* steps of a type with a registered handler
  MaxParallel,
  None

ASSUME PlansAssumption ==
  \A p \in Plans : /\ DOMAIN p \subseteq Steps
                   /\ \A s \in DOMAIN p : p[s] \subseteq DOMAIN p
ASSUME NoneAssumption == None \notin Plans
ASSUME StepsAssumption == IsFiniteSet(Steps) /\ MaxParallel \in Nat \ {0}

Statuses == {"pending", "executing", "completed", "failed"}

VARIABLES
  plan,       \* the workflow that RunWorkflow read, None before
  pc,         \* where executeWorkflow is
  status,     \* exec.Status
  levelled,   \* steps of the levels that are over
  level,      \* steps of the level being executed
  at,         \* where the goroutine of a step is
  stepStatus, \* exec.Steps[s].Status
  saved,      \* the status in the store
  image,      \* the status in executeWorkflow's marshalled copy
  cancel,     \* where the call of CancelExecution is
  cancelImage \* the status in its marshalled copy

stepVars == <<levelled, level, at, stepStatus>>
cancelVars == <<cancel, cancelImage>>
vars == <<plan, pc, status, stepVars, saved, image, cancelVars>>

\* Kahn's algorithm stops with steps left that all wait for one another.
HasCycle(p) ==
  \E T \in (SUBSET DOMAIN p) \ {{}} : \A s \in T : p[s] \cap T # {}

Rejected(p) == HasCycle(p)

-----------------------------------------------------------------------------
Init ==
  /\ plan = None /\ pc = "none" /\ status = "pending"
  /\ levelled = {} /\ level = {}
  /\ at = [s \in Steps |-> "none"] /\ stepStatus = [s \in Steps |-> "pending"]
  /\ saved = "pending" /\ image = "pending"
  /\ cancel = "none" /\ cancelImage = "pending"

\* The execution is saved as pending and tracked.  If the save fails there is
\* no execution.
RunWorkflow(p) ==
  /\ pc = "none"
  /\ plan' = p /\ pc' = "start"
  /\ UNCHANGED <<status, stepVars, saved, image, cancelVars>>

\* Whatever the status became since.
MarkExecuting ==
  /\ pc = "start"
  /\ status' = "executing" /\ pc' = "marshal"
  /\ UNCHANGED <<plan, stepVars, saved, image, cancelVars>>

\* SaveExecution in two steps: the copy, then the transaction.
Marshal ==
  /\ \/ pc = "marshal" /\ pc' = "put"
     \/ pc = "last marshal" /\ pc' = "last put"
  /\ image' = status
  /\ UNCHANGED <<plan, status, stepVars, saved, cancelVars>>

Put ==
  /\ \/ pc = "put" /\ pc' = "plan"
     \/ pc = "last put" /\ pc' = "done"
  /\ saved' \in {image, saved}
  /\ UNCHANGED <<plan, status, stepVars, image, cancelVars>>

BuildLevels ==
  /\ pc = "plan"
  /\ \/ Rejected(plan) /\ status' = "failed" /\ pc' = "last marshal"
     \/ ~Rejected(plan) /\ pc' = "levels" /\ UNCHANGED status
  /\ UNCHANGED <<plan, stepVars, saved, image, cancelVars>>

Ready == {s \in DOMAIN plan \ levelled : plan[s] \subseteq levelled}

BeginLevel ==
  /\ pc = "levels" /\ Ready # {}
  /\ level' = Ready /\ pc' = "level"
  /\ at' = [s \in Steps |-> IF s \in Ready THEN "slot" ELSE at[s]]
  /\ UNCHANGED <<plan, status, levelled, stepStatus, saved, image, cancelVars>>

Holders == {s \in Steps : at[s] = "running"}

\* Mutant: a step that failed keeps its slot.
FreeSlotLeak == Cardinality(Holders \cup {s \in level : stepStatus[s] = "failed"}) < MaxParallel

FreeSlot == Cardinality(Holders) < MaxParallel

UnhandledStatus == "failed"

\* executeStep up to the handler's call; without a handler it returns at once.
StartStep(s) ==
  /\ at[s] = "slot" /\ FreeSlot
  /\ \/ /\ s \in Handled
        /\ at' = [at EXCEPT ![s] = "running"]
        /\ stepStatus' = [stepStatus EXCEPT ![s] = "running"]
     \/ /\ s \notin Handled
        /\ at' = [at EXCEPT ![s] = "returned"]
        /\ stepStatus' = [stepStatus EXCEPT ![s] = UnhandledStatus]
  /\ UNCHANGED <<plan, pc, status, levelled, level, saved, image, cancelVars>>

\* The handler returns, at the latest when the step's timeout is over, with a result or
\* with none, which leaves the step at "running".
FinishStep(s, result) ==
  /\ at[s] = "running"
  /\ at' = [at EXCEPT ![s] = "returned"]
  /\ stepStatus' = [stepStatus EXCEPT ![s] = result]
  /\ UNCHANGED <<plan, pc, status, levelled, level, saved, image, cancelVars>>

\* Mutant: the level waits for its first step only.
LevelOverFirst == \E s \in level : at[s] = "returned"

LevelOver == \A s \in level : at[s] = "returned"

\* A goroutine's error: it returned and its step did not complete.
LevelFailed == \E s \in level : at[s] = "returned" /\ stepStatus[s] # "completed"

LevelSucceeds ==
  /\ pc = "level" /\ LevelOver /\ ~LevelFailed
  /\ levelled' = levelled \cup level /\ level' = {}
  /\ pc' = "levels"
  /\ UNCHANGED <<plan, status, at, stepStatus, saved, image, cancelVars>>

LevelFails ==
  /\ pc = "level" /\ LevelOver /\ LevelFailed
  /\ status' = "failed" /\ pc' = "check"
  /\ UNCHANGED <<plan, stepVars, saved, image, cancelVars>>

LevelsDone ==
  /\ pc = "levels" /\ Ready = {}
  /\ pc' = "check"
  /\ UNCHANGED <<plan, status, stepVars, saved, image, cancelVars>>

\* Mutant: the status is not looked at before it is set to completed.
StillExecutingAlways == TRUE

StillExecuting == status = "executing"

\* A cancel may come between the check and the write.
CheckExecuting ==
  /\ pc = "check"
  /\ \/ StillExecuting /\ pc' = "complete"
     \/ ~StillExecuting /\ pc' = "last marshal"
  /\ UNCHANGED <<plan, status, stepVars, saved, image, cancelVars>>

MarkCompleted ==
  /\ pc = "complete"
  /\ status' = "completed" /\ pc' = "last marshal"
  /\ UNCHANGED <<plan, stepVars, saved, image, cancelVars>>

\* CancelExecution checks the status and writes it without a lock; no context
\* is cancelled.  Bound: one call gets past the check.
CancelCheck ==
  /\ pc # "none" /\ cancel = "none" /\ status \in {"pending", "executing"}
  /\ cancel' = "checked"
  /\ UNCHANGED <<plan, pc, status, stepVars, saved, image, cancelImage>>

CancelWrite ==
  /\ cancel = "checked"
  /\ status' = "failed" /\ cancel' = "written"
  /\ UNCHANGED <<plan, pc, stepVars, saved, image, cancelImage>>

CancelMarshal ==
  /\ cancel = "written"
  /\ cancelImage' = status /\ cancel' = "marshalled"
  /\ UNCHANGED <<plan, pc, status, stepVars, saved, image>>

\* The caller sees a failed put.
CancelPut ==
  /\ cancel = "marshalled"
  /\ \/ cancel' = "returned" /\ saved' = cancelImage
     \/ cancel' = "error" /\ UNCHANGED saved
  /\ UNCHANGED <<plan, pc, status, stepVars, image, cancelImage>>

ExecuteStep ==
  \/ MarkExecuting \/ Marshal \/ Put \/ BuildLevels \/ BeginLevel
  \/ LevelSucceeds \/ LevelFails \/ LevelsDone \/ CheckExecuting \/ MarkCompleted

StepTurn(s) ==
  StartStep(s) \/ \E result \in {"completed", "failed", "running"} : FinishStep(s, result)

Cancelling == CancelCheck \/ CancelWrite \/ CancelMarshal \/ CancelPut

Next ==
  \/ \E p \in Plans : RunWorkflow(p)
  \/ ExecuteStep \/ Cancelling
  \/ \E s \in Steps : StepTurn(s)

Spec == Init /\ [][Next]_vars

\* The goroutines run and handlers return within their timeout; nobody needs
\* to cancel.
FairSpec ==
  Spec /\ WF_vars(ExecuteStep) /\ \A s \in Steps : WF_vars(StepTurn(s))

-----------------------------------------------------------------------------
(* Properties *)

PlanSteps == IF plan = None THEN {} ELSE DOMAIN plan

\* Data keeps its shape, and a step shows the status its goroutine's place
\* allows.
TypeOK ==
  /\ plan \in Plans \cup {None}
  /\ pc \in {"none", "start", "marshal", "put", "plan", "levels", "level",
             "check", "complete", "last marshal", "last put", "done"}
  /\ pc = "none" <=> plan = None
  /\ {status, saved, image, cancelImage} \subseteq Statuses
  /\ levelled \subseteq Steps /\ level \subseteq Steps
  /\ at \in [Steps -> {"none", "slot", "running", "returned"}]
  /\ stepStatus \in [Steps -> {"pending", "running", "completed", "failed"}]
  /\ \A s \in Steps :
       /\ at[s] \in {"none", "slot"} <=> stepStatus[s] = "pending"
       /\ at[s] = "running" => stepStatus[s] = "running"
  /\ cancel \in {"none", "checked", "written", "marshalled", "returned", "error"}

\* A step runs only when every step it depends on completed, so the outputs its
\* configuration refers to are there.
StepsInOrder ==
  \A s \in Steps : at[s] \in {"running", "returned"} =>
    \A d \in plan[s] : stepStatus[d] = "completed"

\* No level is begun once a step returned without having completed.
FailureStops ==
  [][pc = "levels" /\ pc' = "level" =>
       \A s \in Steps : at[s] = "returned" => stepStatus[s] = "completed"]_vars

\* Nobody who reads the execution, in memory, in a copy under way or in the
\* store, before or after a crash, is told that it completed before every step
\* completed; cancellations and lost writes do not change that.
CompletedMeansAll ==
  "completed" \in {status, saved, image, cancelImage} =>
    \A s \in PlanSteps : stepStatus[s] = "completed"

\* No step of a workflow with a cycle runs, not even those outside the cycle.
CyclesRunNothing ==
  plan # None /\ HasCycle(plan) => \A s \in Steps : at[s] = "none"

\* An execution reaches a final status, whether it is cancelled or not.
ExecutionEnds == (pc = "start") ~> (pc = "done" /\ status \in {"completed", "failed"})
=============================================================================
