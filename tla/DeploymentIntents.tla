--------------------------- MODULE DeploymentIntents ---------------------------
(***************************************************************************)
(* A deployment intent (internal/gitops/intent.go): the controller runs    *)
(* the strategy as a sequence of calls to the delivery engine and of       *)
(* checks, and a failure is handled by the rollback configuration.         *)
(* ExecuteIntent does not look at the status, so executions overlap, and   *)
(* the intent is cancelled, approved and deleted meanwhile.                *)
(***************************************************************************)
EXTENDS Naturals, Sequences

CONSTANTS
  Strategies,  \* records: kind, steps, onFailure, automatic
  Runners,     \* callers of ExecuteIntent and ApproveIntent
  MaxRuns      \* bound on their calls

TrafficSteps == [weight : 0..100, header : BOOLEAN, gate : BOOLEAN]
Kinds == {"canary", "blue-green", "rolling", "recreate"}

ASSUME StrategiesAssumption ==
  /\ MaxRuns \in Nat
  /\ \A s \in Strategies :
       /\ s.kind \in Kinds /\ s.onFailure \in {"rollback", "pause", "abort"}
       /\ s.automatic \in BOOLEAN
       /\ s.steps \in Seq(TrafficSteps)
       \* A rolling update without steps has the default ones.
       /\ s.kind = "rolling" => s.steps /= <<>>

VARIABLES
  strategy,
  intent,     \* "none", "known" or "deleted"
  persisted,  \* the backend has it
  status,
  weight,     \* share of the traffic of the new version
  headers,    \* header routing is set
  at,         \* where a runner is
  phase, next,\* which phase it runs, and which of its operations is next
  runs,
  overlapped  \* history: an execution began while another was under way

deployed == <<weight, headers>>
runners == <<at, phase, next, runs, overlapped>>
intentVars == <<strategy, intent, persisted, status, deployed, runners>>

Shift(w) == [op |-> "shift", weight |-> w]
Do(o) == [op |-> o, weight |-> 0]

\* A step: a shift, header routing, an analysis and a wait, which may fail, and
\* a pause for approval.
StepPlan(s) ==
  <<Shift(s.weight)>> \o (IF s.header THEN <<Do("set")>> ELSE <<>>)
    \o <<Do("check")>> \o (IF s.gate THEN <<Do("gate")>> ELSE <<>>)

RollingPlan(s) == <<Shift(s.weight), Do("check")>>

\* The phases of a strategy: the steps it has, and what follows them.
Phases(s) ==
  CASE s.kind = "canary" -> Len(s.steps) + 1
    [] s.kind = "rolling" -> Len(s.steps)
    [] OTHER -> 2

\* Mutant: the final shift of a canary is forgotten.
PlanUnfinished(s, i) ==
  CASE s.kind = "canary" -> IF i <= Len(s.steps) THEN StepPlan(s.steps[i]) ELSE <<Do("check")>>
    [] s.kind = "rolling" -> RollingPlan(s.steps[i])
    [] s.kind = "blue-green" -> IF i = 1 THEN <<Do("set"), Do("check"), Do("remove")>> ELSE <<Shift(100)>>
    [] OTHER -> IF i = 1 THEN <<Shift(0)>> ELSE <<Shift(100)>>

\* The calls a strategy makes in its phase i.  Only a canary pauses.
Plan(s, i) ==
  CASE s.kind = "canary" -> IF i <= Len(s.steps) THEN StepPlan(s.steps[i]) ELSE <<Shift(100)>>
    [] s.kind = "rolling" -> RollingPlan(s.steps[i])
    [] s.kind = "blue-green" -> IF i = 1 THEN <<Do("set"), Do("check"), Do("remove")>> ELSE <<Shift(100)>>
    [] OTHER -> IF i = 1 THEN <<Shift(0)>> ELSE <<Shift(100)>>

-----------------------------------------------------------------------------
IntentInit ==
  /\ strategy \in Strategies /\ intent = "none" /\ persisted = FALSE
  /\ status = "pending" /\ weight = 0 /\ headers = FALSE
  /\ at = [r \in Runners |-> "idle"]
  /\ phase = [r \in Runners |-> 1] /\ next = [r \in Runners |-> 1]
  /\ runs = 0 /\ overlapped = FALSE

\* An error of the backend leaves the intent where it is.
CreateIntent ==
  /\ intent = "none" /\ intent' = "known" /\ persisted' \in BOOLEAN
  /\ UNCHANGED <<strategy, status, deployed, runners>>

DeleteIntent ==
  /\ intent = "known" /\ intent' = "deleted"
  /\ persisted' \in {persisted, FALSE}
  /\ UNCHANGED <<strategy, status, deployed, runners>>

CancelIntent ==
  /\ intent = "known" /\ status \in {"running", "paused"}
  /\ status' = "cancelled"
  /\ UNCHANGED <<strategy, intent, persisted, deployed, runners>>

Goto(r, a) == at' = [at EXCEPT ![r] = a]

\* ApproveIntent marks the intent, and then it is executed like any other.
ApproveIntent(r) ==
  /\ intent = "known" /\ status = "paused" /\ at[r] = "idle" /\ runs < MaxRuns
  /\ status' = "running" /\ Goto(r, "approved")
  /\ UNCHANGED <<strategy, intent, persisted, deployed, phase, next, runs, overlapped>>

\* The first operation of the plan, whatever ran before.
ExecuteIntent(r) ==
  /\ at[r] \in {"idle", "approved"} /\ runs < MaxRuns
  /\ IF intent = "known"
     THEN /\ status' = "running" /\ Goto(r, "running")
          /\ phase' = [phase EXCEPT ![r] = 1] /\ next' = [next EXCEPT ![r] = 1]
          /\ overlapped' = (overlapped \/ \E o \in Runners : at[o] \notin {"idle", "approved"})
          /\ runs' = runs + 1
     ELSE at[r] = "approved" /\ Goto(r, "idle") /\ UNCHANGED <<status, phase, next, runs, overlapped>>
  /\ UNCHANGED <<strategy, intent, persisted, deployed>>

\* The operation is over: the one after it is next.
Advance(r) ==
  IF next[r] < Len(Plan(strategy, phase[r]))
  THEN next' = [next EXCEPT ![r] = @ + 1] /\ UNCHANGED phase
  ELSE phase' = [phase EXCEPT ![r] = @ + 1] /\ next' = [next EXCEPT ![r] = 1]

Effect(o) ==
  /\ weight' = IF o.op = "shift" THEN o.weight ELSE weight
  /\ headers' = CASE o.op = "set" -> TRUE [] o.op = "remove" -> FALSE [] OTHER -> headers

\* A call that fails may have had its effect.
Operation(r) ==
  /\ at[r] = "running" /\ phase[r] <= Phases(strategy)
  /\ LET o == Plan(strategy, phase[r])[next[r]] IN
       \/ o.op /= "gate" /\ Effect(o) /\ Advance(r) /\ UNCHANGED <<at, status>>
       \/ /\ o.op /= "gate" /\ (Effect(o) \/ UNCHANGED deployed)
          /\ Goto(r, "failing") /\ UNCHANGED <<phase, next, status>>
       \/ /\ o.op = "gate" /\ status' = "paused"
          /\ Goto(r, "failing") /\ UNCHANGED <<phase, next, deployed>>
  /\ UNCHANGED <<strategy, intent, persisted, runs, overlapped>>

Succeed(r) ==
  /\ at[r] = "running" /\ phase[r] > Phases(strategy)
  /\ status' = "succeeded" /\ Goto(r, "idle")
  /\ UNCHANGED <<strategy, intent, persisted, deployed, phase, next, runs, overlapped>>

\* A pause for approval comes here as well: it is an error of the strategy.
HandleFailure(r) ==
  /\ at[r] = "failing" /\ status' = "failed"
  /\ Goto(r, IF strategy.onFailure = "rollback" /\ strategy.automatic THEN "rollback"
             ELSE IF strategy.onFailure = "pause" THEN "pausing" ELSE "idle")
  /\ UNCHANGED <<strategy, intent, persisted, deployed, phase, next, runs, overlapped>>

Rollback(r) ==
  /\ at[r] = "rollback"
  /\ \/ weight' = 0 /\ Goto(r, "rolled back")
     \/ weight' \in {0, weight} /\ Goto(r, "idle")
  /\ UNCHANGED <<strategy, intent, persisted, status, headers, phase, next, runs, overlapped>>

Settle(r) ==
  /\ \/ at[r] = "rolled back" /\ status' = "rolled_back"
     \/ at[r] = "pausing" /\ status' = "paused"
  /\ Goto(r, "idle")
  /\ UNCHANGED <<strategy, intent, persisted, deployed, phase, next, runs, overlapped>>

IntentNext ==
  \/ CreateIntent \/ DeleteIntent \/ CancelIntent
  \/ \E r \in Runners :
       \/ ApproveIntent(r) \/ ExecuteIntent(r) \/ Operation(r) \/ Succeed(r)
       \/ HandleFailure(r) \/ Rollback(r) \/ Settle(r)

IntentSpec == IntentInit /\ [][IntentNext]_intentVars

-----------------------------------------------------------------------------
(* Properties *)

IntentTypeOK ==
  /\ strategy \in Strategies /\ intent \in {"none", "known", "deleted"}
  /\ persisted \in BOOLEAN /\ headers \in BOOLEAN /\ overlapped \in BOOLEAN
  /\ status \in {"pending", "running", "paused", "succeeded", "failed", "rolled_back",
                 "cancelled"}
  /\ weight \in 0..100 /\ phase \in [Runners -> Nat] /\ next \in [Runners -> Nat]
  /\ runs \in 0..MaxRuns
  /\ at \in [Runners -> {"idle", "approved", "running", "failing", "rollback",
                         "rolled back", "pausing"}]

\* All of the traffic, but a rolling update ends where its last step does.
Target(s) == IF s.kind = "rolling" THEN s.steps[Len(s.steps)].weight ELSE 100

\* Executions that do not overlap leave the traffic where their outcome says,
\* whatever was cancelled or deleted meanwhile and whichever calls failed after
\* they took effect: on the new version after a success, and on the old one
\* after a rollback.
OutcomeMatchesTraffic ==
  ~overlapped /\ (\A r \in Runners : at[r] = "idle") =>
    /\ status = "succeeded" => weight = Target(strategy) /\ (strategy.kind = "blue-green" => ~headers)
    /\ status = "rolled_back" => weight = 0
=============================================================================
