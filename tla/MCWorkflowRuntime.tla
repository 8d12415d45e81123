-------------------------- MODULE MCWorkflowRuntime --------------------------
(* What starts workflows and what runs them: an execution is one of the runtime
   or of the triggers, whose callbacks are only calls of it. *)
EXTENDS WorkflowRuntime, Triggers

MCSteps == {"a", "b", "c", "d", "e"}

\* A diamond, three parallel steps of which one has no handler, and
\* a cycle behind a step that could run.
Diamond == [a |-> {}, b |-> {"a"}, c |-> {"a"}, d |-> {"b", "c"}]
Join == [a |-> {}, c |-> {}, e |-> {}, d |-> {"a", "e"}]
Loop == [a |-> {}, b |-> {"a", "c"}, c |-> {"b"}]

MCPlans == {Diamond, Join, Loop}
\* Nothing handles the type of step e.
MCHandled == {"a", "b", "c", "d"}

VARIABLE part

\* What a part begins with makes no difference to the other.
WorkflowsInit ==
  /\ part \in {"runtime", "triggers"} /\ Init /\ TriggersInit
  /\ part = "runtime" => cron

OfRuntime(A) == part = "runtime" /\ A /\ UNCHANGED <<part, triggerVars>>
OfTriggers(A) == part = "triggers" /\ A /\ UNCHANGED <<part, vars>>

WorkflowsNext == OfRuntime(Next) \/ OfTriggers(TriggersNext)

workflowVars == <<part, vars, triggerVars>>

\* The fairness of FairSpec and that of the loops.
WorkflowsSpec ==
  /\ WorkflowsInit /\ [][WorkflowsNext]_workflowVars
  /\ WF_workflowVars(OfRuntime(ExecuteStep))
  /\ \A s \in Steps : WF_workflowVars(OfRuntime(StepTurn(s)))
  /\ \A o \in Objects, g \in Generations :
       /\ WF_workflowVars(OfTriggers(LoopStep(o, g)))
       /\ SF_workflowVars(OfTriggers(LoopEnds(o, g)))
=============================================================================
