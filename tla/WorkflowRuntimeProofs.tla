------------------------- MODULE WorkflowRuntimeProofs -------------------------
(***************************************************************************)
(* Steps run in the order of their dependencies and a completed execution  *)
(* completed every step, for every workflow, every number of slots and     *)
(* every interleaving with a cancellation.                                 *)
(***************************************************************************)
EXTENDS WorkflowRuntime, TLAPS

Before == {"none", "start", "marshal", "put", "plan"}
Final == {"last marshal", "last put", "done"}

\* The levels are disjoint and closed under dependencies, every step of an
\* earlier level completed, and only the steps of a level have a goroutine.
Levels ==
  /\ levelled \subseteq PlanSteps /\ level \subseteq PlanSteps \ levelled
  /\ pc \in Before => levelled = {}
  /\ pc \in Before \cup {"levels"} => level = {}
  /\ pc \in {"levels", "level"} => ~HasCycle(plan)
  /\ \A s \in Steps : at[s] = "none" <=> s \notin levelled \cup level
  /\ \A s \in levelled : at[s] = "returned" /\ stepStatus[s] = "completed"
  /\ \A s \in levelled \cup level : plan[s] \subseteq levelled

\* Whoever is about to say, or says, that the execution completed does so after
\* the last level.
Ended ==
  /\ pc = "check" /\ status = "executing" => PlanSteps \subseteq levelled
  /\ pc = "complete" => PlanSteps \subseteq levelled
  /\ "completed" \in {status, saved, image, cancelImage} =>
       pc \in Final /\ PlanSteps \subseteq levelled

NoCycle == plan # None /\ HasCycle(plan) => levelled = {} /\ level = {}

Inv == TypeOK /\ Levels /\ Ended /\ NoCycle

-----------------------------------------------------------------------------
(* Types *)

LEMMA InitTypeOK == Init => TypeOK
  BY DEF Init, TypeOK, Statuses

LEMMA StepTypeOK == TypeOK /\ Levels /\ [Next]_vars => TypeOK'
<1> SUFFICES ASSUME TypeOK, Levels, [Next]_vars PROVE TypeOK'
  OBVIOUS
<1> USE DEF TypeOK, Statuses, stepVars, cancelVars
<1>1. ASSUME NEW p \in Plans, RunWorkflow(p) PROVE TypeOK'
  BY <1>1, NoneAssumption DEF RunWorkflow
<1>2. CASE MarkExecuting \/ Marshal \/ BuildLevels
  BY <1>2 DEF MarkExecuting, Marshal, BuildLevels
<1>3. CASE Put
  BY <1>3 DEF Put
<1>4. CASE BeginLevel
  <2>1. /\ plan \in Plans
        /\ Ready \subseteq Steps /\ \A s \in Ready : at[s] = "none"
    BY <1>4, PlansAssumption, NoneAssumption DEF BeginLevel, Ready, Levels, Before
  <2> QED
    BY <1>4, <2>1 DEF BeginLevel
<1>5. CASE LevelSucceeds \/ LevelFails \/ LevelsDone
  BY <1>5 DEF LevelSucceeds, LevelFails, LevelsDone
<1>6. CASE CheckExecuting \/ MarkCompleted
  BY <1>6 DEF CheckExecuting, MarkCompleted
<1>7. CASE Cancelling
  BY <1>7 DEF Cancelling, CancelCheck, CancelWrite, CancelMarshal, CancelPut
<1>8. ASSUME NEW s \in Steps, StartStep(s) PROVE TypeOK'
  BY <1>8 DEF StartStep, UnhandledStatus
<1>9. ASSUME NEW s \in Steps, NEW r \in {"completed", "failed", "running"}, FinishStep(s, r)
      PROVE  TypeOK'
  BY <1>9 DEF FinishStep
<1>10. CASE UNCHANGED vars
  BY <1>10 DEF vars
<1> QED
  BY <1>1, <1>2, <1>3, <1>4, <1>5, <1>6, <1>7, <1>8, <1>9, <1>10
  DEF Next, ExecuteStep, StepTurn

-----------------------------------------------------------------------------
(* Levels *)

LEMMA InitLevels == Init => Levels
  BY DEF Init, Levels, Before, PlanSteps

LEMMA StepLevels == TypeOK /\ Levels /\ [Next]_vars => Levels'
<1> SUFFICES ASSUME TypeOK, Levels, [Next]_vars PROVE Levels'
  OBVIOUS
<1> USE DEF Levels, Before, PlanSteps, stepVars, cancelVars
<1>1. ASSUME NEW p \in Plans, RunWorkflow(p) PROVE Levels'
  BY <1>1, NoneAssumption DEF RunWorkflow, TypeOK
<1>2. CASE MarkExecuting \/ Marshal \/ Put
  BY <1>2 DEF MarkExecuting, Marshal, Put
<1>3. CASE BuildLevels
  BY <1>3 DEF BuildLevels, Rejected
<1>4. CASE BeginLevel
  <2>1. plan \in Plans /\ DOMAIN plan \subseteq Steps
    BY <1>4, PlansAssumption DEF BeginLevel, TypeOK
  <2>2. /\ plan' = plan /\ levelled' = levelled /\ stepStatus' = stepStatus
        /\ level = {} /\ level' = Ready /\ pc' = "level" /\ ~HasCycle(plan)
        /\ PlanSteps = DOMAIN plan
    BY <1>4, <2>1, NoneAssumption DEF BeginLevel
  <2>3. /\ Ready \subseteq DOMAIN plan \ levelled
        /\ \A s \in Ready : plan[s] \subseteq levelled
    BY DEF Ready
  <2>4. \A s \in Steps : at'[s] = "none" <=> s \notin levelled \cup Ready
    BY <1>4, <2>2 DEF BeginLevel
  <2>5. \A s \in levelled : at'[s] = "returned"
    BY <1>4, <2>1, <2>2, <2>3 DEF BeginLevel
  <2> QED
    BY <2>1, <2>2, <2>3, <2>4, <2>5
<1>5. CASE LevelSucceeds
  <2>1. \A s \in level : at[s] = "returned" /\ stepStatus[s] = "completed"
    BY <1>5 DEF LevelSucceeds, LevelOver, LevelFailed
  <2> QED
    BY <1>5, <2>1 DEF LevelSucceeds
<1>6. CASE LevelFails \/ LevelsDone \/ CheckExecuting \/ MarkCompleted
  BY <1>6 DEF LevelFails, LevelsDone, CheckExecuting, MarkCompleted
<1>7. CASE Cancelling
  BY <1>7 DEF Cancelling, CancelCheck, CancelWrite, CancelMarshal, CancelPut
<1>8. ASSUME NEW s \in Steps, StartStep(s) PROVE Levels'
  <2>1. s \notin levelled /\ at[s] # "none"
    BY <1>8 DEF StartStep
  <2>2. /\ UNCHANGED <<plan, pc, levelled, level>>
        /\ \A t \in Steps \ {s} : at'[t] = at[t] /\ stepStatus'[t] = stepStatus[t]
        /\ at'[s] # "none"
    BY <1>8 DEF StartStep, TypeOK
  <2>3. levelled \subseteq Steps
    BY DEF TypeOK
  <2> QED
    BY <2>1, <2>2, <2>3
<1>9. ASSUME NEW s \in Steps, NEW r \in {"completed", "failed", "running"}, FinishStep(s, r)
      PROVE  Levels'
  <2>1. s \notin levelled /\ at[s] # "none"
    BY <1>9 DEF FinishStep
  <2>2. /\ UNCHANGED <<plan, pc, levelled, level>>
        /\ \A t \in Steps \ {s} : at'[t] = at[t] /\ stepStatus'[t] = stepStatus[t]
        /\ at'[s] # "none"
    BY <1>9 DEF FinishStep, TypeOK
  <2>3. levelled \subseteq Steps
    BY DEF TypeOK
  <2> QED
    BY <2>1, <2>2, <2>3
<1>10. CASE UNCHANGED vars
  BY <1>10 DEF vars
<1> QED
  BY <1>1, <1>2, <1>3, <1>4, <1>5, <1>6, <1>7, <1>8, <1>9, <1>10
  DEF Next, ExecuteStep, StepTurn

-----------------------------------------------------------------------------
(* Completion *)

\* Steps that can never be in a level wait for one another.
LEMMA NothingLeft ==
  ASSUME plan \in Plans, ~HasCycle(plan), Ready = {}
  PROVE  DOMAIN plan \subseteq levelled
<1>1. SUFFICES ASSUME DOMAIN plan \ levelled # {} PROVE FALSE
  OBVIOUS
<1> DEFINE T == DOMAIN plan \ levelled
<1>2. \A s \in T : plan[s] \subseteq DOMAIN plan /\ ~(plan[s] \subseteq levelled)
  BY PlansAssumption DEF Ready
<1>3. \A s \in T : plan[s] \cap T # {}
  BY <1>2
<1>4. T \in (SUBSET DOMAIN plan) \ {{}}
  BY <1>1
<1> QED
  BY <1>3, <1>4 DEF HasCycle

LEMMA InitEnded == Init => Ended /\ NoCycle
  BY DEF Init, Ended, NoCycle

LEMMA StepEnded == TypeOK /\ Levels /\ Ended /\ [Next]_vars => Ended'
<1> SUFFICES ASSUME TypeOK, Levels, Ended, [Next]_vars PROVE Ended'
  OBVIOUS
<1> USE DEF Ended, Final, stepVars, cancelVars
<1>1. ASSUME NEW p \in Plans, RunWorkflow(p) PROVE Ended'
  BY <1>1 DEF RunWorkflow
<1>2. CASE MarkExecuting \/ BuildLevels \/ BeginLevel
  BY <1>2 DEF MarkExecuting, BuildLevels, BeginLevel
<1>3. CASE Marshal \/ Put
  BY <1>3 DEF Marshal, Put, PlanSteps
<1>4. CASE LevelSucceeds \/ LevelFails
  BY <1>4 DEF LevelSucceeds, LevelFails
<1>5. CASE LevelsDone
  <2>1. plan \in Plans /\ ~HasCycle(plan) /\ Ready = {}
    BY <1>5 DEF LevelsDone, TypeOK, Levels
  <2>2. PlanSteps \subseteq levelled
    BY <2>1, NothingLeft DEF PlanSteps
  <2> QED
    BY <1>5, <2>2 DEF LevelsDone, PlanSteps
<1>6. CASE CheckExecuting \/ MarkCompleted
  BY <1>6 DEF CheckExecuting, MarkCompleted, StillExecuting, PlanSteps
<1>7. CASE Cancelling
  BY <1>7 DEF Cancelling, CancelCheck, CancelWrite, CancelMarshal, CancelPut, PlanSteps
<1>8. ASSUME NEW s \in Steps, StartStep(s) PROVE Ended'
  BY <1>8 DEF StartStep, PlanSteps
<1>9. ASSUME NEW s \in Steps, NEW r \in {"completed", "failed", "running"}, FinishStep(s, r)
      PROVE  Ended'
  BY <1>9 DEF FinishStep, PlanSteps
<1>10. CASE UNCHANGED vars
  BY <1>10 DEF vars, PlanSteps
<1> QED
  BY <1>1, <1>2, <1>3, <1>4, <1>5, <1>6, <1>7, <1>8, <1>9, <1>10
  DEF Next, ExecuteStep, StepTurn

LEMMA StepNoCycle == TypeOK /\ Levels /\ NoCycle /\ [Next]_vars => NoCycle'
<1> SUFFICES ASSUME TypeOK, Levels, NoCycle, [Next]_vars PROVE NoCycle'
  OBVIOUS
<1> USE DEF NoCycle, stepVars
<1>1. ASSUME NEW p \in Plans, RunWorkflow(p) PROVE NoCycle'
  BY <1>1 DEF RunWorkflow, Levels, Before
<1>2. CASE BeginLevel
  BY <1>2 DEF BeginLevel, Levels
<1>3. CASE LevelSucceeds
  BY <1>3 DEF LevelSucceeds, Levels
<1>4. ASSUME UNCHANGED <<plan, levelled, level>> PROVE NoCycle'
  BY <1>4
<1> QED
  BY <1>1, <1>2, <1>3, <1>4
  DEF Next, ExecuteStep, StepTurn, MarkExecuting, Marshal, Put, BuildLevels,
      LevelFails, LevelsDone, CheckExecuting, MarkCompleted, Cancelling,
      CancelCheck, CancelWrite, CancelMarshal, CancelPut, StartStep, FinishStep, vars

LEMMA Invariance == Spec => []Inv
<1>1. Init => Inv
  BY InitTypeOK, InitLevels, InitEnded DEF Inv
<1>2. Inv /\ [Next]_vars => Inv'
  BY StepTypeOK, StepLevels, StepEnded, StepNoCycle DEF Inv
<1> QED
  BY <1>1, <1>2, PTL DEF Spec

-----------------------------------------------------------------------------
(* Theorems *)

\* Every variable keeps its type, and a step shows the status its goroutine's
\* place allows.
THEOREM Typed == Spec => []TypeOK
  BY Invariance, PTL DEF Inv

\* A step runs only when every step it depends on completed.
THEOREM DependenciesFirst == Spec => []StepsInOrder
<1>1. Inv => StepsInOrder
  BY DEF Inv, Levels, StepsInOrder
<1> QED
  BY <1>1, Invariance, PTL

\* Whoever reads "completed", in memory or in the store, reads it after every
\* step completed, whatever a cancellation or a lost write did.
THEOREM CompletionIsTrue == Spec => []CompletedMeansAll
<1>1. Inv => CompletedMeansAll
  BY DEF Inv, Levels, Ended, CompletedMeansAll
<1> QED
  BY <1>1, Invariance, PTL

\* A workflow with a cycle runs no step at all.
THEOREM CyclesAreRefused == Spec => []CyclesRunNothing
<1>1. Inv => CyclesRunNothing
  BY DEF Inv, Levels, NoCycle, CyclesRunNothing
<1> QED
  BY <1>1, Invariance, PTL

\* No level is begun once a step returned without having completed.
THEOREM NoLevelAfterFailure == Spec => FailureStops
<1>1. Inv => (pc = "levels" =>
                \A s \in Steps : at[s] = "returned" => stepStatus[s] = "completed")
  <2> SUFFICES ASSUME Inv, pc = "levels", NEW s \in Steps, at[s] = "returned"
               PROVE  stepStatus[s] = "completed"
    OBVIOUS
  <2>1. level = {}
    BY DEF Inv, Levels, Before
  <2>2. s \in levelled
    BY <2>1 DEF Inv, Levels
  <2> QED
    BY <2>2 DEF Inv, Levels
<1>2. Inv => [pc = "levels" /\ pc' = "level" =>
                \A s \in Steps : at[s] = "returned" => stepStatus[s] = "completed"]_vars
  BY <1>1
<1> QED
  BY <1>2, Invariance, PTL DEF FailureStops
=============================================================================
