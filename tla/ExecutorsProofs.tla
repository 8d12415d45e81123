---------------------------- MODULE ExecutorsProofs ----------------------------
(*****************************************************************************)
(* Of the DAG executor: the order of steps and the meaning of success.  Of   *)
(* the sequential orchestrator: the state is true of what is deployed.       *)
(*****************************************************************************)
EXTENDS DagExecutor, Orchestrator, FiniteSetTheorems, TLAPS

-----------------------------------------------------------------------------
(* The invariant *)

\* A level waits only for what is behind Execute, and so did those it left.
Behind ==
  /\ level \cap levelled = {}
  /\ \A n \in level \cup levelled : graph[n] \cap Nodes \subseteq levelled

\* Nothing has a goroutine before its level begins and its condition holds.  What
\* was looked at and has none was skipped.
Launched ==
  \A n \in Ids :
    /\ at[n] /= "none" => n \in (level \ unvisited) \cup levelled
    /\ n \in level \ unvisited /\ at[n] = "none" => stepStatus[n] = "skipped"

\* A goroutine that ended without an error left its step well.
EndedWell == \A n \in Ids : at[n] = "done" /\ n \notin failed => Good(n)

\* What Execute left behind is over: well, unless it continues on failure, and
\* but for what it left behind without waiting.
LeftBehind ==
  \A d \in levelled : IF lenient THEN Ended(d) \/ d \in abandoned ELSE Ended(d) /\ Good(d)

Results ==
  /\ pc /= "returned" => result = None
  /\ result = "ok" => levelled = Nodes

\* The loop of attempts.
Counted ==
  \A n \in Ids : /\ at[n] \in {"none", "queued"} => attempt[n] = 0
                 /\ at[n] = "asleep" => attempt[n] < Attempts[n]

DagInv ==
  /\ TypeOK /\ Behind /\ Launched /\ EndedWell /\ LeftBehind /\ Results /\ Counted
  /\ pc \in {"levels", "next"} => level = {}

-----------------------------------------------------------------------------
LEMMA NodesAreIds == TypeOK => Nodes \subseteq Ids
BY DagAssumption DEF TypeOK, Nodes, DagAssumption

LEMMA DagStarts == Init => DagInv
<1> SUFFICES ASSUME Init PROVE DagInv
  OBVIOUS
<1> USE DagAssumption DEF Init, DagAssumption
<1>1. TypeOK
  BY DEF TypeOK
<1>2. Behind /\ Launched /\ EndedWell
  BY DEF Behind, Launched, EndedWell
<1>3. LeftBehind /\ Results /\ Counted
  BY DEF LeftBehind, Results, Counted
<1> QED BY <1>1, <1>2, <1>3 DEF DagInv

\* Execute leaves a level of which it knows how it ended.
LEMMA LeaveKeeps ==
  ASSUME DagInv, pc = "visit", NEW error \in BOOLEAN, Leave(error), UNCHANGED <<config, goroutines>>,
         abandoned \subseteq abandoned', abandoned' \subseteq Nodes,
         lenient => \A n \in level : Ended(n) \/ n \in abandoned',
         ~error => \A n \in level : Ended(n) /\ Good(n)
  PROVE  DagInv'
<1> USE DEF DagInv, config, goroutines
<1>1. CASE error /\ ~lenient
  <2>1. pc' = "returned" /\ result' = "error" /\ UNCHANGED <<levelled, level, unvisited>>
    BY <1>1 DEF Leave, Return
  <2>2. TypeOK'
    BY <2>1 DEF TypeOK, Nodes
  <2> QED BY <1>1, <2>1, <2>2
          DEF Behind, Launched, EndedWell, LeftBehind, Results, Counted, Good, Ended, Nodes
<1>2. CASE ~(error /\ ~lenient)
  <2>1. pc' = "next" /\ levelled' = levelled \cup level /\ level' = {} /\ unvisited' = {}
          /\ UNCHANGED result
    BY <1>2 DEF Leave
  <2>2. TypeOK'
    BY <2>1 DEF TypeOK, Nodes
  <2>3. Behind'
    BY <2>1 DEF Behind, Nodes
  <2>4. Launched'
    BY <2>1 DEF Launched
  <2>5. LeftBehind'
    BY <1>2, <2>1 DEF LeftBehind, Ended, Good
  <2>6. EndedWell' /\ Results' /\ Counted'
    BY <2>1, DagAssumption DEF EndedWell, Good, Results, Counted, TypeOK, Nodes, DagAssumption
  <2> QED BY <2>1, <2>2, <2>3, <2>4, <2>5, <2>6
<1> QED BY <1>1, <1>2

LEMMA ExecuteKeeps == ASSUME DagInv, Execute PROVE DagInv'
<1> USE DEF DagInv
<1>1. CASE Levels
  <2>1. UNCHANGED <<config, goroutines, abandoned, levelled, level, unvisited>> /\ pc = "levels"
    BY <1>1 DEF Levels, Return
  <2>2. (pc' = "returned" /\ result' = "error") \/ (pc' = "next" /\ result' = result)
    BY <1>1 DEF Levels, Return
  <2>3. TypeOK'
    BY <2>1, <2>2 DEF TypeOK, Nodes, config, goroutines
  <2> QED BY <2>1, <2>2, <2>3
          DEF Behind, Launched, EndedWell, LeftBehind, Results, Counted, Good, Ended, Nodes, config,
              goroutines
<1>2. CASE StartLevel
  <2>1. UNCHANGED <<config, goroutines, abandoned, levelled>> /\ level = {} /\ pc = "next"
    BY <1>2 DEF StartLevel, Return
  <2>2. CASE levelled = Nodes
    <3>1. pc' = "returned" /\ result' = "ok" /\ UNCHANGED <<level, unvisited>>
      BY <1>2, <2>2 DEF StartLevel, Return
    <3>2. TypeOK'
      BY <2>1, <3>1 DEF TypeOK, Nodes, config, goroutines
    <3> QED BY <2>1, <2>2, <3>1, <3>2
            DEF Behind, Launched, EndedWell, LeftBehind, Results, Counted, Good, Ended, Nodes, config,
                goroutines
  <2>3. CASE levelled /= Nodes
    <3>1. level' = NextLevel /\ unvisited' = NextLevel /\ pc' = "visit" /\ result' = result
      BY <1>2, <2>3 DEF StartLevel
    <3>2. NextLevel \subseteq Nodes /\ NextLevel \cap levelled = {}
            /\ \A n \in NextLevel : graph[n] \cap Nodes \subseteq levelled
      BY DEF NextLevel
    <3>3. TypeOK'
      BY <2>1, <3>1, <3>2 DEF TypeOK, Nodes, config, goroutines
    <3>4. Behind'
      BY <2>1, <3>1, <3>2 DEF Behind, Nodes, config
    <3>5. Launched'
      BY <2>1, <3>1 DEF Launched, goroutines
    <3> QED BY <2>1, <3>1, <3>3, <3>4, <3>5
            DEF EndedWell, LeftBehind, Results, Counted, Good, Ended, Nodes, config, goroutines
  <2> QED BY <2>2, <2>3
<1>3. CASE EndLevel
  <2> DEFINE error == failed \cap level /= {}
  <2>1. /\ pc = "visit" /\ Leave(error) /\ UNCHANGED <<config, goroutines, abandoned>>
        /\ unvisited = {} /\ \A n \in level : Ended(n)
    BY <1>3 DEF EndLevel
  <2>2. level \subseteq Ids
    BY NodesAreIds DEF TypeOK
  <2>3. ~error => \A n \in level : Good(n)
    BY <2>1, <2>2 DEF Ended, Launched, EndedWell, Good
  <2> HIDE DEF error
  <2>4. abandoned' \subseteq Nodes /\ error \in BOOLEAN
    BY <2>1 DEF TypeOK, error
  <2> QED BY <2>1, <2>3, <2>4, LeaveKeeps
<1> QED BY <1>1, <1>2, <1>3 DEF Execute

LEMMA ExecuteLevelKeeps == ASSUME DagInv, NEW n \in Ids, ExecuteLevel(n) PROVE DagInv'
<1> USE DEF DagInv
<1>1. CASE Launch(n)
  <2>1. /\ pc = "visit" /\ n \in unvisited /\ n \in level /\ n \notin levelled
        /\ unvisited' = unvisited \ {n} /\ at' = [at EXCEPT ![n] = "queued"]
        /\ UNCHANGED <<config, pc, result, levelled, level, attempt, stepStatus, failed, abandoned>>
        /\ at[n] = "none"
    BY <1>1 DEF Launch, Visit, TypeOK, Behind, Launched
  <2>2. TypeOK'
    BY <2>1 DEF TypeOK, Nodes, config
  <2>3. Launched'
    BY <2>1 DEF Launched, TypeOK
  <2>4. EndedWell' /\ Results'
    BY <2>1 DEF EndedWell, Good, TypeOK, Results, config, Nodes
  <2>5. LeftBehind'
    BY <2>1 DEF LeftBehind, Ended, Good, TypeOK, config
  <2>6. Counted'
    BY <2>1 DEF Counted, TypeOK
  <2>7. Behind'
    BY <2>1 DEF Behind, config, Nodes
  <2> QED BY <2>1, <2>2, <2>3, <2>4, <2>5, <2>6, <2>7
<1>2. CASE Skip(n)
  <2>1. /\ pc = "visit" /\ n \in unvisited /\ n \in level /\ n \notin levelled
        /\ unvisited' = unvisited \ {n} /\ stepStatus' = [stepStatus EXCEPT ![n] = "skipped"]
        /\ UNCHANGED <<config, pc, result, levelled, level, at, attempt, failed, abandoned>>
        /\ at[n] = "none"
    BY <1>2 DEF Skip, Visit, TypeOK, Behind, Launched
  <2>2. TypeOK'
    BY <2>1 DEF TypeOK, Nodes, config
  <2>3. Launched'
    BY <2>1 DEF Launched, TypeOK
  <2>4. EndedWell' /\ Results'
    BY <2>1 DEF EndedWell, Good, TypeOK, Results, config, Nodes
  <2>5. LeftBehind'
    BY <2>1 DEF LeftBehind, Ended, Good, TypeOK, config
  <2>6. Counted' /\ Behind'
    BY <2>1 DEF Counted, Behind, config, Nodes
  <2> QED BY <2>1, <2>2, <2>3, <2>4, <2>5, <2>6
<1>3. CASE ConditionFails(n)
  <2>1. /\ pc = "visit" /\ Leave(TRUE) /\ abandoned' = abandoned \cup level
        /\ UNCHANGED <<config, goroutines>>
    BY <1>3 DEF ConditionFails, Visit
  <2>2. abandoned' \subseteq Nodes
    BY <2>1 DEF TypeOK
  <2> QED BY <2>1, <2>2, LeaveKeeps
<1> QED BY <1>1, <1>2, <1>3 DEF ExecuteLevel

\* What one goroutine does to its own step.
LEMMA StepKeeps ==
  ASSUME DagInv, NEW n \in Ids, at[n] \notin {"none", "done"}, UNCHANGED control,
         NEW a \in {"running", "asleep", "done"}, NEW k \in 0..Attempts[n],
         NEW s \in {"pending", "running", "completed", "failed", "skipped"},
         at' = [at EXCEPT ![n] = a], attempt' = [attempt EXCEPT ![n] = k],
         stepStatus' = [stepStatus EXCEPT ![n] = s], failed' \in {failed, failed \cup {n}},
         a = "asleep" => k < Attempts[n],
         a = "done" /\ n \notin failed' => s = "completed" \/ Tolerable(n, s)
  PROVE  DagInv'
<1> USE DEF DagInv, control, config
<1>1. n \in Nodes
  BY DEF Launched, TypeOK
<1>2. TypeOK'
  BY <1>1 DEF TypeOK, Nodes, Counted
<1>3. Launched'
  BY DEF Launched, TypeOK
<1>4. EndedWell'
  <2>1. Good(n)' <=> (s \in {"completed", "skipped"} \/ (n \in Tolerant /\ s = "failed"))
    BY DEF Good, TypeOK
  <2>2. \A m \in Ids : m /= n => at'[m] = at[m] /\ stepStatus'[m] = stepStatus[m]
    BY DEF TypeOK
  <2>3. failed \subseteq failed'
    OBVIOUS
  <2>4. \A m \in Ids : m /= n => (Good(m)' <=> Good(m))
    BY <2>2 DEF Good
  <2>5. at'[n] = a
    BY DEF TypeOK
  <2> QED BY <2>1, <2>2, <2>3, <2>4, <2>5 DEF EndedWell, Tolerable
<1>5. LeftBehind'
  <2> SUFFICES ASSUME NEW d \in levelled
               PROVE  IF lenient THEN Ended(d)' \/ d \in abandoned ELSE Ended(d)' /\ Good(d)'
    BY DEF LeftBehind
  <2>1. CASE d = n
    BY <2>1 DEF LeftBehind, Ended
  <2>2. CASE d /= n
    <3>1. d \in Ids
      BY NodesAreIds DEF TypeOK
    <3>2. at'[d] = at[d] /\ stepStatus'[d] = stepStatus[d]
      BY <2>2, <3>1 DEF TypeOK
    <3> QED BY <3>2 DEF LeftBehind, Ended, Good
  <2> QED BY <2>1, <2>2
<1>6. Counted'
  <2>1. at'[n] = a /\ attempt'[n] = k /\ \A m \in Ids : m /= n => at'[m] = at[m] /\ attempt'[m] = attempt[m]
    BY DEF TypeOK, Counted
  <2> QED BY <2>1 DEF Counted
<1>7. Behind' /\ Results'
  BY DEF Behind, Results, Nodes
<1> QED BY <1>2, <1>3, <1>4, <1>5, <1>6, <1>7

LEMMA ExecuteStepKeeps == ASSUME DagInv, NEW n \in Ids, ExecuteStep(n) PROVE DagInv'
<1> USE DEF DagInv
<1> DEFINE Same == attempt' = [attempt EXCEPT ![n] = attempt[n]]
<1>1. /\ attempt[n] \in 0..Attempts[n] /\ Attempts[n] \in Nat
      /\ stepStatus[n] \in {"pending", "running", "completed", "failed", "skipped"}
      /\ UNCHANGED attempt => Same
      /\ UNCHANGED stepStatus => stepStatus' = [stepStatus EXCEPT ![n] = stepStatus[n]]
  BY DagAssumption DEF TypeOK, Counted, DagAssumption
<1>2. CASE GiveUp(n)
  <2>1. PICK s \in {"failed", stepStatus[n]} : Finish(n, s, TRUE)
    BY <1>2 DEF GiveUp
  <2> QED BY <1>1, <1>2, <2>1, StepKeeps DEF GiveUp, Finish
<1>3. ASSUME Try(n), at[n] \notin {"none", "done"}, attempt[n] < Attempts[n] PROVE DagInv'
  <2>1. attempt[n] + 1 \in 0..Attempts[n] /\ attempt' = [attempt EXCEPT ![n] = attempt[n] + 1]
    BY <1>1, <1>3 DEF Try
  <2> QED BY <1>3, <2>1, StepKeeps DEF Try
<1>4. CASE Begin(n)
  BY <1>1, <1>3, <1>4 DEF Begin, Counted
<1>5. CASE Retry(n)
  BY <1>1, <1>3, <1>5 DEF Retry, Counted
<1>6. CASE Fail(n)
  BY <1>1, <1>6, StepKeeps DEF Fail
<1>7. CASE Outcome(n)
  <2>1. PICK error \in BOOLEAN, r \in {None, "completed", "failed"} :
          LET s == IF r = None THEN stepStatus[n] ELSE r IN
            IF s = "completed" \/ Tolerable(n, s) THEN Finish(n, s, FALSE)
            ELSE Finish(n, IF error \/ attempt[n] > 1 THEN "failed" ELSE s, TRUE)
    BY <1>7 DEF Outcome
  <2> DEFINE s == IF r = None THEN stepStatus[n] ELSE r
  <2>2. at[n] = "running" /\ UNCHANGED <<control, attempt>>
    BY <1>7 DEF Outcome
  <2>3. s \in {"pending", "running", "completed", "failed", "skipped"}
    BY <1>1
  <2>4. CASE s = "completed" \/ Tolerable(n, s)
    <3>1. Finish(n, s, FALSE)
      BY <2>1, <2>4
    <3> HIDE DEF s
    <3> QED BY <1>1, <2>2, <2>3, <2>4, <3>1, StepKeeps DEF Finish
  <2>5. CASE ~(s = "completed" \/ Tolerable(n, s))
    <3>1. PICK e \in {"failed", s} : Finish(n, e, TRUE)
      BY <2>1, <2>5
    <3> HIDE DEF s
    <3> QED BY <1>1, <2>2, <2>3, <3>1, StepKeeps DEF Finish
  <2> QED BY <2>4, <2>5
<1> QED BY <1>2, <1>4, <1>5, <1>6, <1>7 DEF ExecuteStep

LEMMA DagStep == DagInv /\ [Next]_vars => DagInv'
<1> SUFFICES ASSUME DagInv, [Next]_vars PROVE DagInv'
  OBVIOUS
<1>1. CASE UNCHANGED vars
  BY <1>1 DEF vars, config, goroutines, DagInv, TypeOK, Behind, Launched, EndedWell, LeftBehind, Results,
              Counted, Nodes, Good, Ended
<1>2. CASE Next
  BY <1>2, ExecuteKeeps, ExecuteLevelKeeps, ExecuteStepKeeps DEF Next
<1> QED BY <1>1, <1>2

\* The shape of the data, and that no step is tried more often than it may be.
THEOREM Typed == Spec => []TypeOK
BY DagStarts, DagStep, PTL DEF Spec, DagInv

\* A step runs only when what it depends on is over, and ended well unless the
\* executor continues on failure, also while goroutines of a level that was left
\* still run.
THEOREM DependenciesAreMet == Spec => []DependenciesMet
<1>1. DagInv => DependenciesMet
  BY DEF DagInv, DependenciesMet, Launched, Behind, LeftBehind
<1> QED BY <1>1, DagStarts, DagStep, PTL DEF Spec

\* Success is reported of all steps, ended well, and of none that still runs.
THEOREM SuccessMeansAll == Spec => []SuccessIsComplete
<1>1. DagInv => SuccessIsComplete
  BY DEF DagInv, SuccessIsComplete, LeftBehind, Results
<1> QED BY <1>1, DagStarts, DagStep, PTL DEF Spec

-----------------------------------------------------------------------------
(* The orchestrator *)

\* Nothing is said of what a command has left to do, only that an operator without
\* a command is at no stage of it.
OrchestratorTyped ==
  /\ deployed \in [Resources -> Nat] /\ recorded \in [Resources -> Nat]
  /\ stage \in [Operators -> {"check", "call", "save"}]
  /\ version \in [Operators -> Nat] /\ commands \in Nat
  /\ DOMAIN todo = Operators
  /\ \A o \in Operators : Idle(o) => stage[o] = "check"
  /\ alone \subseteq Operators

\* Who works alone on a resource is the only one, and whoever works on one that is
\* settled works alone.
AloneIsOnly ==
  \A r \in Resources, o \in Operators : Working(o, r) =>
    /\ o \in alone => \A p \in Operators : Working(p, r) => p = o
    /\ r \notin unsettled => o \in alone

\* What an operator that works alone has made of its resource.
AloneIsTrue ==
  \A r \in Resources, o \in Operators : Working(o, r) /\ o \in alone =>
    /\ stage[o] = "save" => deployed[r] = Effect(o)
    /\ stage[o] = "call" /\ r \notin unsettled => deployed[r] = recorded[r]

OrchestratorInv == OrchestratorTyped /\ AloneIsOnly /\ AloneIsTrue /\ StateIsTrue

LEMMA OrchestratorStarts == OrchestratorInit => OrchestratorInv
BY DEF OrchestratorInit, OrchestratorInv, OrchestratorTyped, AloneIsOnly, AloneIsTrue, StateIsTrue,
       Working, Idle

\* A command begins with nothing that it works on.
LEMMA CommandKeeps ==
  ASSUME OrchestratorInv, NEW o \in Operators, NEW items, Command(o, items)
  PROVE  OrchestratorInv'
<1> USE OrchestratorAssumption DEF OrchestratorInv, Command, world
<1>1. OrchestratorTyped'
  BY DEF OrchestratorTyped, Idle, OrchestratorAssumption
<1>2. \A p \in Operators, r \in Resources :
        /\ Working(p, r)' <=> Working(p, r)
        /\ Working(p, r) => p /= o
  BY DEF Working, Idle, Now, OrchestratorTyped
<1>3. \A p \in Operators : p /= o => Effect(p)' = Effect(p)
  BY DEF Effect, OrchestratorTyped
<1>4. AloneIsOnly'
  BY <1>2 DEF AloneIsOnly
<1>5. AloneIsTrue'
  BY <1>2, <1>3 DEF AloneIsTrue
<1>6. StateIsTrue'
  BY <1>2 DEF StateIsTrue
<1> QED BY <1>1, <1>4, <1>5, <1>6

\* A command that goes on to its next resource, or ends, works on none, and changes
\* nothing of the others.
LEMMA Continues ==
  ASSUME OrchestratorTyped, NEW o \in Operators, NEW items, Continue(o, items)
  PROVE  /\ stage' \in [Operators -> {"check", "call", "save"}] /\ version' \in [Operators -> Nat]
         /\ DOMAIN todo' = Operators /\ \A p \in Operators : Idle(p)' => stage'[p] = "check"
         /\ \A r : ~Working(o, r)'
         /\ \A p \in Operators : \A r : p /= o =>
              (Working(p, r)' <=> Working(p, r)) /\ stage'[p] = stage[p] /\ Effect(p)' = Effect(p)
<1> DEFINE v == IF items = <<>> THEN 0 ELSE version[o]
<1>1. /\ todo' = [todo EXCEPT ![o] = items] /\ stage' = [stage EXCEPT ![o] = "check"]
      /\ version' = [version EXCEPT ![o] = v]
  BY DEF Continue
<1>2. v \in Nat
  BY DEF OrchestratorTyped
<1> HIDE DEF v
<1>3. DOMAIN todo' = Operators /\ todo'[o] = items /\ \A p \in Operators : p /= o => todo'[p] = todo[p]
  BY <1>1 DEF OrchestratorTyped
<1>4. /\ stage' \in [Operators -> {"check", "call", "save"}] /\ stage'[o] = "check"
      /\ \A p \in Operators : p /= o => stage'[p] = stage[p]
  BY <1>1 DEF OrchestratorTyped
<1>5. version' \in [Operators -> Nat] /\ \A p \in Operators : p /= o => version'[p] = version[p]
  BY <1>1, <1>2 DEF OrchestratorTyped
<1>6. \A p \in Operators : Idle(p)' => stage'[p] = "check"
  BY <1>3, <1>4 DEF OrchestratorTyped, Idle
<1>7. \A r : ~Working(o, r)'
  BY <1>4 DEF Working
<1>8. \A p \in Operators : \A r : p /= o => (Working(p, r)' <=> Working(p, r)) /\ Effect(p)' = Effect(p)
  BY <1>3, <1>4, <1>5 DEF Working, Idle, Now, Effect
<1> QED BY <1>3, <1>4, <1>5, <1>6, <1>7, <1>8

LEMMA CheckKeeps ==
  ASSUME OrchestratorInv, NEW o \in Operators, Check(o)
  PROVE  OrchestratorInv'
<1> USE DEF OrchestratorInv
<1> DEFINE r == Now(o)
           Others == {p \in Operators : Working(p, r)}
<1>1. ~Idle(o) /\ stage[o] = "check" /\ UNCHANGED <<deployed, recorded, commands>>
  BY DEF Check, Kept
<1>2. \A q : ~Working(o, q)
  BY <1>1 DEF Working
<1>3. CASE Abandon(o) /\ UNCHANGED <<alone, unsettled>>
  <2>1. OrchestratorTyped'
    BY <1>1, <1>3, Continues DEF OrchestratorTyped, Abandon
  <2>2. \A p \in Operators, q \in Resources :
          (Working(p, q)' <=> Working(p, q)) /\ (p /= o => stage'[p] = stage[p] /\ Effect(p)' = Effect(p))
    BY <1>2, <1>3, Continues DEF Abandon
  <2> QED BY <1>1, <1>2, <1>3, <2>1, <2>2 DEF AloneIsOnly, AloneIsTrue, StateIsTrue
<1>4. CASE /\ stage' = [stage EXCEPT ![o] = "call"] /\ UNCHANGED <<todo, version>>
           /\ alone' = IF Others = {} THEN alone \cup {o} ELSE alone \ (Others \cup {o})
           /\ unsettled' = IF Others = {} THEN unsettled ELSE unsettled \cup {r}
  <2>1. OrchestratorTyped'
    BY <1>1, <1>4 DEF OrchestratorTyped, Idle
  <2>2. \A p \in Operators : \A q : p /= o =>
          (Working(p, q)' <=> Working(p, q)) /\ stage'[p] = stage[p] /\ Effect(p)' = Effect(p)
    BY <1>4 DEF OrchestratorTyped, Working, Idle, Now, Effect
  <2>3. stage'[o] = "call" /\ \A q : Working(o, q)' <=> q = r
    BY <1>1, <1>4 DEF OrchestratorTyped, Working, Idle, Now
  <2>4. \A q : q /= r => (q \in unsettled' <=> q \in unsettled)
    BY <1>4
  <2>5. r \in unsettled' <=> (r \in unsettled \/ Others /= {})
    BY <1>4
  <2>6. \A p \in Operators : \A q : p /= o => (p \in alone' <=> p \in alone /\ ~Working(p, r))
    BY <1>4
  <2>7. o \in alone' <=> \A p \in Operators : ~Working(p, r)
    BY <1>4
  <2>8. Others /= {} <=> \E p \in Operators : Working(p, r)
    OBVIOUS
  <2> HIDE DEF Others, r
  <2>9. AloneIsOnly'
    <3> SUFFICES ASSUME NEW q \in Resources, NEW p \in Operators, Working(p, q)'
                 PROVE  /\ p \in alone' => \A s \in Operators : Working(s, q)' => s = p
                        /\ q \notin unsettled' => p \in alone'
      BY DEF AloneIsOnly
    <3>1. CASE p = o
      BY <2>2, <2>3, <2>5, <2>7, <2>8, <3>1
    <3>2. CASE p /= o
      BY <2>2, <2>3, <2>4, <2>5, <2>6, <2>8, <3>2 DEF AloneIsOnly, Working
    <3> QED BY <3>1, <3>2
  <2>10. AloneIsTrue'
    <3> SUFFICES ASSUME NEW q \in Resources, NEW p \in Operators, Working(p, q)', p \in alone'
                 PROVE  /\ stage'[p] = "save" => deployed'[q] = Effect(p)'
                        /\ stage'[p] = "call" /\ q \notin unsettled' => deployed'[q] = recorded'[q]
      BY DEF AloneIsTrue
    <3>1. CASE p = o
      BY <1>1, <2>3, <2>5, <2>7, <3>1 DEF StateIsTrue
    <3>2. CASE p /= o
      <4>1. p \in alone /\ Working(p, q) /\ q /= r
        BY <2>2, <2>6, <3>2
      <4> QED BY <1>1, <2>2, <2>4, <3>2, <4>1 DEF AloneIsTrue
    <3> QED BY <3>1, <3>2
  <2>11. StateIsTrue'
    <3> SUFFICES ASSUME NEW q \in Resources, q \notin unsettled', \A p \in Operators : ~Working(p, q)'
                 PROVE  deployed'[q] = recorded'[q]
      BY DEF StateIsTrue
    <3>1. q /= r /\ \A p \in Operators : ~Working(p, q)
      BY <1>2, <2>2, <2>3
    <3> QED BY <1>1, <2>4, <3>1 DEF StateIsTrue
  <2> QED BY <2>1, <2>9, <2>10, <2>11
<1> QED BY <1>3, <1>4 DEF Check, Stays

\* A command that ends, or goes on to its next resource, leaves a resource that is
\* unsettled, or that is recorded as it is.
LEMMA LeavingKeeps ==
  ASSUME OrchestratorInv, NEW o \in Operators, NEW r, r = Now(o), Working(o, r), NEW items, Continue(o, items),
         UNCHANGED commands, OrchestratorTyped',
         alone \ {o} \subseteq alone', alone' \subseteq alone,
         \A q \in Resources : q /= r =>
           deployed'[q] = deployed[q] /\ recorded'[q] = recorded[q],
         \A q : q /= r => (q \in unsettled' <=> q \in unsettled),
         r \in Resources => r \in unsettled' \/ (o \in alone /\ deployed'[r] = recorded'[r]),
         o \notin alone => (r \in Resources => r \in unsettled')
  PROVE  OrchestratorInv'
<1> USE DEF OrchestratorInv
<1>1. \A p \in Operators : \A q : p /= o =>
        (Working(p, q)' <=> Working(p, q)) /\ stage'[p] = stage[p] /\ Effect(p)' = Effect(p)
  BY Continues
<1>2. \A q : ~Working(o, q)'
  BY Continues
<1>3. \A q : Working(o, q) <=> q = r
  BY DEF Working
<1>4. (r \in Resources /\ o \in alone) => \A p \in Operators : ~Working(p, r)'
  BY <1>1, <1>2 DEF AloneIsOnly
<1>5. AloneIsOnly'
  BY <1>1, <1>2, <1>4 DEF AloneIsOnly
<1>6. AloneIsTrue'
  <2> SUFFICES ASSUME NEW q \in Resources, NEW p \in Operators, Working(p, q)', p \in alone'
               PROVE  /\ stage'[p] = "save" => deployed'[q] = Effect(p)'
                      /\ stage'[p] = "call" /\ q \notin unsettled' => deployed'[q] = recorded'[q]
    BY DEF AloneIsTrue
  <2>1. p /= o /\ p \in alone /\ Working(p, q)
    BY <1>1, <1>2
  <2>2. q /= r
    BY <2>1 DEF AloneIsOnly
  <2> QED BY <1>1, <2>1, <2>2 DEF AloneIsTrue
<1>7. StateIsTrue'
  <2> SUFFICES ASSUME NEW q \in Resources, q \notin unsettled', \A p \in Operators : ~Working(p, q)'
               PROVE  deployed'[q] = recorded'[q]
    BY DEF StateIsTrue
  <2>1. CASE q = r
    BY <2>1
  <2>2. CASE q /= r
    <3>1. \A p \in Operators : ~Working(p, q)
      BY <1>1, <1>3, <2>2
    <3> QED BY <2>2, <3>1 DEF StateIsTrue
  <2> QED BY <2>1, <2>2
<1> QED BY <1>5, <1>6, <1>7

LEMMA CallKeeps ==
  ASSUME OrchestratorInv, NEW o \in Operators, Call(o)
  PROVE  OrchestratorInv'
<1> USE DEF OrchestratorInv
<1> DEFINE r == Now(o)
<1>1. Working(o, r) /\ stage[o] = "call" /\ UNCHANGED <<recorded, alone, commands>>
  BY DEF Call, Working, Kept
<1>2. Effect(o) \in Nat
  BY DEF Effect, OrchestratorTyped
<1>3. CASE Abandon(o) /\ UNCHANGED <<deployed, unsettled>>
  <2>1. OrchestratorTyped'
    BY <1>1, <1>3, Continues DEF OrchestratorTyped, Abandon
  <2>2. r \in Resources => r \in unsettled \/ (o \in alone /\ deployed[r] = recorded[r])
    BY <1>1 DEF AloneIsOnly, AloneIsTrue, OrchestratorTyped
  <2>3. o \notin alone => (r \in Resources => r \in unsettled)
    BY <1>1 DEF AloneIsOnly
  <2> HIDE DEF r
  <2> QED BY <1>1, <1>3, <2>1, <2>2, <2>3, LeavingKeeps DEF Abandon, r
<1>4. CASE /\ deployed' = [deployed EXCEPT ![r] = Effect(o)]
           /\ Abandon(o) /\ unsettled' = unsettled \cup {r}
  <2>1. OrchestratorTyped'
    BY <1>1, <1>2, <1>4, Continues DEF OrchestratorTyped, Abandon
  <2>2. /\ r \in Resources => r \in unsettled'
        /\ \A q \in Resources : q /= r => deployed'[q] = deployed[q]
        /\ \A q : q /= r => (q \in unsettled' <=> q \in unsettled)
    BY <1>4 DEF OrchestratorTyped
  <2> HIDE DEF r
  <2> QED BY <1>1, <1>4, <2>1, <2>2, LeavingKeeps DEF Abandon, r
<1>5. CASE /\ deployed' = [deployed EXCEPT ![r] = Effect(o)] /\ stage' = [stage EXCEPT ![o] = "save"]
           /\ UNCHANGED <<todo, version, unsettled>>
  <2>1. OrchestratorTyped'
    BY <1>1, <1>2, <1>5 DEF OrchestratorTyped, Idle, Working
  <2>2. \A p \in Operators : \A q : Working(p, q)' <=> Working(p, q)
    BY <1>1, <1>5 DEF OrchestratorTyped, Working, Idle, Now
  <2>3. \A p \in Operators : Effect(p)' = Effect(p) /\ (p /= o => stage'[p] = stage[p])
    BY <1>5 DEF OrchestratorTyped, Effect
  <2>4. AloneIsOnly'
    BY <1>1, <1>5, <2>2 DEF AloneIsOnly
  <2>5. AloneIsTrue'
    <3> SUFFICES ASSUME NEW q \in Resources, NEW p \in Operators, Working(p, q), p \in alone
                 PROVE  /\ stage'[p] = "save" => deployed'[q] = Effect(p)
                        /\ stage'[p] = "call" /\ q \notin unsettled => deployed'[q] = recorded[q]
      BY <1>1, <1>5, <2>2, <2>3 DEF AloneIsTrue
    <3>1. CASE p = o
      <4>1. q = r /\ deployed'[q] = Effect(o) /\ stage'[o] = "save"
        BY <1>5, <3>1 DEF Working, OrchestratorTyped
      <4> QED BY <3>1, <4>1
    <3>2. CASE p /= o
      <4>1. q /= r
        BY <1>1, <3>2 DEF AloneIsOnly
      <4>2. deployed'[q] = deployed[q]
        BY <1>5, <4>1 DEF OrchestratorTyped
      <4> QED BY <2>3, <3>2, <4>2 DEF AloneIsTrue
    <3> QED BY <3>1, <3>2
  <2>6. StateIsTrue'
    <3>1. \A q \in Resources : q /= r => deployed'[q] = deployed[q]
      BY <1>5 DEF OrchestratorTyped
    <3> QED BY <1>1, <1>5, <2>2, <3>1 DEF StateIsTrue
  <2> QED BY <2>1, <2>4, <2>5, <2>6
<1> QED BY <1>3, <1>4, <1>5 DEF Call, Stays

LEMMA SaveKeeps ==
  ASSUME OrchestratorInv, NEW o \in Operators, Save(o)
  PROVE  OrchestratorInv'
<1> USE DEF OrchestratorInv
<1> DEFINE r == Now(o)
<1>1. Working(o, r) /\ stage[o] = "save" /\ UNCHANGED <<deployed, commands>> /\ alone' = alone \ {o}
  BY DEF Save, Working, Kept
<1>2. Effect(o) \in Nat
  BY DEF Effect, OrchestratorTyped
<1>3. CASE /\ recorded' = Recorded(o) /\ Continue(o, Tail(todo[o]))
           /\ unsettled' = IF o \in alone THEN unsettled \ {r} ELSE unsettled
  <2>1. OrchestratorTyped'
    BY <1>1, <1>2, <1>3, Continues DEF OrchestratorTyped, Recorded
  <2>2. /\ \A q \in Resources : q /= r => recorded'[q] = recorded[q]
        /\ \A q : q /= r => (q \in unsettled' <=> q \in unsettled)
    BY <1>3 DEF OrchestratorTyped, Recorded
  <2>3. r \in Resources => r \in unsettled' \/ (o \in alone /\ deployed[r] = recorded'[r])
    <3>1. (r \in Resources /\ o \in alone) => deployed[r] = Effect(o)
      BY <1>1 DEF AloneIsTrue
    <3>2. r \in Resources => recorded'[r] = Effect(o)
      BY <1>3 DEF OrchestratorTyped, Recorded
    <3>3. (r \in Resources /\ o \notin alone) => r \in unsettled
      BY <1>1 DEF AloneIsOnly
    <3> QED BY <1>3, <3>1, <3>2, <3>3 DEF OrchestratorTyped
  <2>4. o \notin alone => (r \in Resources => r \in unsettled')
    BY <2>3
  <2> HIDE DEF r
  <2> QED BY <1>1, <1>3, <2>1, <2>2, <2>3, <2>4, LeavingKeeps DEF r
<1>4. CASE Abandon(o) /\ unsettled' = unsettled \cup {r} /\ UNCHANGED recorded
  <2>1. OrchestratorTyped'
    BY <1>1, <1>4, Continues DEF OrchestratorTyped, Abandon
  <2>2. /\ r \in Resources => r \in unsettled'
        /\ \A q : q /= r => (q \in unsettled' <=> q \in unsettled)
    BY <1>4 DEF OrchestratorTyped
  <2> HIDE DEF r
  <2> QED BY <1>1, <1>4, <2>1, <2>2, LeavingKeeps DEF Abandon, r
<1> QED BY <1>3, <1>4 DEF Save

LEMMA OrchestratorStep == OrchestratorInv /\ [OrchestratorNext]_orchestratorVars => OrchestratorInv'
<1> SUFFICES ASSUME OrchestratorInv, [OrchestratorNext]_orchestratorVars PROVE OrchestratorInv'
  OBVIOUS
<1>1. ASSUME UNCHANGED <<world, todo, stage, version, commands>> PROVE OrchestratorInv'
  BY <1>1 DEF world, OrchestratorInv, OrchestratorTyped, AloneIsOnly, AloneIsTrue, StateIsTrue, Working,
              Idle, Now, Effect
<1>2. CASE UNCHANGED orchestratorVars
  BY <1>1, <1>2 DEF orchestratorVars
<1>3. ASSUME NEW o \in Operators, NEW B \in Batches, Apply(o, B) PROVE OrchestratorInv'
  BY <1>3, CommandKeeps DEF Apply
<1>4. ASSUME NEW o \in Operators, NEW B \in Batches, CreateRollbackPlan(o, B) PROVE OrchestratorInv'
  BY <1>1, <1>4 DEF CreateRollbackPlan
<1>5. ASSUME NEW o \in Operators, NEW r \in Resources, Delete(o, r) PROVE OrchestratorInv'
  BY <1>5, CommandKeeps DEF Delete
<1>6. ASSUME NEW o \in Operators, ExecuteRollback(o) PROVE OrchestratorInv'
  BY <1>6, CommandKeeps DEF ExecuteRollback
<1> QED BY <1>2, <1>3, <1>4, <1>5, <1>6, CheckKeeps, CallKeeps, SaveKeeps DEF OrchestratorNext

\* Whatever commands overlap and wherever they fail, the state tells of a resource
\* what the provider has, from the first work on it that succeeds alone.
THEOREM StateTellsTrue == OrchestratorSpec => []StateIsTrue
<1>1. OrchestratorInv => StateIsTrue
  BY DEF OrchestratorInv
<1> QED BY <1>1, OrchestratorStarts, OrchestratorStep, PTL DEF OrchestratorSpec
=============================================================================
