------------------------------ MODULE DagExecutor ------------------------------
(***************************************************************************)
(* One call of Execute of the DAG executor (internal/workflow/dag/         *)
(* executor.go) on a graph of graph.go.  Execute takes the levels of the   *)
(* graph one by one; of each step of a level it evaluates the condition    *)
(* and starts a goroutine, which waits for a slot of the executor, retries *)
(* its handler and keeps the slot while it sleeps in between.              *)
(***************************************************************************)
EXTENDS Naturals, FiniteSets, FiniteSetsExt

CONSTANTS
  Ids,          \* node ids
  Graphs,       \* functions from nodes to the ids they depend on
  Conditional,  \* steps with a condition
  Tolerant,     \* steps with continueOn failure
  Attempts,     \* maximal number of attempts of a step, which may be 0
  MaxParallel,
  None

ASSUME DagAssumption ==
  /\ IsFiniteSet(Ids) /\ MaxParallel \in Nat \ {0}
  /\ None \notin {"ok", "error"}
  /\ \A g \in Graphs : DOMAIN g \subseteq Ids /\ \A n \in DOMAIN g : g[n] \subseteq Ids
  /\ Attempts \in [Ids -> Nat]

VARIABLES
  graph,
  lenient,    \* ContinueOnFailure of the executor
  pc, result, \* where Execute is and what it returned
  levelled,   \* nodes of the levels that were started and left
  level,      \* nodes of the current level
  unvisited,  \* those whose condition was not looked at yet
  at,         \* where the goroutine of a step is
  attempt,    \* stepExecution.Attempt
  stepStatus, \* stepExecution.Status
  failed,     \* steps whose goroutine reported an error
  abandoned   \* nodes of levels that were left before their steps ended

goroutines == <<at, attempt, stepStatus, failed>>
config == <<graph, lenient>>
vars == <<config, pc, result, levelled, level, unvisited, goroutines, abandoned>>

-----------------------------------------------------------------------------
(* The graph *)

Nodes == DOMAIN graph

Closes(d, visited, stack) == d \in stack

\* What dfs makes of a node: all that was visited then, and whether it found a
\* cycle.
Dfs[n \in Ids, visited \in SUBSET Ids, stack \in SUBSET Ids] ==
  FoldSet(LAMBDA d, acc :
            CASE acc.cycle -> acc
              [] d \in acc.visited -> [acc EXCEPT !.cycle = Closes(d, acc.visited, stack)]
              [] OTHER -> Dfs[d, acc.visited \cup {d}, stack \cup {d}],
          [visited |-> visited, cycle |-> FALSE], graph[n] \cap Nodes)

DetectCycle ==
  FoldSet(LAMBDA n, acc : IF acc.cycle \/ n \in acc.visited THEN acc
                          ELSE Dfs[n, acc.visited \cup {n}, {n}],
          [visited |-> {}, cycle |-> FALSE], Nodes).cycle

\* A dependency that is no node does not count.
NextLevel == {n \in Nodes \ levelled : graph[n] \cap Nodes \subseteq levelled}

-----------------------------------------------------------------------------
(* Execute and executeLevel *)

Init ==
  /\ graph \in Graphs /\ lenient \in BOOLEAN
  /\ pc = "levels" /\ result = None
  /\ levelled = {} /\ level = {} /\ unvisited = {}
  /\ at = [n \in Ids |-> "none"] /\ attempt = [n \in Ids |-> 0]
  /\ stepStatus = [n \in Ids |-> "pending"]
  /\ failed = {} /\ abandoned = {}

Return(r) ==
  /\ pc' = "returned" /\ result' = r
  /\ UNCHANGED <<levelled, level, unvisited>>

Levels ==
  /\ pc = "levels"
  /\ IF DetectCycle THEN Return("error")
     ELSE pc' = "next" /\ UNCHANGED <<result, levelled, level, unvisited>>
  /\ UNCHANGED <<config, goroutines, abandoned>>

StartLevel ==
  /\ pc = "next"
  /\ IF levelled = Nodes THEN Return("ok")
     ELSE /\ level' = NextLevel /\ unvisited' = NextLevel
          /\ pc' = "visit" /\ UNCHANGED <<result, levelled>>
  /\ UNCHANGED <<config, goroutines, abandoned>>

\* The level ends with or without an error.
Leave(error) ==
  IF error /\ ~lenient THEN Return("error")
  ELSE /\ pc' = "next" /\ levelled' = levelled \cup level
       /\ level' = {} /\ unvisited' = {} /\ UNCHANGED result

Visit(n) == pc = "visit" /\ n \in unvisited

Launch(n) ==
  /\ Visit(n)
  /\ unvisited' = unvisited \ {n} /\ at' = [at EXCEPT ![n] = "queued"]
  /\ UNCHANGED <<config, pc, result, levelled, level, attempt, stepStatus, failed, abandoned>>

Skip(n) ==
  /\ Visit(n) /\ n \in Conditional
  /\ unvisited' = unvisited \ {n} /\ stepStatus' = [stepStatus EXCEPT ![n] = "skipped"]
  /\ UNCHANGED <<config, pc, result, levelled, level, at, attempt, failed, abandoned>>

\* A condition that cannot be resolved: the goroutines of the level that were
\* started go on, and nobody waits for them.
ConditionFails(n) ==
  /\ Visit(n) /\ n \in Conditional
  /\ Leave(TRUE) /\ abandoned' = abandoned \cup level
  /\ UNCHANGED <<config, goroutines>>

\* Mutant: the level does not wait for its steps.
EndedOnceStarted(n) == at[n] /= "queued"

Ended(n) == at[n] \in {"none", "done"}

EndLevel ==
  /\ pc = "visit" /\ unvisited = {} /\ \A n \in level : Ended(n)
  /\ Leave(failed \cap level /= {})
  /\ UNCHANGED <<config, goroutines, abandoned>>

-----------------------------------------------------------------------------
(* executeStep *)

\* Mutant: a goroutine that ends keeps its slot.
SlotsNotFreed == {n \in Ids : at[n] \in {"running", "asleep", "done"}}

Slots == {n \in Ids : at[n] \in {"running", "asleep"}}

control == <<config, pc, result, levelled, level, unvisited, abandoned>>

Finish(n, s, error) ==
  /\ at' = [at EXCEPT ![n] = "done"] /\ stepStatus' = [stepStatus EXCEPT ![n] = s]
  /\ failed' = IF error THEN failed \cup {n} ELSE failed

\* There is no handler of the type, the configuration cannot be resolved, or
\* the loop ends before it begins.
GiveUp(n) ==
  /\ at[n] = "queued" /\ Cardinality(Slots) < MaxParallel
  /\ \/ Finish(n, "failed", TRUE)
     \/ Attempts[n] = 0 /\ Finish(n, stepStatus[n], TRUE)
  /\ UNCHANGED <<control, attempt>>

Try(n) ==
  /\ at' = [at EXCEPT ![n] = "running"]
  /\ attempt' = [attempt EXCEPT ![n] = @ + 1]
  /\ stepStatus' = [stepStatus EXCEPT ![n] = "running"]
  /\ UNCHANGED <<control, failed>>

Begin(n) ==
  /\ at[n] = "queued" /\ Cardinality(Slots) < MaxParallel /\ Attempts[n] > 0
  /\ Try(n)

Retry(n) == at[n] = "asleep" /\ Try(n)

Fail(n) ==
  /\ at[n] = "running" /\ attempt[n] < Attempts[n]
  /\ at' = [at EXCEPT ![n] = "asleep"]
  /\ UNCHANGED <<control, attempt, stepStatus, failed>>

\* Mutant: a step that may fail may end in any way.
TolerableAnyhow(n, s) == n \in Tolerant

Tolerable(n, s) == n \in Tolerant /\ s = "failed"

\* The handler returns an error or not, and a result or none.  The error of an
\* earlier attempt is kept.
Outcome(n) ==
  /\ at[n] = "running"
  /\ \E error \in BOOLEAN, r \in {None, "completed", "failed"} :
       LET s == IF r = None THEN stepStatus[n] ELSE r IN
       /\ error => attempt[n] = Attempts[n]
       /\ IF s = "completed" \/ Tolerable(n, s) THEN Finish(n, s, FALSE)
          ELSE Finish(n, IF error \/ attempt[n] > 1 THEN "failed" ELSE s, TRUE)
  /\ UNCHANGED <<control, attempt>>

Execute == Levels \/ StartLevel \/ EndLevel
ExecuteLevel(n) == Launch(n) \/ Skip(n) \/ ConditionFails(n)
ExecuteStep(n) == GiveUp(n) \/ Begin(n) \/ Retry(n) \/ Fail(n) \/ Outcome(n)

Next == Execute \/ \E n \in Ids : ExecuteLevel(n) \/ ExecuteStep(n)

\* Execute runs, and every goroutine does; a handler returns, its context has a
\* timeout.
Fairness ==
  /\ WF_vars(Execute) /\ WF_vars(\E n \in Ids : ExecuteLevel(n))
  /\ \A n \in Ids : WF_vars(ExecuteStep(n))

Spec == Init /\ [][Next]_vars /\ Fairness

-----------------------------------------------------------------------------
(* Properties *)

TypeOK ==
  /\ graph \in Graphs /\ lenient \in BOOLEAN
  /\ pc \in {"levels", "next", "visit", "returned"} /\ result \in {None, "ok", "error"}
  /\ unvisited \subseteq level /\ level \subseteq Nodes /\ levelled \subseteq Nodes
  /\ at \in [Ids -> {"none", "queued", "running", "asleep", "done"}]
  /\ attempt \in [Ids -> Nat] /\ \A n \in Ids : attempt[n] <= Attempts[n]
  /\ stepStatus \in [Ids -> {"pending", "running", "completed", "failed", "skipped"}]
  /\ failed \subseteq Nodes /\ abandoned \subseteq Nodes

Good(n) ==
  \/ stepStatus[n] \in {"completed", "skipped"}
  \/ n \in Tolerant /\ stepStatus[n] = "failed"

\* A step that runs has dependencies that all ended; unless the executor
\* continues on failure they ended well, and if it does, those of a level whose
\* condition could not be resolved may still run.
DependenciesMet ==
  \A n \in Ids : at[n] /= "none" =>
    \A d \in graph[n] \cap Nodes :
      IF lenient THEN Ended(d) \/ d \in abandoned ELSE Good(d)

\* An executor that does not continue on failure reports success only of a
\* workflow whose steps all ended well, and none of them is still running.
SuccessIsComplete ==
  result = "ok" /\ ~lenient => \A n \in Nodes : Good(n) /\ Ended(n)

\* Execute returns and every goroutine it started ends, those of a level it
\* left as well: the slots do not run out.
Settles == <>[](pc = "returned" /\ \A n \in Ids : Ended(n))
=============================================================================
