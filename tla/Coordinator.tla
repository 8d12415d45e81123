----------------------------- MODULE Coordinator -----------------------------
(***************************************************************************)
(* The engine coordinator of internal/engine: one call of Apply after the  *)
(* other over the registered engines, level by level, one goroutine per    *)
(* engine behind a semaphore, with retries, dependency waits, rollback,    *)
(* the context's timeout and a Stop that may arrive at any moment.         *)
(*                                                                         *)
(* An engine is identified by its uuid.  Its declared dependencies may be  *)
(* uuids or names: the dependency graph (levels, cycles) resolves them as  *)
(* uuids only, the resolver that WaitForDependencies consults resolves     *)
(* them as either, and a dependency that resolves to nothing is ignored.   *)
(***************************************************************************)
EXTENDS Naturals, Sequences, FiniteSets

CONSTANTS
  Engines,           \* uuids of the engines that may be registered
  Names,             \* engine names
  NameOf,            \* [Engines -> Names]
  CategoryOf,        \* [Engines -> category], the second key of findSpec
  DependsOn,         \* [Engines -> SUBSET (Engines \cup Names)]
  Waits,             \* engines whose Apply calls WaitForDependencies
  Staged,            \* engines whose Apply reports Completed and Failed
  Planning,          \* engines whose Apply records a rollback plan
  MaxParallel,       \* CoordinatorConfig.MaxParallelEngines
  RetryCount,        \* CoordinatorConfig.RetryCount
  RollbackOnFailure, \* CoordinatorConfig.RollbackOnFailure
  LongTimeout,       \* the context may outlive the 30 minutes of WaitFor
  MaxApplies,        \* bound: calls of Apply
  MaxStops           \* bound: calls of Stop

ASSUME NamingAssumption ==
  /\ NameOf \in [Engines -> Names]
  /\ DependsOn \in [Engines -> SUBSET (Engines \cup Names)]

ASSUME KindAssumption == Waits \subseteq Engines /\ Staged \subseteq Engines
                           /\ Planning \subseteq Engines

ASSUME ConfigAssumption ==
  /\ MaxParallel \in Nat \ {0}
  /\ RetryCount \in Nat
  /\ RollbackOnFailure \in BOOLEAN /\ LongTimeout \in BOOLEAN
  /\ MaxApplies \in Nat
  /\ MaxStops \in Nat

Keys == Names \cup {CategoryOf[e] : e \in Engines}

\* At least one attempt, whatever the configuration says.
Attempts == IF RetryCount = 0 THEN 1 ELSE RetryCount

EngineStates == {"idle", "waiting", "running", "completed", "failed", "cancelled"}

\* Where the goroutine of an engine is.
Places == {"none", "slot", "start", "waiting", "working", "track", "returned"}

VARIABLES
  registered,  \* c.engines, and the nodes of the dependency graph
  phase,       \* what Apply is doing
  outcome,     \* what the last Apply returned
  specs,       \* the keys of the specs argument of Apply
  levelled,    \* engines of the levels that were executed
  level,       \* engines of the level being executed
  pc,          \* [Engines -> Places]
  attempt,     \* failed attempts of executeEngine in this Apply
  cancelled,   \* c.ctx is done
  engCancelled,\* the context an engine got from Start was cancelled by its Stop
  stopping,    \* engines a call of Stop has still to stop
  state,       \* BaseEngine.state
  hasPlan,     \* engines with a rollback plan, which outlives an Apply
  completed,   \* DependencyGraphResolver.completed, and the keys of c.results
  errors,      \* the keys of c.errors
  order,       \* c.completedEngines
  undo,        \* rollbackCompleted: entries of order not yet visited
  applies,     \* calls of Apply so far
  stops        \* calls of Stop so far

vars == <<registered, phase, outcome, specs, levelled, level, pc, attempt,
          cancelled, engCancelled, stopping, state, hasPlan, completed, errors,
          order, undo, applies, stops>>

-----------------------------------------------------------------------------
(* Dependencies *)

\* The dependencies the graph sees: those that are uuids of its nodes.
GraphDeps(e) == DependsOn[e] \cap registered

\* GetParallelExecutionLevels fails when some engines wait for each other.
HasCycle == \E S \in (SUBSET registered) \ {{}} :
               \A e \in S : GraphDeps(e) \cap S # {}

\* Mutant: every remaining node, its dependencies unchecked.
NextLevelUnchecked == registered \ levelled

\* The next level: engines whose graph dependencies are in earlier levels.
NextLevel == {e \in registered \ levelled : GraphDeps(e) \subseteq levelled}

\* The engines a dependency may resolve to: by name or by uuid.
Providers(dep) == {e \in registered : NameOf[e] = dep \/ e = dep}

\* Mutant: the first satisfied dependency ends the loop of IsSatisfied.
MaySatisfyOne(e) == \E dep \in DependsOn[e] :
                       Providers(dep) # {} => Providers(dep) \cap completed # {}

\* IsSatisfied; map order picks a provider when several share the name.
MaySatisfy(e) == \A dep \in DependsOn[e] :
                    Providers(dep) # {} => Providers(dep) \cap completed # {}

MayMiss(e) == \E dep \in DependsOn[e] : Providers(dep) \ completed # {}

FindSpec(e) == NameOf[e] \in specs \/ CategoryOf[e] \in specs

\* The engines executeLevel starts a goroutine for, over the levels entered.
Scheduled == {e \in levelled \cup level : FindSpec(e)}

Active(e) == pc[e] \in {"start", "waiting", "working", "track"}

ContextDone(e) == cancelled \/ e \in engCancelled

-----------------------------------------------------------------------------
Init ==
  /\ registered = {}
  /\ phase = "idle" /\ outcome = "none" /\ specs = {}
  /\ levelled = {} /\ level = {}
  /\ pc = [e \in Engines |-> "none"]
  /\ attempt = [e \in Engines |-> 0]
  /\ cancelled = FALSE /\ engCancelled = {} /\ stopping = {}
  /\ state = [e \in Engines |-> "idle"]
  /\ hasPlan = {}
  /\ completed = {} /\ errors = {} /\ order = <<>> /\ undo = 0
  /\ applies = 0 /\ stops = 0

\* Engines are registered and removed between calls of Apply; both take the
\* write lock that a running Stop holds for reading.
RegisterEngine(e) ==
  /\ phase = "idle" /\ stopping = {}
  /\ e \notin registered
  /\ registered' = registered \cup {e}
  /\ UNCHANGED <<phase, outcome, specs, levelled, level, pc, attempt, cancelled,
                 engCancelled, stopping, state, hasPlan, completed, errors,
                 order, undo, applies, stops>>

UnregisterEngine(e) ==
  /\ phase = "idle" /\ stopping = {}
  /\ e \in registered
  /\ registered' = registered \ {e}
  /\ UNCHANGED <<phase, outcome, specs, levelled, level, pc, attempt, cancelled,
                 engCancelled, stopping, state, hasPlan, completed, errors,
                 order, undo, applies, stops>>

\* Apply: a fresh context, the state of the previous call dropped, then the
\* levels or the error that there are none.
BeginApply(ks) ==
  /\ phase = "idle" /\ applies < MaxApplies
  /\ applies' = applies + 1
  /\ specs' = ks
  /\ completed' = {} /\ errors' = {} /\ order' = <<>> /\ undo' = 0
  /\ levelled' = {} /\ level' = {}
  /\ pc' = [e \in Engines |-> "none"]
  /\ attempt' = [e \in Engines |-> 0]
  /\ IF HasCycle
     THEN phase' = "idle" /\ outcome' = "cycle" /\ cancelled' = TRUE
     ELSE phase' = "levels" /\ outcome' = "none" /\ cancelled' = FALSE
  /\ UNCHANGED <<registered, engCancelled, stopping, state, hasPlan, stops>>

\* executeLevel up to wg.Wait: a goroutine for each engine with a spec.
BeginLevel ==
  /\ phase = "levels" /\ levelled # registered
  /\ level' = NextLevel
  /\ pc' = [e \in Engines |->
              IF e \in NextLevel /\ FindSpec(e) THEN "slot" ELSE pc[e]]
  /\ phase' = "level"
  /\ UNCHANGED <<registered, outcome, specs, levelled, attempt, cancelled,
                 engCancelled, stopping, state, hasPlan, completed, errors,
                 order, undo, applies, stops>>

\* Mutant: an engine that failed keeps its slot.
FreeSlotLeak == Cardinality({f \in Engines : Active(f) \/ f \in errors}) < MaxParallel

\* The semaphore is held until executeEngine returns, retries included.
FreeSlot == Cardinality({f \in Engines : Active(f)}) < MaxParallel

AcquireSlot(e) ==
  /\ pc[e] = "slot" /\ FreeSlot
  /\ pc' = [pc EXCEPT ![e] = "start"]
  /\ UNCHANGED <<registered, phase, outcome, specs, levelled, level, attempt,
                 cancelled, engCancelled, stopping, state, hasPlan, completed,
                 errors, order, undo, applies, stops>>

\* Initialize, Start and the first check of WaitForDependencies.  Start makes
\* a new context for the engine; no step of it looks whether c.ctx is done.
StartEngine(e) ==
  /\ pc[e] = "start"
  /\ engCancelled' = engCancelled \ {e}
  /\ \/ /\ e \notin Waits \/ MaySatisfy(e)
        /\ pc' = [pc EXCEPT ![e] = "working"]
        /\ state' = [state EXCEPT ![e] = "running"]
     \/ /\ e \in Waits /\ MayMiss(e)
        /\ pc' = [pc EXCEPT ![e] = "waiting"]
        /\ state' = [state EXCEPT ![e] = "waiting"]
  /\ UNCHANGED <<registered, phase, outcome, specs, levelled, level, attempt,
                 cancelled, stopping, hasPlan, completed, errors, order, undo,
                 applies, stops>>

\* WaitFor: the ticker or a notification, and IsSatisfied holds.
DependenciesMet(e) ==
  /\ pc[e] = "waiting" /\ MaySatisfy(e)
  /\ pc' = [pc EXCEPT ![e] = "working"]
  /\ state' = [state EXCEPT ![e] = "running"]
  /\ UNCHANGED <<registered, phase, outcome, specs, levelled, level, attempt,
                 cancelled, engCancelled, stopping, hasPlan, completed, errors,
                 order, undo, applies, stops>>

\* executeEngine after a failed attempt: again, or record the last error,
\* release the slot and leave the level's wait group.
AttemptFailed(e) ==
  /\ attempt' = [attempt EXCEPT ![e] = @ + 1]
  /\ IF attempt[e] + 1 < Attempts
     THEN pc' = [pc EXCEPT ![e] = "start"] /\ UNCHANGED errors
     ELSE pc' = [pc EXCEPT ![e] = "returned"] /\ errors' = errors \cup {e}
  /\ state' = [state EXCEPT ![e] = IF e \in Staged THEN "failed" ELSE @]

\* WaitFor: the engine's context is done, or the 30 minutes are over; the
\* context began before the wait and ends it first unless its timeout is longer.
WaitOver(e) == ContextDone(e) \/ LongTimeout

WaitFails(e) ==
  /\ pc[e] = "waiting" /\ WaitOver(e)
  /\ AttemptFailed(e)
  /\ UNCHANGED <<registered, phase, outcome, specs, levelled, level, cancelled,
                 engCancelled, stopping, hasPlan, completed, order, undo,
                 applies, stops>>

\* Validate, Plan or the plugin fails; the rollback plan is recorded before
\* the plugin is called.  No context reaches the plugin.
WorkFails(e) ==
  /\ pc[e] = "working"
  /\ AttemptFailed(e)
  /\ \/ UNCHANGED hasPlan
     \/ e \in Planning /\ hasPlan' = hasPlan \cup {e}
  /\ UNCHANGED <<registered, phase, outcome, specs, levelled, level, cancelled,
                 engCancelled, stopping, completed, order, undo, applies, stops>>

\* The plugin succeeds; runEngine stores the result and marks the engine
\* completed, which is what the waiting engines see.
WorkSucceeds(e) ==
  /\ pc[e] = "working"
  /\ pc' = [pc EXCEPT ![e] = "track"]
  /\ state' = [state EXCEPT ![e] = IF e \in Staged THEN "completed" ELSE @]
  /\ hasPlan' = IF e \in Planning THEN hasPlan \cup {e} ELSE hasPlan
  /\ completed' = completed \cup {e}
  /\ UNCHANGED <<registered, phase, outcome, specs, levelled, level, attempt,
                 cancelled, engCancelled, stopping, errors, order, undo,
                 applies, stops>>

\* Only then does it append the engine to the rollback list and return.
TrackCompleted(e) ==
  /\ pc[e] = "track"
  /\ order' = Append(order, e)
  /\ pc' = [pc EXCEPT ![e] = "returned"]
  /\ UNCHANGED <<registered, phase, outcome, specs, levelled, level, attempt,
                 cancelled, engCancelled, stopping, state, hasPlan, completed,
                 errors, undo, applies, stops>>

\* Mutant: the wait group is left before the engine is tracked.
LevelReturnedEarly ==
  \A e \in level : FindSpec(e) => pc[e] \in {"track", "returned"}

\* wg.Wait returns.
LevelReturned == \A e \in level : FindSpec(e) => pc[e] = "returned"

\* wg.Wait is over without errors: on to the next level.
LevelSucceeds ==
  /\ phase = "level" /\ LevelReturned
  /\ errors \cap level = {}
  /\ levelled' = levelled \cup level
  /\ level' = {}
  /\ phase' = "levels"
  /\ UNCHANGED <<registered, outcome, specs, pc, attempt, cancelled,
                 engCancelled, stopping, state, hasPlan, completed, errors,
                 order, undo, applies, stops>>

LastEntry == Len(order)

\* wg.Wait is over with errors: roll back, or return them at once.
LevelFails ==
  /\ phase = "level" /\ LevelReturned
  /\ errors \cap level # {}
  /\ IF RollbackOnFailure
     THEN phase' = "rollback" /\ undo' = LastEntry
          /\ UNCHANGED <<outcome, cancelled>>
     ELSE phase' = "idle" /\ outcome' = "failed" /\ cancelled' = TRUE
          /\ UNCHANGED undo
  /\ UNCHANGED <<registered, specs, levelled, level, pc, attempt, engCancelled,
                 stopping, state, hasPlan, completed, errors, order, applies,
                 stops>>

\* One turn of rollbackCompleted: an engine without a plan reports an error,
\* which becomes an event and nothing else.
RollbackNext ==
  /\ phase = "rollback" /\ undo > 0
  /\ undo' = undo - 1
  /\ state' = [state EXCEPT ![order[undo]] =
                 IF order[undo] \in registered \cap hasPlan THEN "idle" ELSE @]
  /\ UNCHANGED <<registered, phase, outcome, specs, levelled, level, pc,
                 attempt, cancelled, engCancelled, stopping, hasPlan, completed,
                 errors, order, applies, stops>>

RollbackReturns ==
  /\ phase = "rollback" /\ undo = 0
  /\ phase' = "idle" /\ outcome' = "failed" /\ cancelled' = TRUE
  /\ UNCHANGED <<registered, specs, levelled, level, pc, attempt, engCancelled,
                 stopping, state, hasPlan, completed, errors, order, undo,
                 applies, stops>>

ApplySucceeds ==
  /\ phase = "levels" /\ levelled = registered
  /\ phase' = "idle" /\ outcome' = "ok" /\ cancelled' = TRUE
  /\ UNCHANGED <<registered, specs, levelled, level, pc, attempt, engCancelled,
                 stopping, state, hasPlan, completed, errors, order, undo,
                 applies, stops>>

\* The timeout of the context, or the caller's own cancellation.
ContextExpires ==
  /\ phase # "idle" /\ ~cancelled
  /\ cancelled' = TRUE
  /\ UNCHANGED <<registered, phase, outcome, specs, levelled, level, pc,
                 attempt, engCancelled, stopping, state, hasPlan, completed,
                 errors, order, undo, applies, stops>>

\* Stop: cancel the context of the Apply in progress, if there is one, then
\* stop every engine under the read lock.
Stop ==
  /\ stops < MaxStops /\ stopping = {}
  /\ stops' = stops + 1
  /\ cancelled' = (cancelled \/ phase # "idle")
  /\ stopping' = registered
  /\ UNCHANGED <<registered, phase, outcome, specs, levelled, level, pc,
                 attempt, engCancelled, state, hasPlan, completed, errors,
                 order, undo, applies>>

StopEngine(e) ==
  /\ e \in stopping
  /\ stopping' = stopping \ {e}
  /\ engCancelled' = engCancelled \cup {e}
  /\ state' = [state EXCEPT ![e] = "cancelled"]
  /\ UNCHANGED <<registered, phase, outcome, specs, levelled, level, pc,
                 attempt, cancelled, hasPlan, completed, errors, order, undo,
                 applies, stops>>

\* What the goroutine of an engine does.
EngineStep(e) ==
  \/ StartEngine(e) \/ DependenciesMet(e) \/ WaitFails(e)
  \/ WorkFails(e) \/ WorkSucceeds(e) \/ TrackCompleted(e)

\* What the goroutine that called Apply does after BeginApply.
ApplyStep ==
  \/ BeginLevel \/ LevelSucceeds \/ LevelFails
  \/ RollbackNext \/ RollbackReturns \/ ApplySucceeds

Next ==
  \/ \E e \in Engines : RegisterEngine(e) \/ UnregisterEngine(e)
  \/ \E ks \in SUBSET Keys : BeginApply(ks)
  \/ ApplyStep
  \/ \E e \in Engines : AcquireSlot(e) \/ EngineStep(e)
  \/ ContextExpires
  \/ Stop
  \/ \E e \in Engines : StopEngine(e)

Spec == Init /\ [][Next]_vars

\* Goroutines run, plugins return, and the context does expire; nobody has to
\* register an engine or to call Apply or Stop.
Fairness ==
  /\ WF_vars(ApplyStep)
  /\ WF_vars(ContextExpires)
  /\ \A e \in Engines : WF_vars(AcquireSlot(e)) /\ WF_vars(EngineStep(e))

FairSpec == Spec /\ Fairness

-----------------------------------------------------------------------------
(* Properties *)

\* Every variable keeps its shape; c.completedEngines names engines only, and
\* the rollback never visits an entry it does not have.
TypeOK ==
  /\ registered \subseteq Engines /\ levelled \subseteq Engines
  /\ level \subseteq Engines /\ engCancelled \subseteq Engines
  /\ stopping \subseteq Engines /\ hasPlan \subseteq Engines
  /\ completed \subseteq Engines /\ errors \subseteq Engines
  /\ phase \in {"idle", "levels", "level", "rollback"}
  /\ outcome \in {"none", "ok", "failed", "cycle"}
  /\ specs \subseteq Keys
  /\ pc \in [Engines -> Places]
  /\ attempt \in [Engines -> Nat]
  /\ cancelled \in BOOLEAN
  /\ state \in [Engines -> EngineStates]
  /\ order \in Seq(Engines)
  /\ undo \in 0..Len(order)
  /\ applies \in Nat /\ stops \in Nat

\* WaitForDependencies keeps its promise under every interleaving: an engine
\* that calls it works, or has worked, only after some engine answering to each
\* of its dependencies completed in this very Apply.
WaitersInOrder ==
  phase # "idle" =>
    \A e \in Waits :
      pc[e] \in {"working", "track"} \/ e \in completed =>
        \A dep \in DependsOn[e] :
          Providers(dep) # {} => Providers(dep) \cap completed # {}

\* The barrier between levels: no engine leaves the queue of the semaphore
\* before every engine it depends on by uuid, if it has a spec, completed.
LevelsInOrder ==
  phase # "idle" =>
    \A e \in registered : pc[e] # "none" =>
      \A d \in GraphDeps(e) : FindSpec(d) => d \in completed

\* Whatever the slots, retries, waits and stops did, when the levels are over
\* each engine that had a spec in a level entered is accounted for exactly once:
\* completed and in the rollback list, or failed in all its attempts.
Accounted ==
  phase = "rollback" \/ (phase = "idle" /\ outcome \in {"ok", "failed"}) =>
    /\ Scheduled = completed \cup errors
    /\ completed \cap errors = {}
    /\ completed = {order[i] : i \in DOMAIN order}
    /\ Len(order) = Cardinality(completed)
    /\ \A e \in Engines : e \in errors <=> attempt[e] = Attempts
    /\ outcome = "ok" <=> errors = {}

\* Rollback and an engine's work never overlap, and a level after a failed one
\* is never entered.
QuietRollback ==
  /\ phase \in {"rollback", "levels", "idle"} => \A e \in Engines : ~Active(e)
  /\ errors \cap levelled = {}

\* The inductive invariant behind LevelsInOrder and QuietRollback.  Goroutines
\* exist only for engines of the level being executed, a level is closed under
\* the dependencies of the graph, and what a finished level scheduled completed.
BarrierInv ==
  /\ \A e \in Engines :
       /\ pc[e] # "none" => FindSpec(e) /\ e \in levelled \cup level
       /\ pc[e] = "slot" \/ Active(e) => phase = "level" /\ e \in level
       /\ pc[e] = "track" => e \in completed
       /\ pc[e] = "returned" => e \in completed \cup errors
  /\ phase = "levels" => level = {}
  /\ level \cap levelled = {} /\ errors \cap levelled = {}
  /\ \A e \in levelled : FindSpec(e) => e \in completed
  /\ phase # "idle" =>
       \A e \in levelled \cup level : e \in registered /\ GraphDeps(e) \subseteq levelled

\* What rollbackCompleted relies on: in c.completedEngines an engine comes after
\* the engines it depends on by uuid, so that it is rolled back before them.
ListFollowsGraph ==
  phase # "idle" =>
    \A i, j \in DOMAIN order : i < j => order[j] \notin GraphDeps(order[i])

\* Apply returns, with waiting engines and however Stop is called: the context
\* ends every wait.
ApplyReturns == (phase # "idle") ~> (phase = "idle")

\* docs/DEVELOPMENT.md:260 "Engines respect dependency ordering": no engine works
\* before its declared dependencies, when they are registered, completed.
DeclaredOrder ==
  phase # "idle" =>
    \A e \in registered : pc[e] \in {"working", "track"} =>
      \A dep \in DependsOn[e] :
        Providers(dep) # {} => Providers(dep) \cap completed # {}
=============================================================================
