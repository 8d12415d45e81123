-------------------------- MODULE CoordinatorProofs --------------------------
(***************************************************************************)
(* Theorems about the coordinator for every set of engines, every naming,  *)
(* every declared dependency and every configuration.                      *)
(***************************************************************************)
EXTENDS Coordinator, SequenceTheorems, FiniteSetTheorems, TLAPS

LEMMA AttemptsPositive == Attempts \in Nat \ {0}
  BY ConfigAssumption DEF Attempts

LEMMA InitTypeOK == Init => TypeOK
<1> SUFFICES ASSUME Init PROVE TypeOK
  OBVIOUS
<1>1. order \in Seq(Engines) /\ undo \in 0..Len(order)
  BY EmptySeq DEF Init
<1>2. cancelled \in BOOLEAN
  BY Zenon DEF Init
<1> QED
  BY <1>1, <1>2 DEF Init, TypeOK, EngineStates, Places

\* A failed attempt disturbs four variables and leaves them well typed.
LEMMA AttemptFailedType ==
  ASSUME TypeOK, NEW e \in Engines, AttemptFailed(e)
  PROVE  /\ attempt' \in [Engines -> Nat]
         /\ pc' \in [Engines -> Places]
         /\ errors' \subseteq Engines
         /\ state' \in [Engines -> EngineStates]
<1>1. attempt' \in [Engines -> Nat]
  BY DEF TypeOK, AttemptFailed
<1>2. pc' = [pc EXCEPT ![e] = "start"] \/ pc' = [pc EXCEPT ![e] = "returned"]
  BY Zenon DEF AttemptFailed
<1>3. errors' = errors \/ errors' = errors \cup {e}
  BY Zenon DEF AttemptFailed
<1>4. state' \in [Engines -> EngineStates]
  BY DEF TypeOK, AttemptFailed, EngineStates
<1> QED
  BY <1>1, <1>2, <1>3, <1>4 DEF TypeOK, Places

\* Every operation keeps the variables in their types.
LEMMA StepTypeOK == TypeOK /\ [Next]_vars => TypeOK'
<1> SUFFICES ASSUME TypeOK, [Next]_vars PROVE TypeOK'
  OBVIOUS
<1> USE DEF TypeOK, EngineStates, Places
<1>1. ASSUME NEW e \in Engines, RegisterEngine(e) \/ UnregisterEngine(e)
      PROVE  TypeOK'
  BY <1>1 DEF RegisterEngine, UnregisterEngine
<1>2. ASSUME NEW ks \in SUBSET Keys, BeginApply(ks) PROVE TypeOK'
  <2>1. order' \in Seq(Engines) /\ undo' \in 0..Len(order')
    BY <1>2, EmptySeq DEF BeginApply
  <2>2. /\ phase' \in {"idle", "levels"} /\ outcome' \in {"cycle", "none"}
        /\ cancelled' \in BOOLEAN
    BY <1>2, Zenon DEF BeginApply
  <2> QED
    BY <1>2, <2>1, <2>2 DEF BeginApply, Keys
<1>3. CASE BeginLevel
  BY <1>3 DEF BeginLevel, NextLevel, Keys
<1>4. CASE LevelSucceeds
  BY <1>4 DEF LevelSucceeds, Keys
<1>5. CASE LevelFails
  <2>1. /\ phase' \in {"rollback", "idle"} /\ outcome' \in {outcome, "failed"}
        /\ cancelled' \in BOOLEAN
    BY <1>5, Zenon DEF LevelFails
  <2>2. undo' \in {undo, Len(order)} /\ order' = order
    BY <1>5, Zenon DEF LevelFails, LastEntry
  <2>3. undo' \in 0..Len(order')
    BY <2>2, LenProperties
  <2> QED
    BY <1>5, <2>1, <2>2, <2>3 DEF LevelFails, Keys
<1>6. CASE RollbackNext
  BY <1>6 DEF RollbackNext, Keys
<1>7. CASE RollbackReturns \/ ApplySucceeds \/ ContextExpires \/ Stop
  <2>1. cancelled' \in BOOLEAN
    BY <1>7, Zenon DEF RollbackReturns, ApplySucceeds, ContextExpires, Stop
  <2> QED
    BY <1>7, <2>1 DEF RollbackReturns, ApplySucceeds, ContextExpires, Stop, Keys
<1>8. ASSUME NEW e \in Engines, AcquireSlot(e) PROVE TypeOK'
  BY <1>8 DEF AcquireSlot, Keys
<1>9. ASSUME NEW e \in Engines, StartEngine(e) PROVE TypeOK'
  BY <1>9 DEF StartEngine, Keys
<1>10. ASSUME NEW e \in Engines, DependenciesMet(e) PROVE TypeOK'
  BY <1>10 DEF DependenciesMet, Keys
<1>11. ASSUME NEW e \in Engines, WaitFails(e) PROVE TypeOK'
  BY <1>11, AttemptFailedType DEF WaitFails, Keys
<1>12. ASSUME NEW e \in Engines, WorkFails(e) PROVE TypeOK'
  BY <1>12, AttemptFailedType DEF WorkFails, Keys
<1>13. ASSUME NEW e \in Engines, WorkSucceeds(e) PROVE TypeOK'
  BY <1>13 DEF WorkSucceeds, Keys
<1>14. ASSUME NEW e \in Engines, TrackCompleted(e) PROVE TypeOK'
  BY <1>14 DEF TrackCompleted, Keys
<1>15. ASSUME NEW e \in Engines, StopEngine(e) PROVE TypeOK'
  BY <1>15 DEF StopEngine, Keys
<1>16. CASE UNCHANGED vars
  BY <1>16 DEF vars, Keys
<1> QED
  BY <1>1, <1>2, <1>3, <1>4, <1>5, <1>6, <1>7, <1>8, <1>9, <1>10, <1>11,
     <1>12, <1>13, <1>14, <1>15, <1>16 DEF Next, ApplyStep, EngineStep

\* Every variable of the coordinator keeps its type.
THEOREM Typed == Spec => []TypeOK
<1>1. Init => TypeOK
  BY InitTypeOK
<1>2. TypeOK /\ [Next]_vars => TypeOK'
  BY StepTypeOK
<1> QED
  BY <1>1, <1>2, PTL DEF Spec

-----------------------------------------------------------------------------
(* The barrier between levels *)

LEMMA InitBarrier == Init => BarrierInv
  BY DEF Init, BarrierInv, Active

\* Each step keeps the barrier: BeginLevel opens a level whose dependencies are
\* behind it, LevelSucceeds closes one that completed, and what happens in
\* between moves the engines of that level only.
LEMMA StepBarrier == TypeOK /\ BarrierInv /\ [Next]_vars => BarrierInv'
<1> SUFFICES ASSUME TypeOK, BarrierInv, [Next]_vars PROVE BarrierInv'
  OBVIOUS
<1> USE DEF BarrierInv, Active
<1>1. ASSUME NEW e \in Engines, RegisterEngine(e) \/ UnregisterEngine(e)
      PROVE  BarrierInv'
  BY <1>1 DEF RegisterEngine, UnregisterEngine, FindSpec, GraphDeps
<1>2. ASSUME NEW ks \in SUBSET Keys, BeginApply(ks) PROVE BarrierInv'
  BY <1>2 DEF BeginApply
<1>3. CASE BeginLevel
  <2>1. level = {} /\ \A e \in Engines : ~Active(e) /\ pc[e] # "slot"
    BY <1>3 DEF BeginLevel
  <2>2. \A e \in NextLevel : /\ e \in registered /\ e \notin levelled
                            /\ GraphDeps(e) \subseteq levelled
    BY DEF NextLevel
  <2>3. ASSUME NEW e \in Engines
        PROVE  \/ e \in NextLevel /\ FindSpec(e) /\ pc'[e] = "slot"
               \/ pc'[e] = pc[e]
    BY <1>3 DEF BeginLevel, TypeOK
  <2> QED
    BY <1>3, <2>1, <2>2, <2>3 DEF BeginLevel, FindSpec, GraphDeps, TypeOK
<1>4. CASE LevelSucceeds
  BY <1>4 DEF LevelSucceeds, LevelReturned, FindSpec, GraphDeps, TypeOK
<1>5. CASE LevelFails
  <2>1. \A e \in Engines : ~Active(e) /\ pc[e] # "slot"
    BY <1>5 DEF LevelFails, LevelReturned
  <2>2. phase' \in {"rollback", "idle"}
    BY <1>5, Zenon DEF LevelFails
  <2> QED
    BY <1>5, <2>1, <2>2 DEF LevelFails, FindSpec, GraphDeps
<1>6. CASE RollbackNext
  BY <1>6 DEF RollbackNext, FindSpec, GraphDeps
<1>7. CASE RollbackReturns \/ ApplySucceeds
  BY <1>7 DEF RollbackReturns, ApplySucceeds, FindSpec, GraphDeps
<1>8. CASE ContextExpires \/ Stop
  BY <1>8 DEF ContextExpires, Stop, FindSpec, GraphDeps
<1>9. ASSUME NEW e \in Engines, AcquireSlot(e) PROVE BarrierInv'
  BY <1>9 DEF AcquireSlot, FindSpec, GraphDeps, TypeOK
<1>10. ASSUME NEW e \in Engines, StartEngine(e) PROVE BarrierInv'
  BY <1>10 DEF StartEngine, FindSpec, GraphDeps, TypeOK
<1>11. ASSUME NEW e \in Engines, DependenciesMet(e) PROVE BarrierInv'
  BY <1>11 DEF DependenciesMet, FindSpec, GraphDeps, TypeOK
<1>12. ASSUME NEW e \in Engines, WaitFails(e) \/ WorkFails(e) PROVE BarrierInv'
  <2>1. /\ Active(e) /\ pc[e] # "track" /\ AttemptFailed(e)
        /\ UNCHANGED <<registered, phase, specs, levelled, level, completed>>
    BY <1>12 DEF WaitFails, WorkFails
  <2>2. \/ pc' = [pc EXCEPT ![e] = "start"] /\ errors' = errors
        \/ pc' = [pc EXCEPT ![e] = "returned"] /\ errors' = errors \cup {e}
    BY <2>1, Zenon DEF AttemptFailed
  <2> QED
    BY <2>1, <2>2 DEF FindSpec, GraphDeps, TypeOK
<1>13. ASSUME NEW e \in Engines, WorkSucceeds(e) PROVE BarrierInv'
  BY <1>13 DEF WorkSucceeds, FindSpec, GraphDeps, TypeOK
<1>14. ASSUME NEW e \in Engines, TrackCompleted(e) PROVE BarrierInv'
  BY <1>14 DEF TrackCompleted, FindSpec, GraphDeps, TypeOK
<1>15. ASSUME NEW e \in Engines, StopEngine(e) PROVE BarrierInv'
  BY <1>15 DEF StopEngine, FindSpec, GraphDeps
<1>16. CASE UNCHANGED vars
  BY <1>16 DEF vars, FindSpec, GraphDeps
<1> QED
  BY <1>1, <1>2, <1>3, <1>4, <1>5, <1>6, <1>7, <1>8, <1>9, <1>10, <1>11,
     <1>12, <1>13, <1>14, <1>15, <1>16 DEF Next, ApplyStep, EngineStep

\* The barrier is an invariant of every execution.
THEOREM Barrier == Spec => []BarrierInv
<1>1. Init => BarrierInv
  BY InitBarrier
<1>2. TypeOK /\ BarrierInv /\ [Next]_vars => BarrierInv'
  BY StepBarrier
<1> QED
  BY <1>1, <1>2, Typed, PTL DEF Spec

\* No engine starts before the engines it depends on by uuid completed.
THEOREM LevelOrder == Spec => []LevelsInOrder
<1>1. TypeOK /\ BarrierInv => LevelsInOrder
  BY DEF TypeOK, BarrierInv, LevelsInOrder, GraphDeps
<1> QED
  BY <1>1, Typed, Barrier, PTL

\* No engine works while completed engines are rolled back, between levels or
\* after Apply returned, and no level is entered after a failed one.
THEOREM RollbackIsQuiet == Spec => []QuietRollback
<1>1. TypeOK /\ BarrierInv => QuietRollback
  BY DEF BarrierInv, QuietRollback
<1> QED
  BY <1>1, Typed, Barrier, PTL

-----------------------------------------------------------------------------
(* The promise of WaitForDependencies *)

\* WaitersInOrder is inductive: while an Apply runs, the registered engines are
\* fixed and completed only grows, so what a wait has seen stays true.
LEMMA StepWaiters == TypeOK /\ WaitersInOrder /\ [Next]_vars => WaitersInOrder'
<1> DEFINE Past(e) == pc[e] \in {"working", "track"} \/ e \in completed
           Kept == /\ phase # "idle" /\ registered' = registered
                   /\ completed \subseteq completed'
                   /\ \A e \in Waits : Past(e)' => Past(e) \/ MaySatisfy(e)
<1> SUFFICES ASSUME TypeOK, WaitersInOrder, [Next]_vars, phase' # "idle"
             PROVE  WaitersInOrder'
  BY DEF WaitersInOrder
<1>1. ASSUME Kept PROVE WaitersInOrder'
  <2> SUFFICES ASSUME NEW e \in Waits, Past(e)', NEW dep \in DependsOn[e],
                      Providers(dep)' # {}
               PROVE  Providers(dep)' \cap completed' # {}
    BY DEF WaitersInOrder
  <2>1. Providers(dep)' = Providers(dep)
    BY <1>1 DEF Providers
  <2>2. Providers(dep) \cap completed # {}
    BY <1>1, <2>1 DEF WaitersInOrder, MaySatisfy
  <2> QED
    BY <1>1, <2>1, <2>2
<1>2. CASE \E ks \in SUBSET Keys : BeginApply(ks)
  BY <1>2, KindAssumption DEF BeginApply, WaitersInOrder
<1>3. ASSUME NEW e \in Engines, RegisterEngine(e) \/ UnregisterEngine(e)
      PROVE  FALSE
  BY <1>3 DEF RegisterEngine, UnregisterEngine
<1>4. ASSUME BeginLevel PROVE Kept
  BY <1>4, KindAssumption DEF BeginLevel, TypeOK
<1>5. ASSUME LevelSucceeds \/ LevelFails \/ RollbackNext PROVE Kept
  BY <1>5 DEF LevelSucceeds, LevelFails, RollbackNext
<1>6. ASSUME RollbackReturns \/ ApplySucceeds PROVE FALSE
  BY <1>6 DEF RollbackReturns, ApplySucceeds
<1>7. ASSUME ContextExpires \/ Stop PROVE Kept
  BY <1>7 DEF ContextExpires, Stop
<1>8. ASSUME UNCHANGED vars PROVE Kept
  BY <1>8 DEF vars
<1>9. ASSUME NEW e \in Engines, AcquireSlot(e) PROVE Kept
  <2>1. phase # "idle" /\ registered' = registered /\ completed' = completed
    BY <1>9 DEF AcquireSlot
  <2> QED
    BY <1>9, <2>1, KindAssumption DEF AcquireSlot, TypeOK
<1>10. ASSUME NEW e \in Engines, StopEngine(e) PROVE Kept
  BY <1>10 DEF StopEngine
<1>11. ASSUME NEW e \in Engines, StartEngine(e) PROVE Kept
  BY <1>11, KindAssumption DEF StartEngine, TypeOK
<1>12. ASSUME NEW e \in Engines, DependenciesMet(e) PROVE Kept
  BY <1>12, KindAssumption DEF DependenciesMet, TypeOK
<1>13. ASSUME NEW e \in Engines, WaitFails(e) \/ WorkFails(e) PROVE Kept
  <2>1. pc' = [pc EXCEPT ![e] = "start"] \/ pc' = [pc EXCEPT ![e] = "returned"]
    BY <1>13, Zenon DEF WaitFails, WorkFails, AttemptFailed
  <2>2. UNCHANGED <<registered, phase, completed>>
    BY <1>13 DEF WaitFails, WorkFails
  <2> QED
    BY <2>1, <2>2, KindAssumption DEF TypeOK
<1>14. ASSUME NEW e \in Engines, WorkSucceeds(e) PROVE Kept
  BY <1>14, KindAssumption DEF WorkSucceeds, TypeOK
<1>15. ASSUME NEW e \in Engines, TrackCompleted(e) PROVE Kept
  BY <1>15, KindAssumption DEF TrackCompleted, TypeOK
<1> QED
  <2> HIDE DEF Kept
  <2> QED
    BY <1>1, <1>2, <1>3, <1>4, <1>5, <1>6, <1>7, <1>8, <1>9, <1>10, <1>11,
       <1>12, <1>13, <1>14, <1>15 DEF Next, ApplyStep, EngineStep

\* Whatever the naming, the slots, the failures and the stops: an engine that
\* waits works only after a provider of each of its dependencies completed.
THEOREM WaitOrder == Spec => []WaitersInOrder
<1>1. Init => WaitersInOrder
  BY DEF Init, WaitersInOrder
<1>2. TypeOK /\ WaitersInOrder /\ [Next]_vars => WaitersInOrder'
  BY StepWaiters
<1> QED
  BY <1>1, <1>2, Typed, PTL DEF Spec

-----------------------------------------------------------------------------
(* The account of an Apply *)

\* An engine has attempts left until it has failed, and what failed or completed
\* has a goroutine that ends.
AttemptInv ==
  \A e \in Engines :
    /\ e \in errors <=> attempt[e] = Attempts
    /\ pc[e] # "returned" \/ e \in completed => attempt[e] < Attempts
    /\ e \in errors => pc[e] = "returned"
    /\ e \in completed => pc[e] \in {"track", "returned"}

\* The engines in the rollback list.
Listed == {e \in completed : pc[e] = "returned"}

ListInv ==
  /\ Listed = {order[i] : i \in DOMAIN order}
  /\ IsFiniteSet(Listed) /\ Cardinality(Listed) = Len(order)
  /\ ListFollowsGraph

\* What an Apply that ends or rolls back has settled.
EndInv ==
  /\ phase # "idle" => outcome = "none"
  /\ phase = "rollback" \/ (phase = "idle" /\ outcome \in {"ok", "failed"}) =>
       Scheduled = completed \cup errors
  /\ phase = "rollback" \/ outcome = "failed" => errors # {}
  /\ outcome = "ok" => errors = {}

LEMMA StepAttempt == TypeOK /\ BarrierInv /\ AttemptInv /\ [Next]_vars => AttemptInv'
<1> SUFFICES ASSUME TypeOK, BarrierInv, AttemptInv, [Next]_vars PROVE AttemptInv'
  OBVIOUS
<1> USE AttemptsPositive DEF AttemptInv
<1>1. ASSUME UNCHANGED <<errors, attempt, pc, completed>> PROVE AttemptInv'
  BY <1>1
<1>2. ASSUME NEW ks \in SUBSET Keys, BeginApply(ks) PROVE AttemptInv'
  BY <1>2 DEF BeginApply
<1>3. CASE BeginLevel
  <2>1. ASSUME NEW e \in Engines, pc'[e] # pc[e] PROVE e \notin levelled \cup level
    BY <1>3, <2>1 DEF BeginLevel, NextLevel, TypeOK, BarrierInv
  <2>2. ASSUME NEW e \in Engines, pc'[e] # pc[e]
        PROVE  pc[e] = "none" /\ e \notin errors /\ e \notin completed
    BY <2>1, <2>2 DEF BarrierInv
  <2> QED  BY <1>3, <2>2 DEF BeginLevel, TypeOK
<1>4. ASSUME NEW e \in Engines, AcquireSlot(e) PROVE AttemptInv'
  BY <1>4 DEF AcquireSlot, TypeOK
<1>5. ASSUME NEW e \in Engines, StartEngine(e) \/ DependenciesMet(e) PROVE AttemptInv'
  BY <1>5 DEF StartEngine, DependenciesMet, TypeOK
<1>6. ASSUME NEW e \in Engines, WaitFails(e) \/ WorkFails(e) PROVE AttemptInv'
  <2>1. /\ pc[e] \in {"waiting", "working"} /\ AttemptFailed(e) /\ completed' = completed
        /\ e \notin completed /\ e \notin errors /\ attempt[e] < Attempts
    BY <1>6 DEF WaitFails, WorkFails
  <2>2. /\ attempt' = [attempt EXCEPT ![e] = attempt[e] + 1]
        /\ \/ /\ attempt[e] + 1 < Attempts
              /\ pc' = [pc EXCEPT ![e] = "start"] /\ errors' = errors
           \/ /\ ~(attempt[e] + 1 < Attempts)
              /\ pc' = [pc EXCEPT ![e] = "returned"] /\ errors' = errors \cup {e}
    BY <2>1, Zenon DEF AttemptFailed
  <2>3. attempt[e] \in Nat
    BY DEF TypeOK
  <2> QED  BY <2>1, <2>2, <2>3 DEF TypeOK
<1>7. ASSUME NEW e \in Engines, WorkSucceeds(e) PROVE AttemptInv'
  BY <1>7 DEF WorkSucceeds, TypeOK
<1>8. ASSUME NEW e \in Engines, TrackCompleted(e) PROVE AttemptInv'
  <2>1. e \in completed
    BY <1>8 DEF TrackCompleted, BarrierInv
  <2> QED  BY <1>8, <2>1 DEF TrackCompleted, TypeOK
<1>9. CASE LevelSucceeds \/ LevelFails \/ RollbackNext \/ RollbackReturns \/ ApplySucceeds
  BY <1>1, <1>9 DEF LevelSucceeds, LevelFails, RollbackNext, RollbackReturns, ApplySucceeds
<1>10. CASE ContextExpires \/ Stop \/ UNCHANGED vars
  BY <1>1, <1>10 DEF ContextExpires, Stop, vars
<1>11. ASSUME NEW e \in Engines, RegisterEngine(e) \/ UnregisterEngine(e) \/ StopEngine(e)
       PROVE  AttemptInv'
  BY <1>1, <1>11 DEF RegisterEngine, UnregisterEngine, StopEngine
<1> QED
  BY <1>2, <1>3, <1>4, <1>5, <1>6, <1>7, <1>8, <1>9, <1>10, <1>11
  DEF Next, ApplyStep, EngineStep

\* Steps that list nobody.
LEMMA ListLasts ==
  ASSUME ListInv, UNCHANGED <<order, Listed>>,
         phase' # "idle" => phase # "idle" /\ registered' = registered
  PROVE  ListInv'
<1>1. phase' # "idle" => \A e \in Engines : GraphDeps(e)' = GraphDeps(e)
  BY DEF GraphDeps
<1>2. ListFollowsGraph'
  BY <1>1 DEF ListInv, ListFollowsGraph, GraphDeps
<1> QED  BY <1>2 DEF ListInv

LEMMA StepList == TypeOK /\ BarrierInv /\ AttemptInv /\ ListInv /\ [Next]_vars => ListInv'
<1> SUFFICES ASSUME TypeOK, BarrierInv, AttemptInv, ListInv, [Next]_vars PROVE ListInv'
  OBVIOUS
<1>1. ASSUME NEW ks \in SUBSET Keys, BeginApply(ks) PROVE ListInv'
  <2>1. order' = <<>> /\ Listed' = {}
    BY <1>1 DEF BeginApply, Listed
  <2>2. {order'[i] : i \in DOMAIN order'} = {}
    BY <2>1
  <2> QED  BY <2>1, <2>2, FS_EmptySet DEF ListInv, ListFollowsGraph
<1>2. ASSUME NEW e \in Engines, TrackCompleted(e) PROVE ListInv'
  <2>1. /\ order' = Append(order, e) /\ pc' = [pc EXCEPT ![e] = "returned"] /\ pc[e] = "track"
        /\ UNCHANGED <<registered, phase, completed>>
    BY <1>2 DEF TrackCompleted
  <2>2. /\ e \in completed /\ e \in level /\ phase = "level"
    BY <2>1 DEF BarrierInv, Active
  <2>3. e \notin Listed /\ Listed' = Listed \cup {e}
    BY <2>1, <2>2 DEF Listed, TypeOK
  <2>4. /\ order \in Seq(Engines) /\ Len(order') = Len(order) + 1
        /\ DOMAIN order = 1..Len(order) /\ DOMAIN order' = 1..(Len(order) + 1)
        /\ \A i \in 1..Len(order) : order'[i] = order[i]
        /\ order'[Len(order) + 1] = e /\ Len(order) \in Nat
    BY <2>1, AppendProperties, LenProperties DEF TypeOK
  <2>5. Listed' = {order'[i] : i \in DOMAIN order'}
    <3>1. Listed = {order[i] : i \in 1..Len(order)}
      BY <2>4 DEF ListInv
    <3>2. {order'[i] : i \in DOMAIN order'} = {order[i] : i \in 1..Len(order)} \cup {e}
      <4>1. \A i \in 1..(Len(order) + 1) : i \in 1..Len(order) \/ i = Len(order) + 1
        BY <2>4
      <4>2. Len(order) + 1 \in 1..(Len(order) + 1) /\ 1..Len(order) \subseteq 1..(Len(order) + 1)
        BY <2>4
      <4> QED  BY <2>4, <4>1, <4>2
    <3> QED  BY <2>3, <3>1, <3>2
  <2>6. IsFiniteSet(Listed') /\ Cardinality(Listed') = Len(order')
    <3>1. IsFiniteSet(Listed) /\ Cardinality(Listed) = Len(order)
      BY DEF ListInv
    <3>2. /\ IsFiniteSet(Listed \cup {e})
          /\ Cardinality(Listed \cup {e}) = IF e \in Listed THEN Cardinality(Listed)
                                           ELSE Cardinality(Listed) + 1
      BY <3>1, FS_AddElement
    <3> HIDE DEF Listed
    <3> QED  BY <2>3, <2>4, <3>1, <3>2
  <2>7. ASSUME NEW i \in 1..Len(order) PROVE e \notin GraphDeps(order[i])
    <3>1. order[i] \in Listed
      BY <2>4 DEF ListInv
    <3>2. order[i] \in Engines /\ order[i] \in levelled \cup level
      BY <3>1 DEF Listed, TypeOK, BarrierInv
    <3>3. GraphDeps(order[i]) \subseteq levelled
      BY <2>2, <3>2 DEF BarrierInv
    <3> QED  BY <2>2, <3>3 DEF BarrierInv
  <2>8. ListFollowsGraph'
    <3> SUFFICES ASSUME NEW i \in 1..(Len(order) + 1), NEW j \in 1..(Len(order) + 1), i < j
                 PROVE  order'[j] \notin GraphDeps(order'[i])
      BY <2>1, <2>4 DEF ListFollowsGraph, GraphDeps
    <3>1. i \in 1..Len(order) /\ order'[i] = order[i]
      BY <2>4
    <3>2. CASE j = Len(order) + 1
      BY <2>4, <2>7, <3>1, <3>2
    <3>3. CASE j # Len(order) + 1
      <4>1. j \in 1..Len(order) /\ order'[j] = order[j] /\ phase # "idle"
        BY <2>2, <2>4, <3>3
      <4>2. order[j] \notin GraphDeps(order[i])
        BY <2>4, <3>1, <4>1 DEF ListInv, ListFollowsGraph
      <4> QED  BY <3>1, <4>1, <4>2
    <3> QED  BY <3>2, <3>3
  <2> QED  BY <2>5, <2>6, <2>8 DEF ListInv
<1>3. CASE BeginLevel
  <2>1. ASSUME NEW e \in Engines PROVE e \in Listed' <=> e \in Listed
    <3>1. CASE e \in NextLevel /\ FindSpec(e)
      <4>1. e \notin levelled \cup level
        BY <1>3, <3>1 DEF BeginLevel, NextLevel, BarrierInv
      <4>2. pc[e] = "none" /\ pc'[e] = "slot"
        BY <1>3, <3>1, <4>1 DEF BeginLevel, BarrierInv, TypeOK
      <4> QED  BY <4>2 DEF Listed
    <3>2. CASE ~(e \in NextLevel /\ FindSpec(e))
      BY <1>3, <3>2 DEF BeginLevel, Listed
    <3> QED  BY <3>1, <3>2
  <2>2. Listed' = Listed
    BY <1>3, <2>1 DEF BeginLevel, Listed, TypeOK
  <2> QED  BY <1>3, <2>2, ListLasts DEF BeginLevel
<1>4. ASSUME NEW e \in Engines,
             AcquireSlot(e) \/ StartEngine(e) \/ DependenciesMet(e) \/ WorkSucceeds(e)
      PROVE  ListInv'
  <2>1. /\ phase' = phase /\ registered' = registered /\ order' = order
        /\ e \notin completed \/ pc[e] # "returned"
    BY <1>4 DEF AcquireSlot, StartEngine, DependenciesMet, WorkSucceeds
  <2>2. pc'[e] # "returned" /\ pc[e] # "returned" /\ completed' \in {completed, completed \cup {e}}
        /\ \A f \in Engines : f # e => pc'[f] = pc[f]
    BY <1>4 DEF AcquireSlot, StartEngine, DependenciesMet, WorkSucceeds, TypeOK
  <2>3. Listed' = Listed
    BY <2>2 DEF Listed, TypeOK
  <2>4. phase = "level"
    BY <1>4 DEF AcquireSlot, StartEngine, DependenciesMet, WorkSucceeds, BarrierInv, Active
  <2> QED  BY <2>1, <2>3, <2>4, ListLasts
<1>5. ASSUME NEW e \in Engines, WaitFails(e) \/ WorkFails(e) PROVE ListInv'
  <2>1. /\ pc[e] \in {"waiting", "working"} /\ AttemptFailed(e)
        /\ UNCHANGED <<completed, order, phase, registered>>
    BY <1>5 DEF WaitFails, WorkFails
  <2>2. e \notin completed /\ phase = "level"
    BY <2>1 DEF AttemptInv, BarrierInv, Active
  <2>3. pc' = [pc EXCEPT ![e] = "start"] \/ pc' = [pc EXCEPT ![e] = "returned"]
    BY <2>1, Zenon DEF AttemptFailed
  <2>4. Listed' = Listed
    BY <2>1, <2>2, <2>3 DEF Listed, TypeOK
  <2> QED  BY <2>1, <2>2, <2>4, ListLasts
<1>6. CASE LevelSucceeds \/ LevelFails \/ RollbackNext \/ RollbackReturns \/ ApplySucceeds
  BY <1>6, ListLasts
  DEF LevelSucceeds, LevelFails, RollbackNext, RollbackReturns, ApplySucceeds, Listed
<1>7. CASE ContextExpires \/ Stop \/ UNCHANGED vars
  BY <1>7, ListLasts DEF ContextExpires, Stop, vars, Listed
<1>8. ASSUME NEW e \in Engines, RegisterEngine(e) \/ UnregisterEngine(e) \/ StopEngine(e)
      PROVE  ListInv'
  BY <1>8, ListLasts DEF RegisterEngine, UnregisterEngine, StopEngine, Listed
<1> QED
  BY <1>1, <1>2, <1>3, <1>4, <1>5, <1>6, <1>7, <1>8 DEF Next, ApplyStep, EngineStep

LEMMA StepEnd == TypeOK /\ BarrierInv /\ AttemptInv /\ EndInv /\ [Next]_vars => EndInv'
<1> SUFFICES ASSUME TypeOK, BarrierInv, AttemptInv, EndInv, [Next]_vars PROVE EndInv'
  OBVIOUS
<1>1. ASSUME NEW ks \in SUBSET Keys, BeginApply(ks) PROVE EndInv'
  BY <1>1, Zenon DEF BeginApply, EndInv
<1>2. CASE BeginLevel \/ LevelSucceeds
  BY <1>2 DEF BeginLevel, LevelSucceeds, EndInv
<1>3. CASE LevelFails
  <2>1. Scheduled = completed \cup errors
    <3>1. ASSUME NEW e \in Scheduled PROVE e \in completed \cup errors
      BY <1>3, <3>1 DEF LevelFails, LevelReturned, Scheduled, BarrierInv, TypeOK
    <3>2. ASSUME NEW e \in completed \cup errors PROVE e \in Scheduled
      BY <3>2 DEF AttemptInv, Scheduled, BarrierInv, TypeOK
    <3> QED  BY <3>1, <3>2
  <2>2. UNCHANGED <<specs, levelled, level, completed, errors>> /\ errors # {}
    BY <1>3 DEF LevelFails
  <2>3. Scheduled' = Scheduled
    BY <2>2 DEF Scheduled, FindSpec
  <2>4. /\ phase = "level"
        /\ \/ phase' = "rollback" /\ outcome' = outcome
           \/ phase' = "idle" /\ outcome' = "failed"
    <3>1. CASE RollbackOnFailure
      <4>1. phase = "level" /\ phase' = "rollback" /\ UNCHANGED <<outcome, cancelled>>
        BY <1>3, <3>1, Zenon DEF LevelFails
      <4> QED  BY <4>1
    <3>2. CASE ~RollbackOnFailure  BY <1>3, <3>2 DEF LevelFails
    <3> QED  BY <3>1, <3>2
  <2> QED  BY <2>1, <2>2, <2>3, <2>4 DEF EndInv
<1>4. CASE ApplySucceeds
  <2>1. level = {} /\ errors = {} /\ Scheduled = completed
    <3>1. level = {}
      BY <1>4 DEF ApplySucceeds, BarrierInv
    <3>2. ASSUME NEW e \in completed \cup errors PROVE e \in Scheduled
      BY <3>2 DEF AttemptInv, Scheduled, BarrierInv, TypeOK
    <3> QED  BY <3>1, <3>2 DEF Scheduled, BarrierInv, TypeOK
  <2> QED  BY <1>4, <2>1 DEF ApplySucceeds, EndInv, Scheduled, FindSpec
<1>5. CASE RollbackNext \/ RollbackReturns
  BY <1>5 DEF RollbackNext, RollbackReturns, EndInv, Scheduled, FindSpec
<1>6. ASSUME NEW e \in Engines, AcquireSlot(e) \/ EngineStep(e) PROVE EndInv'
  <2>1. phase = "level" /\ phase' = "level" /\ outcome' = outcome
    BY <1>6
    DEF AcquireSlot, EngineStep, StartEngine, DependenciesMet, WaitFails, WorkFails, WorkSucceeds,
        TrackCompleted, BarrierInv, Active
  <2> QED  BY <2>1 DEF EndInv
<1>7. CASE ContextExpires \/ Stop \/ UNCHANGED vars
  BY <1>7 DEF ContextExpires, Stop, vars, EndInv, Scheduled, FindSpec
<1>8. ASSUME NEW e \in Engines, RegisterEngine(e) \/ UnregisterEngine(e) \/ StopEngine(e)
      PROVE  EndInv'
  BY <1>8 DEF RegisterEngine, UnregisterEngine, StopEngine, EndInv, Scheduled, FindSpec
<1> QED
  BY <1>1, <1>2, <1>3, <1>4, <1>5, <1>6, <1>7, <1>8 DEF Next, ApplyStep

LEMMA AccountHolds == Spec => [](AttemptInv /\ ListInv /\ EndInv)
<1>1. Init => AttemptInv /\ ListInv /\ EndInv
  <2> SUFFICES ASSUME Init PROVE AttemptInv /\ ListInv /\ EndInv
    OBVIOUS
  <2>1. AttemptInv
    BY AttemptsPositive DEF Init, AttemptInv
  <2>2. Listed = {} /\ order = <<>>
    BY DEF Init, Listed
  <2>3. {order[i] : i \in DOMAIN order} = {}
    BY <2>2
  <2>4. ListInv
    BY <2>2, <2>3, FS_EmptySet DEF ListInv, ListFollowsGraph
  <2>5. EndInv
    BY DEF Init, EndInv
  <2> QED  BY <2>1, <2>4, <2>5
<1>2. TypeOK /\ BarrierInv /\ (AttemptInv /\ ListInv /\ EndInv) /\ [Next]_vars
        => (AttemptInv /\ ListInv /\ EndInv)'
  BY StepAttempt, StepList, StepEnd
<1> QED  BY <1>1, <1>2, Typed, Barrier, PTL DEF Spec

\* In the list that a rollback goes through backwards, no engine comes before one
\* it depends on by uuid.
THEOREM ListOrder == Spec => []ListFollowsGraph
<1>1. ListInv => ListFollowsGraph
  BY DEF ListInv
<1> QED  BY <1>1, AccountHolds, PTL

\* When an Apply ends or rolls back, each engine it scheduled is completed and
\* listed once or failed in all its attempts, whatever the slots, the retries, the
\* waits and the stops did.
THEOREM Account == Spec => []Accounted
<1>1. TypeOK /\ BarrierInv /\ AttemptInv /\ ListInv /\ EndInv => Accounted
  <2> SUFFICES ASSUME TypeOK, BarrierInv, AttemptInv, ListInv, EndInv,
                      phase = "rollback" \/ (phase = "idle" /\ outcome \in {"ok", "failed"})
               PROVE  /\ Scheduled = completed \cup errors
                      /\ completed \cap errors = {}
                      /\ completed = {order[i] : i \in DOMAIN order}
                      /\ Len(order) = Cardinality(completed)
                      /\ \A e \in Engines : e \in errors <=> attempt[e] = Attempts
                      /\ outcome = "ok" <=> errors = {}
    BY DEF Accounted
  <2>1. Listed = completed
    BY DEF Listed, AttemptInv, BarrierInv, Active, TypeOK
  <2>2. completed \cap errors = {}
    BY AttemptsPositive DEF AttemptInv, TypeOK
  <2>3. outcome = "ok" <=> errors = {}
    BY DEF EndInv
  <2> QED  BY <2>1, <2>2, <2>3 DEF ListInv, EndInv, AttemptInv
<1> QED  BY <1>1, Typed, Barrier, AccountHolds, PTL
=============================================================================
