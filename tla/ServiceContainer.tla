--------------------------- MODULE ServiceContainer ---------------------------
(***************************************************************************)
(* The dependency injection container (pkg/services/container.go) without  *)
(* scopes: callers resolve services whose factories run outside the lock,  *)
(* while the container is started and stopped.  Every instance here has a  *)
(* life cycle of its own.                                                  *)
(***************************************************************************)
EXTENDS Naturals, FiniteSets, SequencesExt

CONSTANTS
  Services,      \* those that have a factory or are registered as instances
  Resolvers,     \* the callers that resolve services
  MaxInstances,  \* bound on the instances of a behaviour
  MaxStarts,     \* bound on the container's list of what it started
  MaxUnstopped,  \* bound on the Stops of an instance that give an error
  Nil

ASSUME ContainerAssumption ==
  IsFiniteSet(Services) /\ {MaxInstances, MaxStarts, MaxUnstopped} \subseteq Nat /\ Nil \notin Nat

VARIABLES
  made,        \* the number of instances so far
  singletons,  \* the instance of each service, or none
  getting,     \* what each caller resolves, and what its factory returned
  instances,   \* what the container started, in order
  started,
  up,          \* how often each instance was started and not stopped again
  unstopped    \* history: how often its Stop gave an error instead

containerVars == <<made, singletons, getting, instances, started, up, unstopped>>

Idle == [service |-> Nil, instance |-> Nil]

ContainerInit ==
  /\ made = 0
  /\ singletons = [s \in Services |-> Nil]
  /\ getting = [c \in Resolvers |-> Idle]
  /\ instances = <<>> /\ started = FALSE
  /\ up = [i \in 1..MaxInstances |-> 0] /\ unstopped = up

RegisterSingleton(s) ==
  /\ singletons[s] = Nil /\ made < MaxInstances
  /\ made' = made + 1
  /\ singletons' = [singletons EXCEPT ![s] = made + 1]
  /\ UNCHANGED <<getting, instances, started, up, unstopped>>

\* Get until the lock is released for the factory; what exists is returned.
BeginGet(c, s) ==
  /\ getting[c] = Idle
  /\ IF singletons[s] /= Nil
     THEN UNCHANGED getting
     ELSE getting' = [getting EXCEPT ![c].service = s]
  /\ UNCHANGED <<made, singletons, instances, started, up, unstopped>>

\* The factory answers, or the caller gets its error.
FactoryAnswers(c) ==
  /\ getting[c].service /= Nil /\ getting[c].instance = Nil
  /\ \/ /\ made < MaxInstances /\ made' = made + 1
        /\ getting' = [getting EXCEPT ![c].instance = made + 1]
     \/ getting' = [getting EXCEPT ![c] = Idle] /\ UNCHANGED made
  /\ UNCHANGED <<singletons, instances, started, up, unstopped>>

StoreSingleton(c) ==
  LET s == getting[c].service
      i == getting[c].instance IN
    /\ i /= Nil
    /\ singletons' = [singletons EXCEPT ![s] = i]
    /\ getting' = [getting EXCEPT ![c] = Idle]
    /\ UNCHANGED <<made, instances, started, up, unstopped>>

Resolved == {singletons[s] : s \in Services} \ {Nil}

\* Mutant: what was started before the failure is not remembered.
ListedForgetting(order, k, ok) == IF ok THEN instances \o order ELSE instances

Listed(order, k, ok) == instances \o SubSeq(order, 1, k)

\* The instances are started in any order, until one fails.  Those that an earlier
\* attempt started are started again.
Start ==
  /\ IF started THEN UNCHANGED <<instances, started, up>>
     ELSE \E order \in SetToSeqs(Resolved), k \in 0..Cardinality(Resolved) :
       LET ok == k = Len(order) IN
         /\ Len(instances) + k <= MaxStarts
         /\ instances' = Listed(order, k, ok) /\ started' = ok
         /\ up' = [i \in DOMAIN up |-> IF \E j \in 1..k : order[j] = i THEN up[i] + 1 ELSE up[i]]
  /\ UNCHANGED <<made, singletons, getting, unstopped>>

\* How often the list has an instance, in all of its places or in some.
Times(i, places) == Cardinality({j \in places : instances[j] = i})
Places == 1..Len(instances)

\* Each is stopped as often as the list has it.  Where that gives an error it runs on,
\* and is forgotten with the others.
StopServices ==
  /\ IF ~started THEN UNCHANGED <<instances, started, up, unstopped>>
     ELSE /\ \E failing \in SUBSET Places :
              /\ \A i \in DOMAIN up : unstopped[i] + Times(i, failing) <= MaxUnstopped
              /\ unstopped' = [i \in DOMAIN up |-> unstopped[i] + Times(i, failing)]
              /\ up' = [i \in DOMAIN up |->
                         LET stops == Times(i, Places \ failing) IN
                           IF up[i] > stops THEN up[i] - stops ELSE 0]
          /\ instances' = <<>> /\ started' = FALSE
  /\ UNCHANGED <<made, singletons, getting>>

ContainerNext ==
  \/ \E s \in Services : RegisterSingleton(s) \/ \E c \in Resolvers : BeginGet(c, s)
  \/ \E c \in Resolvers : FactoryAnswers(c) \/ StoreSingleton(c)
  \/ Start \/ StopServices

ContainerSpec == ContainerInit /\ [][ContainerNext]_containerVars

-----------------------------------------------------------------------------
(* Properties *)

\* When a container that runs is stopped nothing it ever started runs any longer but
\* what gave an error to a Stop: not what an attempt to start left behind, nor an
\* instance that another caller's replaced since.
StopsWhatItStarted ==
  [][(started /\ ~started') => \A i \in DOMAIN up : up'[i] <= unstopped'[i]]_containerVars
=============================================================================
