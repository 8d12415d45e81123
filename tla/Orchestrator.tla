------------------------------- MODULE Orchestrator -------------------------------
(***************************************************************************)
(* The sequential orchestrator behind the commands apply, delete and       *)
(* rollback (internal/orchestrator): it takes resources in the order of    *)
(* their dependencies and for each calls a plugin and then writes the      *)
(* state.  Commands run in processes of their own and take no lock.        *)
(***************************************************************************)
EXTENDS Naturals, Sequences, FiniteSets, SequencesExt

CONSTANTS
  Resources,    \* names
  Batches,      \* the sets of resources that commands name
  References,   \* the possible dependencies: resource to resources
  Operators,    \* each runs one command at a time
  MaxCommands   \* bound on the commands

ASSUME OrchestratorAssumption ==
  /\ IsFiniteSet(Resources) /\ MaxCommands \in Nat
  /\ Batches \subseteq (SUBSET Resources) \ {{}}
  /\ References \subseteq [Resources -> SUBSET Resources]

VARIABLES
  references,
  deployed,   \* what the provider has of a resource: the command that made it, or 0
  recorded,   \* and the state store
  todo,       \* of a command: the resources left, and what to do with each
  stage,      \* of the first of them: "check", "call" the plugin, "save" the state
  version,    \* the number of the command
  rollback,   \* the rollback plan: the names and what was recorded of them
  alone,        \* history: the operators whose work on a resource met no other's
  unsettled,    \* history: the resources work on which failed halfway or overlapped,
                \* and has not succeeded alone since
  commands

world == <<deployed, recorded, alone, unsettled>>
orchestratorVars ==
  <<references, world, todo, stage, version, rollback, commands>>

OrchestratorInit ==
  /\ references \in References
  /\ deployed = [r \in Resources |-> 0] /\ recorded = [r \in Resources |-> 0]
  /\ todo = [o \in Operators |-> <<>>] /\ stage = [o \in Operators |-> "check"]
  /\ version = [o \in Operators |-> 0] /\ rollback = [o \in Operators |-> <<>>]
  /\ unsettled = {} /\ alone = {} /\ commands = 0

-----------------------------------------------------------------------------
(* The dependency resolver *)

Needed(B, n) == SetToSeq(references[n] \cap B)

Added(sorted, n) == Append(sorted, n)

\* The depth-first search: what a resource depends on, and then the resource.
Search[B \in SUBSET Resources, sorted \in Seq(Resources), n \in Resources] ==
  IF n \in ToSet(sorted) THEN sorted
  ELSE Added(FoldLeft(LAMBDA s, d : Search[B, s, d], sorted, Needed(B, n)), n)

\* The search for a cycle below n: path is the recursion stack.
CycleFrom[B \in SUBSET Resources, path \in SUBSET Resources, n \in Resources] ==
  \E d \in references[n] \cap B : d \in path \/ CycleFrom[B, path \cup {d}, d]

HasCycle(B) == \E n \in B : CycleFrom[B, {n}, n]

\* A map is walked in any order.
Resolve(B) == {FoldLeft(LAMBDA s, n : Search[B, s, n], <<>>, p) : p \in SetToSeqs(B)}

-----------------------------------------------------------------------------
(* Commands *)

Idle(o) == todo[o] = <<>>
Item(what, r) == [what |-> what, name |-> r]
Now(o) == Head(todo[o]).name
Working(o, r) == ~Idle(o) /\ stage[o] # "check" /\ Now(o) = r

Command(o, items) ==
  /\ Idle(o) /\ commands < MaxCommands /\ commands' = commands + 1
  /\ version' = [version EXCEPT ![o] = commands + 1]
  /\ todo' = [todo EXCEPT ![o] = items]
  /\ UNCHANGED <<references, world, stage>>

Apply(o, B) ==
  /\ ~HasCycle(B)
  /\ \E order \in Resolve(B) : Command(o, [i \in DOMAIN order |-> Item("apply", order[i])])
  /\ UNCHANGED rollback

Delete(o, r) ==
  /\ Command(o, <<Item("delete", r)>>)
  /\ UNCHANGED rollback

CreateRollbackPlan(o, B) ==
  /\ Idle(o)
  /\ LET order == SetToSeq(B) IN
       rollback' = [rollback EXCEPT ![o] =
                     [i \in DOMAIN order |-> [name |-> order[i], was |-> recorded[order[i]]]]]
  /\ UNCHANGED <<references, world, todo, stage, version, commands>>

\* In the reverse order of the plan, as often as one asks for it.  What was not there
\* is deleted, and the rest restored.
ExecuteRollback(o) ==
  /\ rollback[o] # <<>>
  /\ Command(o, Reverse([i \in DOMAIN rollback[o] |->
                  Item(IF rollback[o][i].was = 0 THEN "delete" ELSE "restore",
                       rollback[o][i].name)]))
  /\ UNCHANGED rollback

\* What a command does next.  The version of one that ended is not kept.
Continue(o, items) ==
  /\ todo' = [todo EXCEPT ![o] = items] /\ stage' = [stage EXCEPT ![o] = "check"]
  /\ version' = [version EXCEPT ![o] = IF items = <<>> THEN 0 ELSE @]

\* The command ends at the first error, or its process does.
Abandon(o) == Continue(o, <<>>)
Kept == UNCHANGED <<references, rollback, commands>>
Stays == UNCHANGED <<todo, version>>

\* What is deleted must be in the state, and what is restored must name its
\* provider: the previous state of a plan never does.
Acceptable(item) ==
  CASE item.what = "apply" -> TRUE
    [] item.what = "delete" -> recorded[item.name] # 0
    [] item.what = "restore" -> FALSE

Check(o) ==
  /\ ~Idle(o) /\ stage[o] = "check"
  /\ \/ /\ Acceptable(Head(todo[o])) /\ stage' = [stage EXCEPT ![o] = "call"]
        /\ LET Others == {p \in Operators : Working(p, Now(o))} IN
             /\ alone' = IF Others = {} THEN alone \cup {o} ELSE alone \ (Others \cup {o})
             /\ unsettled' = IF Others = {} THEN unsettled ELSE unsettled \cup {Now(o)}
        /\ Stays
     \/ Abandon(o) /\ UNCHANGED <<alone, unsettled>>
  /\ Kept /\ UNCHANGED <<deployed, recorded>>

Effect(o) == IF Head(todo[o]).what = "delete" THEN 0 ELSE version[o]

\* A call that fails may have had its effect.
Call(o) ==
  /\ ~Idle(o) /\ stage[o] = "call"
  /\ LET effect == deployed' = [deployed EXCEPT ![Now(o)] = Effect(o)] IN
     \/ effect /\ stage' = [stage EXCEPT ![o] = "save"] /\ Stays /\ UNCHANGED unsettled
     \/ effect /\ Abandon(o) /\ unsettled' = unsettled \cup {Now(o)}
     \/ Abandon(o) /\ UNCHANGED <<deployed, unsettled>>
  /\ Kept /\ UNCHANGED <<recorded, alone>>

\* Mutant: after a deletion the state keeps the resource.
RecordAlways(o) == [recorded EXCEPT ![Now(o)] = version[o]]

Recorded(o) == [recorded EXCEPT ![Now(o)] = Effect(o)]

Save(o) ==
  /\ ~Idle(o) /\ stage[o] = "save"
  /\ \/ /\ recorded' = Recorded(o) /\ Continue(o, Tail(todo[o]))
        /\ unsettled' = IF o \in alone THEN unsettled \ {Now(o)} ELSE unsettled
     \/ /\ Abandon(o) /\ unsettled' = unsettled \cup {Now(o)}
        /\ UNCHANGED recorded
  /\ alone' = alone \ {o}
  /\ Kept /\ UNCHANGED deployed

OrchestratorNext ==
  \E o \in Operators :
    \/ \E B \in Batches : Apply(o, B) \/ CreateRollbackPlan(o, B)
    \/ \E r \in Resources : Delete(o, r)
    \/ ExecuteRollback(o) \/ Check(o) \/ Call(o) \/ Save(o)

OrchestratorSpec == OrchestratorInit /\ [][OrchestratorNext]_orchestratorVars

-----------------------------------------------------------------------------
(* Properties *)

\* The state tells of each resource what the provider has, while no command
\* works on it: after work that failed halfway, or overlapped other work, from
\* the next on that succeeds alone.
StateIsTrue ==
  \A r \in Resources :
    r \in unsettled \/ (\E o \in Operators : Working(o, r)) \/ deployed[r] = recorded[r]
=============================================================================
