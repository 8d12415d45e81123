-------------------------------- MODULE Triggers --------------------------------
(***************************************************************************)
(* The triggers of workflows (internal/workflow/triggers): a manager -- a  *)
(* CronScheduler or a TriggerManager -- holds a schedule object per name,  *)
(* and an object that is started runs a loop of its own, which reads the   *)
(* object's context anew each time around.                                 *)
(***************************************************************************)
EXTENDS Naturals

CONSTANTS
  Names,
  MaxObjects,      \* bound on the schedule objects that are made
  MaxGenerations   \* bound on the starts of the manager

ASSUME TriggersAssumption == MaxObjects \in Nat /\ MaxGenerations \in Nat

Objects == 1..MaxObjects
Generations == 1..MaxGenerations

VARIABLES
  cron,        \* the manager is a CronScheduler
  generation,  \* of the manager's context, 0 before the first start
  over,        \* generations whose context is cancelled
  forgotten,   \* history: generations whose cancel function the next start overwrote
  made,        \* objects so far
  schedules,   \* the object under each name, 0 if there is none
  active,      \* the running flag of an object
  starts,      \* how often it was started: its context is the last one's
  parent,      \* the generation that one derives from
  loop,        \* where the loop of each start of an object is
  context      \* and the start whose context it waits on

managed == <<generation, over, forgotten, made, schedules>>
triggerVars == <<cron, managed, active, starts, parent, loop, context>>

TriggersInit ==
  /\ cron \in BOOLEAN /\ generation = 0 /\ over = {} /\ forgotten = {}
  /\ made = 0 /\ schedules = [n \in Names |-> 0]
  /\ active = [o \in Objects |-> FALSE] /\ starts = [o \in Objects |-> 0]
  /\ parent = [o \in Objects |-> 0]
  /\ loop = [o \in Objects |-> [g \in Generations |-> "none"]]
  /\ context = [o \in Objects |-> [g \in Generations |-> 0]]

Held == {schedules[n] : n \in Names} \ {0}

\* Mutant: the contexts of the objects are not derived from the manager's.
Detached(g) == 0

Derived(g) == g

\* Scheduler.Start of those that do not run: a context and a loop each.
StartObjects(S, g) ==
  LET Begin == {o \in S : ~active[o]} IN
  /\ active' = [o \in Objects |-> active[o] \/ o \in Begin]
  /\ starts' = [o \in Objects |-> IF o \in Begin THEN starts[o] + 1 ELSE starts[o]]
  /\ parent' = [o \in Objects |-> IF o \in Begin THEN Derived(g) ELSE parent[o]]
  /\ loop' = [o \in Objects |->
                IF o \in Begin THEN [loop[o] EXCEPT ![starts[o] + 1] = "begins"] ELSE loop[o]]
  /\ UNCHANGED context

StopObjects(S) ==
  /\ active' = [o \in Objects |-> active[o] /\ o \notin S]
  /\ UNCHANGED <<starts, parent, loop, context>>

\* The name's last object is forgotten, not stopped.
AddSchedule(n) ==
  /\ made < MaxObjects /\ made' = made + 1
  /\ schedules' = [schedules EXCEPT ![n] = made']
  /\ IF cron /\ generation > 0 THEN StartObjects({made'}, generation) ELSE StartObjects({}, 0)
  /\ UNCHANGED <<cron, generation, over, forgotten>>

RemoveSchedule(n) ==
  /\ schedules[n] > 0 /\ StopObjects({schedules[n]})
  /\ schedules' = [schedules EXCEPT ![n] = 0]
  /\ UNCHANGED <<cron, generation, over, forgotten, made>>

\* A second start overwrites what would cancel the first.
StartManager ==
  /\ generation < MaxGenerations /\ generation' = generation + 1
  /\ forgotten' = forgotten \cup ((1..generation) \ over)
  /\ StartObjects(Held, generation')
  /\ UNCHANGED <<cron, over, made, schedules>>

StopManager ==
  /\ over' = over \cup ({generation} \ {0})
  /\ StopObjects(Held)
  /\ UNCHANGED <<cron, generation, forgotten, made, schedules>>

\* The context a start was given ends, without a call of the manager.
ParentEnds(g) ==
  /\ g <= generation /\ over' = over \cup {g}
  /\ UNCHANGED <<cron, generation, forgotten, made, schedules, active, starts, parent, loop, context>>

Move(o, g, from, to) == loop[o][g] = from /\ loop' = [loop EXCEPT ![o][g] = to]

\* The loop reads the context that is the object's now.
ReadContext(o, g) ==
  /\ Move(o, g, "begins", "waiting")
  /\ context' = [context EXCEPT ![o][g] = starts[o]]
  /\ UNCHANGED <<cron, managed, active, starts, parent>>

\* A tick that the schedule matches.  It may win over a context that is done.
Fire(o, g) ==
  /\ Move(o, g, "waiting", "calling")
  /\ UNCHANGED <<cron, managed, active, starts, parent, context>>

CallbackReturns(o, g) ==
  /\ Move(o, g, "calling", "begins")
  /\ UNCHANGED <<cron, managed, active, starts, parent, context>>

\* An object's earlier contexts are cancelled: it starts again after a stop only.
Done(o, s) == s < starts[o] \/ ~active[o] \/ parent[o] \in over

LoopEnds(o, g) ==
  /\ Done(o, context[o][g]) /\ Move(o, g, "waiting", "ended")
  /\ UNCHANGED <<cron, managed, active, starts, parent, context>>

LoopStep(o, g) == ReadContext(o, g) \/ CallbackReturns(o, g)

TriggersNext ==
  \/ StartManager \/ StopManager
  \/ \E n \in Names : AddSchedule(n) \/ RemoveSchedule(n)
  \/ \E g \in Generations : ParentEnds(g)
  \/ \E o \in Objects, g \in Generations : LoopStep(o, g) \/ Fire(o, g) \/ LoopEnds(o, g)

\* Loops run, callbacks return, and a select does not for ever prefer the tick.
TriggersFairness ==
  \A o \in Objects, g \in Generations :
    WF_triggerVars(LoopStep(o, g)) /\ SF_triggerVars(LoopEnds(o, g))

TriggersSpec == TriggersInit /\ [][TriggersNext]_triggerVars /\ TriggersFairness

-----------------------------------------------------------------------------
(* Properties *)

TriggersTypeOK ==
  /\ cron \in BOOLEAN /\ generation \in 0..MaxGenerations /\ made \in 0..MaxObjects
  /\ over \subseteq Generations /\ forgotten \subseteq Generations
  /\ schedules \in [Names -> 0..made] /\ active \in [Objects -> BOOLEAN]
  /\ starts \in [Objects -> 0..MaxGenerations] /\ parent \in [Objects -> 0..MaxGenerations]
  /\ loop \in [Objects -> [Generations -> {"none", "begins", "waiting", "calling", "ended"}]]
  /\ context \in [Objects -> [Generations -> 0..MaxGenerations]]

\* If the manager is stopped for good, every loop ends in the end: those of
\* schedules that were replaced, which nobody can stop any more, as well, and
\* the two loops an object has if it was started again during a callback.  Only
\* a start without a stop before it leaves loops behind.
LoopsEnd ==
  <>[](generation \in over \cup {0})
    => <>[](\A o \in Objects, g \in Generations :
              loop[o][g] \in {"none", "ended"} \/ parent[o] \in forgotten \ over)
=============================================================================
