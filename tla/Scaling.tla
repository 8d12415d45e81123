-------------------------------- MODULE Scaling --------------------------------
(***************************************************************************)
(* The scaling engine (internal/scaling/engine.go) and one policy name.    *)
(* Each start of the engine runs a loop per policy, which a stop ends only *)
(* after its evaluation, and Evaluate is called from outside as well: so   *)
(* evaluations overlap, and each reads and writes the policy's status and  *)
(* the replicas of the target without a lock.  The time of the last        *)
(* scaling is read from the clock in one step and written in another.      *)
(***************************************************************************)
EXTENDS Naturals, FiniteSets

CONSTANTS
  Loops,        \* the loops that starts make
  Outsiders,      \* of Evaluate
  MaxPolicies,  \* bound on the policies that are registered
  MinReplicas, MaxReplicas,
  Affordable,   \* the replicas the cost policy pays for
  Cooldown      \* in ticks of the clock

ASSUME ScalingAssumption ==
  /\ Loops \cap Outsiders = {} /\ IsFiniteSet(Loops) /\ IsFiniteSet(Outsiders)
  /\ MaxPolicies \in Nat
  /\ MinReplicas \in Nat /\ MaxReplicas \in Nat /\ MinReplicas <= MaxReplicas
  /\ Affordable \in Nat /\ Cooldown \in Nat \ {0}

Policies == 1..MaxPolicies
Evaluators == Loops \cup Outsiders

VARIABLES
  policy, policies,   \* the policy under the name, 0 if there is none, and the last one
  looping, ending,      \* the loops of which the engine has the stop channel, and whose is closed
  engine,               \* the engine is running
  replicas,             \* of the target
  progress, on,             \* where an evaluation is, and of which policy
  found, desired,       \* the replicas it found, and will have
  read,                 \* the time since an evaluation read the clock, up to Cooldown
  age,                  \* of a policy's last scaling, up to Cooldown
  watched, window,      \* history: a policy and the time since it is watched, for one cooldown,
  scalings              \* and how often it was scaled in that time

registration == <<policy, policies, looping, ending, engine>>
evaluation == <<progress, on, found, desired>>
watch == <<watched, window, scalings>>
scalingVars == <<registration, evaluation, replicas, read, age, watch>>

ScalingInit ==
  /\ policy = 0 /\ policies = 0 /\ looping = {} /\ ending = {} /\ engine = FALSE
  /\ replicas \in 0..(MaxReplicas + 1)
  /\ progress = [e \in Evaluators |-> "idle"] /\ on = [e \in Evaluators |-> 0]
  /\ found = [e \in Evaluators |-> 0] /\ desired = [e \in Evaluators |-> 0]
  /\ age = [p \in Policies |-> Cooldown]
  /\ read = [e \in Evaluators |-> 0] /\ watched = 0 /\ window = 0 /\ scalings = 0

\* A policy without a status, which has not been scaled.  It gets no loop.
RegisterPolicy ==
  /\ policies < MaxPolicies /\ policies' = policies + 1 /\ policy' = policies'
  /\ UNCHANGED <<looping, ending, engine, evaluation, replicas, read, age, watch>>

UnregisterPolicy ==
  /\ policy' = 0 /\ looping' = {} /\ ending' = ending \cup looping
  /\ UNCHANGED <<policies, engine, evaluation, replicas, read, age, watch>>

StartEngine ==
  /\ ~engine /\ engine' = TRUE
  /\ IF policy = 0 THEN UNCHANGED looping
     ELSE \E l \in Loops \ ending : looping' = {l}
  /\ UNCHANGED <<policy, policies, ending, evaluation, replicas, read, age, watch>>

StopEngine ==
  /\ engine' = FALSE /\ looping' = {} /\ ending' = ending \cup looping
  /\ UNCHANGED <<policy, policies, evaluation, replicas, read, age, watch>>

EvaluateLoopEnds(l) ==
  /\ l \in ending /\ progress[l] = "idle" /\ ending' = ending \ {l}
  /\ UNCHANGED <<policy, policies, looping, engine, evaluation, replicas, read, age, watch>>

\* A loop whose stop channel is closed may still take the tick.
MayEvaluate(e) == e \in looping \cup ending \cup Outsiders

\* The limits of the policy, and then what it may cost.
Constrained(n) ==
  IF n < MinReplicas THEN MinReplicas ELSE IF n > MaxReplicas THEN MaxReplicas ELSE n
Paid(n) ==
  IF n <= Affordable THEN n ELSE IF Affordable < MinReplicas THEN MinReplicas ELSE Affordable

\* The metrics or the schedule may ask for any number, and the cost may be unknown.
Evaluate(e) ==
  /\ policy > 0 /\ MayEvaluate(e) /\ progress[e] = "idle"
  /\ found' = [found EXCEPT ![e] = replicas]
  /\ \E n \in 0..(MaxReplicas + 1) :
       desired' \in {[desired EXCEPT ![e] = Constrained(n)],
                     [desired EXCEPT ![e] = Paid(Constrained(n))]}
  /\ progress' = [progress EXCEPT ![e] = "evaluated"] /\ on' = [on EXCEPT ![e] = policy]
  /\ UNCHANGED <<registration, replicas, read, age, watch>>

Finish(e) ==
  /\ progress' = [progress EXCEPT ![e] = "idle"] /\ on' = [on EXCEPT ![e] = 0]
  /\ found' = [found EXCEPT ![e] = 0] /\ desired' = [desired EXCEPT ![e] = 0]

\* Mutant: the cooldown ends a tick early.
CoolsBriefly(p) == age[p] + 1 < Cooldown

Cools(p) == age[p] < Cooldown

Decide(e) ==
  /\ progress[e] = "evaluated"
  /\ IF Cools(on[e]) \/ desired[e] = found[e] THEN Finish(e)
     ELSE /\ progress' = [progress EXCEPT ![e] = "scaling"] /\ found' = [found EXCEPT ![e] = 0]
          /\ UNCHANGED <<on, desired>>
  /\ UNCHANGED <<registration, replicas, read, age, watch>>

\* A call of the scaler that fails may have had its effect; a dry run has none.
Scale(e) ==
  /\ progress[e] = "scaling"
  /\ \/ /\ replicas' = desired[e]
        /\ progress' = [progress EXCEPT ![e] = "scaled"] /\ desired' = [desired EXCEPT ![e] = 0]
        /\ scalings' = IF on[e] = watched THEN scalings + 1 ELSE scalings
        /\ UNCHANGED <<on, found>>
     \/ replicas' \in {replicas, desired[e]} /\ Finish(e) /\ UNCHANGED scalings
  /\ UNCHANGED <<registration, read, age, watched, window>>

ReadClock(e) ==
  /\ progress[e] = "scaled" /\ progress' = [progress EXCEPT ![e] = "stamping"]
  /\ read' = [read EXCEPT ![e] = 0]
  /\ UNCHANGED <<registration, on, found, desired, replicas, age, watch>>

\* The last scaling, of the policy that was looked up, is when the clock was
\* read: a time written late may be before the one it is written over.
Stamp(e) ==
  /\ progress[e] = "stamping" /\ Finish(e)
  /\ age' = [age EXCEPT ![on[e]] = read[e]] /\ read' = [read EXCEPT ![e] = 0]
  /\ UNCHANGED <<registration, replicas, watch>>

\* Somebody else scales the target.
ScaledElsewhere ==
  /\ replicas' \in 0..(MaxReplicas + 1)
  /\ UNCHANGED <<registration, evaluation, read, age, watch>>

Older(n) == IF n < Cooldown THEN n + 1 ELSE n

\* A reading ages until it is written.  What has been watched for a cooldown is
\* watched no longer.
ScalingTick ==
  /\ age' = [p \in Policies |-> Older(age[p])]
  /\ read' = [e \in Evaluators |-> IF progress[e] = "stamping" THEN Older(read[e]) ELSE 0]
  /\ IF watched = 0 \/ window + 1 < Cooldown
     THEN /\ window' = IF watched = 0 THEN 0 ELSE window + 1
          /\ UNCHANGED <<watched, scalings>>
     ELSE watched' = 0 /\ window' = 0 /\ scalings' = 0
  /\ UNCHANGED <<registration, evaluation, replicas>>

\* Somebody begins to count a policy's scalings, at any moment.
Watch(p) ==
  /\ watched = 0 /\ watched' = p
  /\ UNCHANGED <<registration, evaluation, replicas, read, age, window, scalings>>

ScalingNext ==
  \/ RegisterPolicy \/ UnregisterPolicy \/ StartEngine \/ StopEngine
  \/ ScaledElsewhere \/ ScalingTick \/ \E l \in Loops : EvaluateLoopEnds(l)
  \/ \E e \in Evaluators : Evaluate(e) \/ Decide(e) \/ Scale(e) \/ ReadClock(e) \/ Stamp(e)
  \/ \E p \in Policies : Watch(p)

ScalingSpec == ScalingInit /\ [][ScalingNext]_scalingVars

-----------------------------------------------------------------------------
(* Properties *)

ScalingTypeOK ==
  /\ policies \in 0..MaxPolicies /\ policy \in 0..policies
  /\ looping \subseteq Loops /\ ending \subseteq Loops /\ engine \in BOOLEAN
  /\ replicas \in 0..(MaxReplicas + 1)
  /\ progress \in [Evaluators -> {"idle", "evaluated", "scaling", "scaled", "stamping"}]
  /\ on \in [Evaluators -> 0..MaxPolicies]
  /\ found \in [Evaluators -> 0..(MaxReplicas + 1)] /\ desired \in [Evaluators -> 0..MaxReplicas]
  /\ read \in [Evaluators -> 0..Cooldown] /\ age \in [Policies -> 0..Cooldown]
  /\ watched \in 0..MaxPolicies /\ window \in 0..(Cooldown - 1) /\ scalings \in Nat

\* Evaluations that overlap all find the cooldown over, and a time of the last
\* scaling that is written late makes it over again for the others.  But within
\* any one cooldown n evaluators scale a policy no more than n + ... + 1 times,
\* one evaluator alone once.  A call of the scaler that fails begins no cooldown
\* and does not count.
ScalingsBounded ==
  2 * scalings <= Cardinality(Evaluators) * (Cardinality(Evaluators) + 1)
=============================================================================
