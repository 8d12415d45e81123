----------------------------- MODULE ManagersProofs ----------------------------
(*****************************************************************************)
(* Proofs about the parts that check under one lock, or none, and write      *)
(* under another: the workflow registry, the scaling engine, promises,       *)
(* deployment intents and quotas.                                            *)
(*****************************************************************************)
EXTENDS WorkflowRegistry, Scaling, Promises, DeploymentIntents, Quota,
        FiniteSetTheorems, SequenceTheorems, WellFoundedInduction, TLAPS

-----------------------------------------------------------------------------
(* The workflow registry *)

\* Where calls do not overlap, what a caller has yet to cache is what is stored.
StoredLast ==
  \A n \in Workflows : ~mixed[n] =>
    \A c \in Callers : applying[c] = n => applied[c] = inStore[n]

RegistryInv == RegistryTypeOK /\ StoredLast /\ LookupFindsStored

LEMMA RegistryStarts == RegistryInit => RegistryInv
  BY RegistryAssumption
  DEF RegistryInit, RegistryInv, RegistryTypeOK, StoredLast, LookupFindsStored, GetWorkflow

\* The transaction of either call.
LEMMA StoreKeeps ==
  ASSUME RegistryInv, NEW c \in Callers, NEW n \in Workflows,
         NEW d \in Definitions \cup {NoWorkflow}, Store(c, n, d)
  PROVE  RegistryInv'
<1>1. RegistryTypeOK'
  BY DEF RegistryInv, RegistryTypeOK, Store
<1>2. StoredLast'
  BY <1>1, RegistryAssumption DEF RegistryInv, RegistryTypeOK, StoredLast, Store
<1>3. LookupFindsStored'
  BY RegistryAssumption
  DEF RegistryInv, RegistryTypeOK, LookupFindsStored, GetWorkflow, Store
<1> QED  BY <1>1, <1>2, <1>3 DEF RegistryInv

LEMMA RegistryStep == RegistryInv /\ [RegistryNext]_registryVars => RegistryInv'
<1> SUFFICES ASSUME RegistryInv, [RegistryNext]_registryVars PROVE RegistryInv'
  OBVIOUS
<1>1. ASSUME NEW c \in Callers, NEW n \in Workflows, DeleteWorkflow(c, n) PROVE RegistryInv'
  BY <1>1, StoreKeeps DEF DeleteWorkflow
<1>2. ASSUME NEW c \in Callers, NEW n \in Workflows, NEW d \in Definitions,
             ApplyWorkflow(c, n, d)
      PROVE RegistryInv'
  BY <1>2, StoreKeeps DEF ApplyWorkflow
<1>3. ASSUME NEW c \in Callers, UpdateCache(c) PROVE RegistryInv'
  <2>1. RegistryTypeOK' /\ StoredLast'
    BY <1>3, RegistryAssumption
    DEF RegistryInv, RegistryTypeOK, StoredLast, UpdateCache, Cached
  <2>2. ASSUME NEW n \in Workflows, ~mixed'[n], \A o \in Callers : applying'[o] /= n
        PROVE GetWorkflow(n)' = inStore'[n]
    <3>1. CASE applying[c] = n
      BY <1>3, <2>2, <3>1 DEF RegistryInv, RegistryTypeOK, StoredLast, UpdateCache, Cached, GetWorkflow
    <3>2. CASE applying[c] /= n
      <4>1. \A o \in Callers : applying[o] /= n
        BY <1>3, <2>2, <3>2 DEF RegistryInv, RegistryTypeOK, UpdateCache
      <4> QED  BY <1>3, <2>2, <3>2, <4>1
               DEF RegistryInv, RegistryTypeOK, LookupFindsStored, UpdateCache, Cached, GetWorkflow
    <3> QED  BY <3>1, <3>2
  <2> QED  BY <2>1, <2>2 DEF RegistryInv, LookupFindsStored
<1>4. CASE Restart
  BY <1>4, RegistryAssumption
  DEF RegistryInv, RegistryTypeOK, StoredLast, LookupFindsStored, GetWorkflow, Restart
<1>5. CASE UNCHANGED registryVars
  BY <1>5 DEF registryVars, RegistryInv, RegistryTypeOK, StoredLast, LookupFindsStored, GetWorkflow
<1> QED  BY <1>1, <1>2, <1>3, <1>4, <1>5 DEF RegistryNext

\* What a lookup finds is what the store holds, for any workflows, callers and
\* definitions, but for names whose calls overlapped.
THEOREM LookupIsStored == RegistrySpec => []LookupFindsStored
<1>1. RegistryInv => LookupFindsStored
  BY DEF RegistryInv
<1> QED  BY <1>1, RegistryStarts, RegistryStep, PTL DEF RegistrySpec

-----------------------------------------------------------------------------
(* The scaling engine *)

OnPolicy == \A e \in Evaluators : progress[e] /= "idle" => on[e] \in Policies

\* Of the evaluations of the watched policy: those whose reading of the clock is
\* from before it was watched, those that scaled it since, and those that will.
Stale == {e \in Evaluators : progress[e] = "stamping" /\ on[e] = watched /\ read[e] > window}
Fresh == {e \in Evaluators : /\ on[e] = watched
                             /\ \/ progress[e] = "scaled"
                                \/ progress[e] = "stamping" /\ read[e] <= window}
Decided == {e \in Evaluators : progress[e] = "scaling" /\ on[e] = watched}

\* A scaling since it is watched keeps the others from deciding, until a stale
\* reading is written over it.
Closed == age[watched] <= window

\* How many of n evaluators may yet scale, with k stale readings and b fresh ones.
MayScale(n, k, b, d, closed) == IF closed THEN d ELSE n - k - b
InBudget(n, s, k, b, d, closed) ==
  2 * s + 2 * MayScale(n, k, b, d, closed) + 2 * (k * n) - k * (k - 1) <= n * (n + 1)

Budget ==
  watched /= 0 =>
    InBudget(Cardinality(Evaluators), scalings, Cardinality(Stale), Cardinality(Fresh),
           Cardinality(Decided), Closed)

ScalingInv == ScalingTypeOK /\ OnPolicy /\ (watched = 0 => scalings = 0) /\ Budget

\* The arithmetic of the steps.
LEMMA WatchBegins ==
  ASSUME NEW n \in Nat, NEW k \in Nat, NEW b \in Nat, NEW d \in Nat, NEW closed \in BOOLEAN,
         k + b + d <= n
  PROVE  InBudget(n, 0, k, b, d, closed)
<1> DEFINE m == n - k
<1>1. m \in Nat /\ n = m + k /\ MayScale(n, k, b, d, closed) <= m
  BY DEF MayScale
<1>2. MayScale(n, k, b, d, closed) \in Int
  BY DEF MayScale
<1>3. m * (m - 1) >= 0
  <2>1. CASE m = 0  BY <2>1
  <2>2. CASE m > 0  BY <1>1, <2>2
  <2> QED  BY <1>1, <2>1, <2>2
<1>4. n * (n + 1) - 2 * (k * n) + k * (k - 1) - 2 * m = m * (m - 1)
  BY <1>1
<1> DEFINE x == n * (n + 1)
<1> DEFINE y == k * n
<1> DEFINE z == k * (k - 1)
<1> DEFINE u == m * (m - 1)
<1> DEFINE v == MayScale(n, k, b, d, closed)
<1>5. x \in Int /\ y \in Int /\ z \in Int /\ u \in Int
  BY <1>1
<1>6. x - 2 * y + z - 2 * m = u /\ u >= 0 /\ v <= m /\ v \in Int
  BY <1>1, <1>2, <1>3, <1>4
<1>7. 2 * 0 + 2 * v + 2 * y - z <= x
  <2> HIDE DEF x, y, z, u, v, m
  <2> QED  BY <1>1, <1>5, <1>6
<1> QED  BY <1>7 DEF InBudget

LEMMA StaleWritten ==
  ASSUME NEW n \in Nat, NEW s \in Nat, NEW k \in Nat \ {0}, NEW b \in Nat, NEW d \in Nat,
         NEW closed \in BOOLEAN, k + b + d <= n, InBudget(n, s, k, b, d, closed)
  PROVE  InBudget(n, s, k - 1, b, d, FALSE)
<1> DEFINE x == n * (n + 1)
<1> DEFINE y == k * n
<1> DEFINE z == k * (k - 1)
<1> DEFINE v == MayScale(n, k, b, d, closed)
<1>1. x \in Int /\ y \in Int /\ z \in Int /\ v \in Nat
  BY DEF MayScale
<1>2. (k - 1) * n = y - n
  OBVIOUS
<1>3. (k - 1) * ((k - 1) - 1) = z - 2 * (k - 1)
  OBVIOUS
<1>4. 2 * s + 2 * v + 2 * y - z <= x
  BY DEF InBudget
<1>5. MayScale(n, k - 1, b, d, FALSE) = n - (k - 1) - b
  BY DEF MayScale
<1>6. 2 * s + 2 * (n - (k - 1) - b) + 2 * (y - n) - (z - 2 * (k - 1)) <= x
  <2> HIDE DEF x, y, z, v
  <2> QED  BY <1>1, <1>4
<1>7. InBudget(n, s, k - 1, b, d, FALSE)
        <=> 2 * s + 2 * MayScale(n, k - 1, b, d, FALSE) + 2 * ((k - 1) * n)
              - (k - 1) * ((k - 1) - 1) <= x
  BY DEF InBudget
<1> HIDE DEF x, y, z, v
<1> QED  BY <1>2, <1>3, <1>5, <1>6, <1>7

LEMMA WithinBounds ==
  ASSUME NEW n \in Nat, NEW s \in Nat, NEW k \in Nat, NEW b \in Nat, NEW d \in Nat,
         NEW closed \in BOOLEAN, k + b + d <= n, InBudget(n, s, k, b, d, closed)
  PROVE  2 * s <= n * (n + 1)
<1>1. MayScale(n, k, b, d, closed) \in Nat
  BY DEF MayScale
<1>2. 2 * (k * n) - k * (k - 1) >= 0
  <2>1. PICK m \in Nat : n = k + m
    <3>1. n - k \in Nat /\ n = k + (n - k)
      OBVIOUS
    <3> QED  BY <3>1
  <2>2. 2 * (k * n) - k * (k - 1) = k * k + k + 2 * (k * m)
    BY <2>1
  <2>3. k * k \in Nat /\ k * m \in Nat
    BY <2>1
  <2> QED  BY <2>2, <2>3
<1>3. n * (n + 1) \in Int /\ 2 * (k * n) - k * (k - 1) \in Int /\ k * n \in Int /\ k * (k - 1) \in Int
  OBVIOUS
<1> QED  BY <1>1, <1>2, <1>3 DEF InBudget

LEMMA WithinFailed ==
  ASSUME NEW n \in Nat, NEW s \in Nat, NEW k \in Nat, NEW b \in Nat, NEW d \in Nat \ {0},
         NEW closed \in BOOLEAN, InBudget(n, s, k, b, d, closed)
  PROVE  InBudget(n, s, k, b, d - 1, closed)
<1>1. MayScale(n, k, b, d - 1, closed) <= MayScale(n, k, b, d, closed)
      /\ MayScale(n, k, b, d, closed) \in Int /\ MayScale(n, k, b, d - 1, closed) \in Int
  BY DEF MayScale
<1>2. n * (n + 1) \in Int /\ k * n \in Int /\ k * (k - 1) \in Int
  OBVIOUS
<1> QED  BY <1>1, <1>2 DEF InBudget

LEMMA FreshWritten ==
  ASSUME NEW n \in Nat, NEW s \in Nat, NEW k \in Nat, NEW b \in Nat \ {0}, NEW d \in Nat,
         NEW closed \in BOOLEAN, k + b + d <= n, InBudget(n, s, k, b, d, closed)
  PROVE  InBudget(n, s, k, b - 1, d, TRUE)
<1> DEFINE x == n * (n + 1)
<1> DEFINE y == 2 * (k * n) - k * (k - 1)
<1>1. x \in Int /\ y \in Int /\ k * n \in Int /\ k * (k - 1) \in Int
  OBVIOUS
<1>2. MayScale(n, k, b, d, closed) \in Int /\ d <= MayScale(n, k, b, d, closed)
  BY DEF MayScale
<1>3. 2 * s + 2 * MayScale(n, k, b, d, closed) + y <= x
  BY <1>1, <1>2 DEF InBudget
<1>4. 2 * s + 2 * d + y <= x
  <2> HIDE DEF x, y
  <2> QED  BY <1>1, <1>2, <1>3
<1> QED  BY <1>1, <1>4 DEF InBudget, MayScale

LEMMA WithinScaled ==
  ASSUME NEW n \in Nat, NEW s \in Nat, NEW k \in Nat, NEW b \in Nat, NEW d \in Nat \ {0},
         NEW closed \in BOOLEAN, InBudget(n, s, k, b, d, closed)
  PROVE  InBudget(n, s + 1, k, b + 1, d - 1, closed)
<1>1. MayScale(n, k, b + 1, d - 1, closed) = MayScale(n, k, b, d, closed) - 1
      /\ MayScale(n, k, b, d, closed) \in Int
  BY DEF MayScale
<1>2. n * (n + 1) \in Int /\ k * n \in Int /\ k * (k - 1) \in Int
  OBVIOUS
<1> QED  BY <1>1, <1>2 DEF InBudget

\* Three kinds of evaluators that have none in common.
LEMMA EvaluatorsApart ==
  ASSUME NEW S \in SUBSET Evaluators, NEW F \in SUBSET Evaluators, NEW D \in SUBSET Evaluators,
         S \cap F = {}, S \cap D = {}, F \cap D = {}
  PROVE  /\ IsFiniteSet(S) /\ IsFiniteSet(F) /\ IsFiniteSet(D)
         /\ Cardinality(S) \in Nat /\ Cardinality(F) \in Nat
         /\ Cardinality(D) \in Nat /\ Cardinality(Evaluators) \in Nat
         /\ Cardinality(S) + Cardinality(F) + Cardinality(D) <= Cardinality(Evaluators)
<1>1. IsFiniteSet(Evaluators)
  BY ScalingAssumption, FS_Union DEF Evaluators
<1>2. IsFiniteSet(S) /\ IsFiniteSet(F) /\ IsFiniteSet(D)
  BY <1>1, FS_Subset
<1>3. IsFiniteSet(S \cup F) /\ IsFiniteSet((S \cup F) \cup D)
  BY <1>2, FS_Union
<1>4. Cardinality(S \cup F) = Cardinality(S) + Cardinality(F)
  <2>1. Cardinality(S \cup F) = Cardinality(S) + Cardinality(F) - Cardinality(S \cap F)
    BY <1>2, FS_Union
  <2>2. Cardinality(S \cap F) = 0
    BY FS_EmptySet
  <2>3. Cardinality(S) \in Nat /\ Cardinality(F) \in Nat
    BY <1>2, FS_CardinalityType
  <2> QED  BY <2>1, <2>2, <2>3
<1>5. Cardinality((S \cup F) \cup D) = Cardinality(S \cup F) + Cardinality(D)
  <2>1. Cardinality((S \cup F) \cup D)
          = Cardinality(S \cup F) + Cardinality(D) - Cardinality((S \cup F) \cap D)
    BY <1>2, <1>3, FS_Union
  <2>2. (S \cup F) \cap D = {}
    OBVIOUS
  <2>3. Cardinality((S \cup F) \cap D) = 0
    BY <2>2, FS_EmptySet
  <2>4. Cardinality(S \cup F) \in Nat /\ Cardinality(D) \in Nat
    BY <1>2, <1>3, FS_CardinalityType
  <2> QED  BY <2>1, <2>3, <2>4
<1>6. Cardinality((S \cup F) \cup D) <= Cardinality(Evaluators)
  BY <1>1, FS_Subset
<1> QED  BY <1>1, <1>2, <1>4, <1>5, <1>6, FS_CardinalityType

LEMMA KindsCounted ==
  ScalingTypeOK =>
    /\ IsFiniteSet(Stale) /\ IsFiniteSet(Fresh) /\ IsFiniteSet(Decided)
    /\ Cardinality(Stale) \in Nat /\ Cardinality(Fresh) \in Nat
    /\ Cardinality(Decided) \in Nat /\ Cardinality(Evaluators) \in Nat
    /\ Cardinality(Stale) + Cardinality(Fresh) + Cardinality(Decided) <= Cardinality(Evaluators)
<1> SUFFICES ASSUME ScalingTypeOK
             PROVE  /\ Stale \subseteq Evaluators /\ Fresh \subseteq Evaluators
                    /\ Decided \subseteq Evaluators
                    /\ Stale \cap Fresh = {} /\ Stale \cap Decided = {} /\ Fresh \cap Decided = {}
  BY EvaluatorsApart
<1>1. Stale \cap Fresh = {}
  <2> SUFFICES ASSUME NEW e \in Evaluators, e \in Stale, e \in Fresh PROVE FALSE
    BY DEF Stale, Fresh
  <2>1. read[e] \in Nat /\ window \in Nat
    BY ScalingAssumption DEF ScalingTypeOK
  <2> QED  BY <2>1 DEF Stale, Fresh
<1> QED  BY <1>1 DEF Stale, Fresh, Decided

LEMMA ScalingStarts == ScalingInit => ScalingInv
<1> SUFFICES ASSUME ScalingInit PROVE ScalingInv
  OBVIOUS
<1>1. ScalingTypeOK
  <2>1. /\ age \in [Policies -> 0..Cooldown] /\ read \in [Evaluators -> 0..Cooldown]
        /\ watched \in 0..MaxPolicies /\ window \in 0..(Cooldown - 1) /\ scalings \in Nat
    BY ScalingAssumption DEF ScalingInit
  <2>2. /\ found \in [Evaluators -> 0..(MaxReplicas + 1)] /\ desired \in [Evaluators -> 0..MaxReplicas]
        /\ progress \in [Evaluators -> {"idle", "evaluated", "scaling", "scaled", "stamping"}]
        /\ on \in [Evaluators -> 0..MaxPolicies]
    BY ScalingAssumption DEF ScalingInit
  <2>3. /\ policies \in 0..MaxPolicies /\ policy \in 0..policies
        /\ looping \subseteq Loops /\ ending \subseteq Loops /\ engine \in BOOLEAN
        /\ replicas \in 0..(MaxReplicas + 1)
    <3>1. policies = 0 /\ policy = 0 /\ 0 \in 0..MaxPolicies /\ 0 \in 0..0
      BY ScalingAssumption DEF ScalingInit
    <3> QED  BY <3>1 DEF ScalingInit
  <2> QED  BY <2>1, <2>2, <2>3 DEF ScalingTypeOK
<1> QED  BY <1>1 DEF ScalingInit, ScalingInv, OnPolicy, Budget

LEMMA ConstrainedWithin ==
  ASSUME NEW n \in 0..(MaxReplicas + 1)
  PROVE  Constrained(n) \in 0..MaxReplicas /\ Paid(Constrained(n)) \in 0..MaxReplicas
  BY ScalingAssumption DEF Constrained, Paid

LEMMA ScalingTyped == ScalingTypeOK /\ OnPolicy /\ [ScalingNext]_scalingVars => ScalingTypeOK'
<1> SUFFICES ASSUME ScalingTypeOK, OnPolicy, [ScalingNext]_scalingVars PROVE ScalingTypeOK'
  OBVIOUS
<1> USE ScalingAssumption DEF ScalingTypeOK, registration, evaluation, watch
<1>1. CASE RegisterPolicy  BY <1>1 DEF RegisterPolicy
<1>2. CASE UnregisterPolicy  BY <1>2 DEF UnregisterPolicy
<1>3. CASE StartEngine  BY <1>3 DEF StartEngine
<1>4. CASE StopEngine  BY <1>4 DEF StopEngine
<1>5. CASE ScaledElsewhere  BY <1>5 DEF ScaledElsewhere
<1>6. CASE ScalingTick
  <2>1. /\ UNCHANGED <<registration, evaluation, replicas>>
        /\ age' \in [Policies -> 0..Cooldown] /\ read' \in [Evaluators -> 0..Cooldown]
    BY <1>6 DEF ScalingTick, Older
  <2>2. /\ watched' \in 0..MaxPolicies /\ window' \in 0..(Cooldown - 1) /\ scalings' \in Nat
    BY <1>6 DEF ScalingTick
  <2> QED  BY <2>1, <2>2
<1>7. ASSUME NEW l \in Loops, EvaluateLoopEnds(l) PROVE ScalingTypeOK'
  BY <1>7 DEF EvaluateLoopEnds
<1>8. ASSUME NEW e \in Evaluators, Evaluate(e) PROVE ScalingTypeOK'
  <2>1. PICK n \in 0..(MaxReplicas + 1) :
          desired' \in {[desired EXCEPT ![e] = Constrained(n)],
                        [desired EXCEPT ![e] = Paid(Constrained(n))]}
    BY <1>8 DEF Evaluate
  <2>2. desired' \in [Evaluators -> 0..MaxReplicas]
    BY <2>1, ConstrainedWithin
  <2>3. policy \in 0..MaxPolicies
    OBVIOUS
  <2> QED  BY <1>8, <2>2, <2>3 DEF Evaluate
<1>9. ASSUME NEW e \in Evaluators, Decide(e) PROVE ScalingTypeOK'
  <2>1. UNCHANGED <<policies, policy, looping, ending, engine, replicas, read, age, watch>>
    BY <1>9 DEF Decide
  <2>2. CASE Finish(e)  BY <2>1, <2>2 DEF Finish
  <2>3. CASE ~Finish(e)  BY <1>9, <2>1, <2>3 DEF Decide
  <2> QED  BY <2>2, <2>3
<1>10. ASSUME NEW e \in Evaluators, Scale(e) PROVE ScalingTypeOK'
  <2>1. UNCHANGED <<policies, policy, looping, ending, engine, read, age, watched, window>>
    BY <1>10 DEF Scale
  <2>2. replicas' \in 0..(MaxReplicas + 1)
    BY <1>10 DEF Scale
  <2>5. scalings' \in Nat
    BY <1>10 DEF Scale
  <2>3. CASE Finish(e)  BY <2>1, <2>2, <2>3, <2>5 DEF Finish
  <2>4. CASE ~Finish(e)  BY <1>10, <2>1, <2>2, <2>4, <2>5 DEF Scale
  <2> QED  BY <2>3, <2>4
<1>11. ASSUME NEW e \in Evaluators, Stamp(e) PROVE ScalingTypeOK'
  <2>1. on[e] \in Policies
    BY <1>11 DEF Stamp, OnPolicy
  <2> QED  BY <1>11, <2>1 DEF Stamp, Finish
<1>13. ASSUME NEW e \in Evaluators, ReadClock(e) PROVE ScalingTypeOK'
  BY <1>13 DEF ReadClock
<1>14. ASSUME NEW p \in Policies, Watch(p) PROVE ScalingTypeOK'
  BY <1>14 DEF Watch, Policies
<1>12. CASE UNCHANGED scalingVars  BY <1>12 DEF scalingVars
<1> QED  BY <1>1, <1>2, <1>3, <1>4, <1>5, <1>6, <1>7, <1>8, <1>9, <1>10, <1>11, <1>12, <1>13,
         <1>14
  DEF ScalingNext

\* The budget is kept where nothing that it counts is changed.
LEMMA BudgetUnchanged ==
  ASSUME ScalingInv, UNCHANGED <<watched, scalings>>,
         watched /= 0 => UNCHANGED <<Stale, Fresh, Decided, Closed>>
  PROVE  (watched = 0 => scalings = 0)' /\ Budget'
  BY DEF ScalingInv, Budget

LEMMA ScalingElsewhere ==
  ASSUME ScalingInv, UNCHANGED <<progress, on, read, age, watch>>
  PROVE  OnPolicy' /\ (watched = 0 => scalings = 0)' /\ Budget'
<1>1. UNCHANGED <<watched, scalings, Stale, Fresh, Decided, Closed>>
  BY DEF watch, Stale, Fresh, Decided, Closed
<1> QED  BY <1>1, BudgetUnchanged DEF ScalingInv, OnPolicy, Policies

LEMMA TickKeepsBudget ==
  ASSUME ScalingInv, ScalingTick
  PROVE  OnPolicy' /\ (watched = 0 => scalings = 0)' /\ Budget'
<1>1. OnPolicy'
  BY DEF ScalingTick, evaluation, ScalingInv, OnPolicy, Policies
<1>2. CASE watched' = 0
  BY <1>1, <1>2, ScalingAssumption DEF ScalingTick, ScalingInv, ScalingTypeOK, Budget
<1>3. CASE watched' /= 0
  <2>1. /\ watched' = watched /\ window' = window + 1 /\ scalings' = scalings
        /\ window + 1 < Cooldown /\ window \in Nat /\ watched \in Policies
    BY <1>3 DEF ScalingTick, ScalingInv, ScalingTypeOK, Policies
  <2>2. UNCHANGED <<progress, on>>
    BY DEF ScalingTick, evaluation
  <2>3. ASSUME NEW e \in Evaluators, progress[e] = "stamping"
        PROVE  /\ read'[e] > window' <=> read[e] > window
               /\ read'[e] <= window' <=> read[e] <= window
    BY <2>1, <2>3, ScalingAssumption DEF ScalingTick, Older, ScalingInv, ScalingTypeOK
  <2>4. Stale' = Stale /\ Fresh' = Fresh /\ Decided' = Decided
    BY <2>1, <2>2, <2>3 DEF Stale, Fresh, Decided
  <2>5. Closed' <=> Closed
    BY <2>1, ScalingAssumption DEF ScalingTick, Older, Closed, ScalingInv, ScalingTypeOK
  <2> QED  BY <1>1, <2>1, <2>4, <2>5, BudgetUnchanged
<1> QED  BY <1>2, <1>3

LEMMA WatchKeepsBudget ==
  ASSUME ScalingInv, NEW p \in Policies, Watch(p)
  PROVE  OnPolicy' /\ (watched = 0 => scalings = 0)' /\ Budget'
<1>1. OnPolicy' /\ watched' = p /\ watched' /= 0 /\ scalings' = 0
  BY ScalingAssumption DEF Watch, evaluation, ScalingInv, OnPolicy, Policies
<1>2. Closed' \in BOOLEAN
  BY DEF Closed
<1>3. Stale' \cap Fresh' = {}
  <2> SUFFICES ASSUME NEW e \in Evaluators, e \in Stale', e \in Fresh' PROVE FALSE
    BY DEF Stale, Fresh
  <2>1. read'[e] \in Nat /\ window' \in Nat
    BY ScalingAssumption DEF ScalingInv, ScalingTypeOK, Watch
  <2> QED  BY <2>1 DEF Stale, Fresh
<1>4. /\ Stale' \in SUBSET Evaluators /\ Fresh' \in SUBSET Evaluators
      /\ Decided' \in SUBSET Evaluators
      /\ Stale' \cap Decided' = {} /\ Fresh' \cap Decided' = {}
  BY DEF Stale, Fresh, Decided
<1>5. /\ Cardinality(Stale') \in Nat /\ Cardinality(Fresh') \in Nat
      /\ Cardinality(Decided') \in Nat /\ Cardinality(Evaluators) \in Nat
      /\ Cardinality(Stale') + Cardinality(Fresh') + Cardinality(Decided')
           <= Cardinality(Evaluators)
  BY <1>3, <1>4, EvaluatorsApart
<1> QED  BY <1>1, <1>2, <1>5, WatchBegins DEF Budget

LEMMA DecideKeepsBudget ==
  ASSUME ScalingInv, NEW e \in Evaluators, Decide(e)
  PROVE  OnPolicy' /\ (watched = 0 => scalings = 0)' /\ Budget'
<1>1. /\ UNCHANGED <<read, age, watched, window, scalings>>
      /\ \A o \in Evaluators \ {e} : progress'[o] = progress[o] /\ on'[o] = on[o]
      /\ progress[e] = "evaluated" /\ progress'[e] \in {"idle", "scaling"}
      /\ progress'[e] = "scaling" => on'[e] = on[e] /\ ~Cools(on[e])
  BY DEF Decide, Finish, watch, ScalingInv, ScalingTypeOK
<1>2. OnPolicy' /\ on[e] \in Policies
  BY <1>1 DEF ScalingInv, OnPolicy, Policies
<1>3. Stale' = Stale /\ Fresh' = Fresh
  BY <1>1 DEF Stale, Fresh
<1>4. Closed' = Closed
  BY <1>1 DEF Closed
<1>5. CASE progress'[e] = "scaling" /\ on[e] = watched
  <2>1. Decided' = Decided \cup {e}
    BY <1>1, <1>5 DEF Decided
  <2>2. ~Closed
    BY <1>1, <1>2, <1>5, ScalingAssumption DEF Closed, Cools, ScalingInv, ScalingTypeOK
  <2>3. Cardinality(Decided') \in Nat
    BY <2>1, KindsCounted, FS_AddElement, FS_CardinalityType DEF ScalingInv
  <2> QED  BY <1>1, <1>2, <1>3, <1>4, <2>2, <2>3, KindsCounted
           DEF ScalingInv, Budget, InBudget, MayScale
<1>6. CASE ~(progress'[e] = "scaling" /\ on[e] = watched)
  <2>1. Decided' = Decided
    BY <1>1, <1>6 DEF Decided
  <2> QED  BY <1>1, <1>2, <1>3, <1>4, <2>1, BudgetUnchanged
<1> QED  BY <1>5, <1>6

LEMMA ScaleKeepsBudget ==
  ASSUME ScalingInv, NEW e \in Evaluators, Scale(e)
  PROVE  OnPolicy' /\ (watched = 0 => scalings = 0)' /\ Budget'
<1>1. /\ UNCHANGED <<read, age, watched, window>>
      /\ \A o \in Evaluators \ {e} : progress'[o] = progress[o] /\ on'[o] = on[o]
      /\ progress[e] = "scaling"
      /\ \/ /\ progress'[e] = "scaled" /\ on'[e] = on[e]
            /\ scalings' = IF on[e] = watched THEN scalings + 1 ELSE scalings
         \/ progress'[e] = "idle" /\ scalings' = scalings
  BY DEF Scale, Finish, ScalingInv, ScalingTypeOK
<1>2. OnPolicy' /\ on[e] \in Policies
  BY <1>1 DEF ScalingInv, OnPolicy, Policies
<1>3. (watched = 0 => scalings = 0)'
  BY <1>1, <1>2 DEF ScalingInv, Policies
<1>4. Stale' = Stale /\ Closed' = Closed
  BY <1>1 DEF Stale, Closed
<1>7. /\ Cardinality(Evaluators) \in Nat /\ Cardinality(Stale) \in Nat
      /\ Cardinality(Fresh) \in Nat /\ Cardinality(Decided) \in Nat
      /\ on[e] = watched =>
           InBudget(Cardinality(Evaluators), scalings, Cardinality(Stale), Cardinality(Fresh),
                  Cardinality(Decided), Closed)
  BY <1>2, KindsCounted DEF ScalingInv, Budget, Policies
<1>5. CASE on[e] /= watched
  <2>1. Fresh' = Fresh /\ Decided' = Decided /\ scalings' = scalings
    BY <1>1, <1>5 DEF Fresh, Decided
  <2> QED  BY <1>1, <1>2, <1>4, <2>1, BudgetUnchanged
<1>6. CASE on[e] = watched
  <2>1. Decided' = Decided \ {e} /\ e \in Decided
    BY <1>1, <1>6 DEF Decided
  <2>2. Cardinality(Decided') = Cardinality(Decided) - 1 /\ Cardinality(Decided') \in Nat
    BY <2>1, KindsCounted, FS_RemoveElement, FS_CardinalityType DEF ScalingInv
  <2>3. CASE progress'[e] = "scaled"
    <3>1. Fresh' = Fresh \cup {e} /\ e \notin Fresh /\ scalings' = scalings + 1
      BY <1>1, <1>6, <2>3 DEF Fresh
    <3>2. Cardinality(Fresh') = Cardinality(Fresh) + 1
      BY <3>1, KindsCounted, FS_AddElement DEF ScalingInv
    <3>3. Cardinality(Decided) \in Nat \ {0} /\ scalings \in Nat /\ Closed \in BOOLEAN
      BY <2>2, KindsCounted DEF ScalingInv, ScalingTypeOK, Closed
    <3>4. InBudget(Cardinality(Evaluators), scalings + 1, Cardinality(Stale), Cardinality(Fresh) + 1,
                 Cardinality(Decided) - 1, Closed)
      BY <1>6, <1>7, <3>3, WithinScaled
    <3> QED  BY <1>1, <1>2, <1>3, <1>4, <2>2, <3>1, <3>2, <3>4 DEF Budget
  <2>4. CASE progress'[e] = "idle"
    <3>1. Fresh' = Fresh /\ scalings' = scalings
      BY <1>1, <2>4 DEF Fresh
    <3>3. Cardinality(Decided) \in Nat \ {0} /\ scalings \in Nat /\ Closed \in BOOLEAN
      BY <1>7, <2>2 DEF ScalingInv, ScalingTypeOK, Closed
    <3>4. InBudget(Cardinality(Evaluators), scalings, Cardinality(Stale), Cardinality(Fresh),
                 Cardinality(Decided) - 1, Closed)
      BY <1>6, <1>7, <3>3, WithinFailed
    <3> QED  BY <1>1, <1>2, <1>3, <1>4, <2>2, <3>1, <3>4 DEF Budget
  <2> QED  BY <1>1, <2>3, <2>4
<1> QED  BY <1>5, <1>6

LEMMA StampKeepsBudget ==
  ASSUME ScalingInv, NEW e \in Evaluators, Stamp(e)
  PROVE  OnPolicy' /\ (watched = 0 => scalings = 0)' /\ Budget'
<1>1. /\ UNCHANGED <<watched, window, scalings>>
      /\ \A o \in Evaluators \ {e} :
           progress'[o] = progress[o] /\ on'[o] = on[o] /\ read'[o] = read[o]
      /\ progress[e] = "stamping" /\ progress'[e] = "idle"
      /\ age' = [age EXCEPT ![on[e]] = read[e]]
  BY DEF Stamp, Finish, watch, ScalingInv, ScalingTypeOK
<1>2. OnPolicy' /\ on[e] \in Policies
  BY <1>1 DEF ScalingInv, OnPolicy, Policies
<1>3. (watched = 0 => scalings = 0)'
  BY <1>1 DEF ScalingInv
<1>4. Decided' = Decided
  BY <1>1 DEF Decided
<1>5. read[e] \in 0..Cooldown /\ window \in Nat /\ scalings \in Nat /\ Closed \in BOOLEAN
  BY ScalingAssumption DEF ScalingInv, ScalingTypeOK, Closed
<1>9. /\ Cardinality(Evaluators) \in Nat /\ Cardinality(Stale) \in Nat
      /\ Cardinality(Fresh) \in Nat /\ Cardinality(Decided) \in Nat
      /\ Cardinality(Stale) + Cardinality(Fresh) + Cardinality(Decided) <= Cardinality(Evaluators)
      /\ on[e] = watched =>
           InBudget(Cardinality(Evaluators), scalings, Cardinality(Stale), Cardinality(Fresh),
                  Cardinality(Decided), Closed)
  BY <1>2, KindsCounted DEF ScalingInv, Budget, Policies
<1>6. CASE on[e] /= watched
  <2>1. Stale' = Stale /\ Fresh' = Fresh
    BY <1>1, <1>6 DEF Stale, Fresh
  <2>2. watched \in Policies => Closed' = Closed
    BY <1>1, <1>2, <1>6 DEF Closed, ScalingInv, ScalingTypeOK
  <2>3. watched /= 0 => watched \in Policies
    BY DEF ScalingInv, ScalingTypeOK, Policies
  <2> QED  BY <1>1, <1>2, <1>4, <2>1, <2>2, <2>3, BudgetUnchanged
<1>7. CASE on[e] = watched /\ read[e] <= window
  <2>1. Fresh' = Fresh \ {e} /\ e \in Fresh /\ Stale' = Stale
    BY <1>1, <1>5, <1>7 DEF Stale, Fresh
  <2>2. Cardinality(Fresh') = Cardinality(Fresh) - 1 /\ Cardinality(Fresh') \in Nat
    BY <2>1, KindsCounted, FS_RemoveElement, FS_CardinalityType DEF ScalingInv
  <2>3. Closed' = TRUE
    BY <1>1, <1>2, <1>7 DEF Closed, ScalingInv, ScalingTypeOK
  <2>4. Cardinality(Fresh) \in Nat \ {0}
    BY <1>9, <2>2
  <2>5. InBudget(Cardinality(Evaluators), scalings, Cardinality(Stale), Cardinality(Fresh) - 1,
               Cardinality(Decided), TRUE)
    BY <1>5, <1>7, <1>9, <2>4, FreshWritten
  <2> QED  BY <1>1, <1>2, <1>3, <1>4, <2>1, <2>2, <2>3, <2>5 DEF Budget
<1>8. CASE on[e] = watched /\ read[e] > window
  <2>1. Stale' = Stale \ {e} /\ e \in Stale /\ Fresh' = Fresh
    BY <1>1, <1>5, <1>8 DEF Stale, Fresh
  <2>2. Cardinality(Stale') = Cardinality(Stale) - 1 /\ Cardinality(Stale) \in Nat \ {0}
    <3>1. Cardinality(Stale') = Cardinality(Stale) - 1 /\ Cardinality(Stale') \in Nat
      BY <2>1, KindsCounted, FS_RemoveElement, FS_CardinalityType DEF ScalingInv
    <3> QED  BY <1>9, <3>1
  <2>3. Closed' = FALSE
    BY <1>1, <1>2, <1>5, <1>8 DEF Closed, ScalingInv, ScalingTypeOK
  <2>4. InBudget(Cardinality(Evaluators), scalings, Cardinality(Stale) - 1, Cardinality(Fresh),
               Cardinality(Decided), FALSE)
    BY <1>5, <1>8, <1>9, <2>2, StaleWritten
  <2> QED  BY <1>1, <1>2, <1>3, <1>4, <2>1, <2>2, <2>3, <2>4 DEF Budget
<1> QED  BY <1>5, <1>6, <1>7, <1>8

LEMMA ScalingStep == ScalingInv /\ [ScalingNext]_scalingVars => ScalingInv'
<1> SUFFICES ASSUME ScalingInv, [ScalingNext]_scalingVars
             PROVE  OnPolicy' /\ (watched = 0 => scalings = 0)' /\ Budget'
  BY ScalingTyped DEF ScalingInv
<1> USE DEF registration, evaluation
<1>1. CASE RegisterPolicy \/ UnregisterPolicy \/ StartEngine \/ StopEngine \/ ScaledElsewhere
  BY <1>1, ScalingElsewhere
  DEF RegisterPolicy, UnregisterPolicy, StartEngine, StopEngine, ScaledElsewhere
<1>2. ASSUME NEW l \in Loops, EvaluateLoopEnds(l)
      PROVE  OnPolicy' /\ (watched = 0 => scalings = 0)' /\ Budget'
  BY <1>2, ScalingElsewhere DEF EvaluateLoopEnds
<1>3. CASE UNCHANGED scalingVars
  BY <1>3, ScalingElsewhere DEF scalingVars
<1>4. ASSUME NEW e \in Evaluators, Evaluate(e)
      PROVE  OnPolicy' /\ (watched = 0 => scalings = 0)' /\ Budget'
  <2>1. policy \in Policies
    BY <1>4, ScalingAssumption DEF Evaluate, ScalingInv, ScalingTypeOK, Policies
  <2>2. OnPolicy'
    BY <1>4, <2>1 DEF Evaluate, ScalingInv, ScalingTypeOK, OnPolicy, Policies
  <2>3. UNCHANGED <<watched, scalings, Stale, Fresh, Decided, Closed>>
    BY <1>4 DEF Evaluate, watch, ScalingInv, ScalingTypeOK, Stale, Fresh, Decided, Closed
  <2> QED  BY <2>2, <2>3, BudgetUnchanged
<1>5. ASSUME NEW e \in Evaluators, ReadClock(e)
      PROVE  OnPolicy' /\ (watched = 0 => scalings = 0)' /\ Budget'
  <2>1. /\ UNCHANGED <<on, age, watched, window, scalings>>
        /\ progress' = [progress EXCEPT ![e] = "stamping"] /\ progress[e] = "scaled"
        /\ read' = [read EXCEPT ![e] = 0] /\ window \in Nat
    BY <1>5, ScalingAssumption DEF ReadClock, watch, ScalingInv, ScalingTypeOK
  <2>2. OnPolicy'
    BY <2>1 DEF ScalingInv, ScalingTypeOK, OnPolicy, Policies
  <2>3. read'[e] <= window /\ ~(read'[e] > window)
    BY <2>1 DEF ScalingInv, ScalingTypeOK
  <2>4. UNCHANGED <<Stale, Fresh, Decided, Closed>>
    BY <2>1, <2>3 DEF ScalingInv, ScalingTypeOK, Stale, Fresh, Decided, Closed
  <2> QED  BY <2>1, <2>2, <2>4, BudgetUnchanged
<1> QED  BY <1>1, <1>2, <1>3, <1>4, <1>5, TickKeepsBudget, WatchKeepsBudget, DecideKeepsBudget,
            ScaleKeepsBudget, StampKeepsBudget
         DEF ScalingNext

\* In any one cooldown n evaluators scale a policy at most n + ... + 1 times,
\* whatever loops and outside callers overlap and however late they write the
\* time of the last scaling: for any evaluators, policies and cooldown.
THEOREM ScalingsAreBounded == ScalingSpec => []ScalingsBounded
<1>1. ScalingInv => ScalingsBounded
  <2> SUFFICES ASSUME ScalingInv PROVE ScalingsBounded
    OBVIOUS
  <2>1. /\ Cardinality(Evaluators) \in Nat /\ Cardinality(Stale) \in Nat
        /\ Cardinality(Fresh) \in Nat /\ Cardinality(Decided) \in Nat
        /\ Cardinality(Stale) + Cardinality(Fresh) + Cardinality(Decided)
             <= Cardinality(Evaluators)
    BY KindsCounted DEF ScalingInv
  <2>2. scalings \in Nat /\ Closed \in BOOLEAN
    BY DEF ScalingInv, ScalingTypeOK, Closed
  <2>3. CASE watched = 0
    <3>1. 0 <= Cardinality(Evaluators) * (Cardinality(Evaluators) + 1)
      BY <2>1
    <3> QED  BY <2>3, <3>1 DEF ScalingInv, ScalingsBounded
  <2>4. CASE watched /= 0
    BY <2>1, <2>2, <2>4, WithinBounds DEF ScalingInv, Budget, ScalingsBounded
  <2> QED  BY <2>3, <2>4
<1> QED  BY <1>1, ScalingStarts, ScalingStep, PTL DEF ScalingSpec

-----------------------------------------------------------------------------
(* Promises *)

AtWork(r) == {a \in Approvers : of[a] = r /\ call[a] \in {"approve", "provision", "provisioned"}}

Open(r) == request[r] \in {Nothing, "awaiting"}

\* Nothing has been provisioned, nor is, of a request that can still be decided.
OpenIsUntouched ==
  \A r \in Requests : Open(r) =>
    /\ provisions[r] = 0 /\ instance[r] = Nothing
    /\ \A a \in Approvers : of[a] = r => call[a] \in {"request", "approve", "reject"}

\* The caller of a request is the only one at work on it.
Requesting ==
  \A a \in Approvers : call[a] = "request" =>
    request[of[a]] = Nothing /\ \A o \in Approvers : of[o] = of[a] => o = a

Occupied == \A a \in Approvers : call[a] /= "idle" => of[a] \in Requests

\* Each who is at work may provision once more.
Counting == \A r \in Requests : provisions[r] + Cardinality(AtWork(r)) <= Cardinality(Approvers)

PromiseInv == PromiseTypeOK /\ Occupied /\ Requesting /\ OpenIsUntouched /\ Counting

LEMMA PromiseStarts == PromiseInit => PromiseInv
<1> SUFFICES ASSUME PromiseInit PROVE PromiseInv
  OBVIOUS
<1>1. PromiseTypeOK
  BY DEF PromiseInit, PromiseTypeOK, PromiseStates
<1>2. Occupied /\ Requesting /\ OpenIsUntouched
  BY PromiseAssumption DEF PromiseInit, Occupied, Requesting, OpenIsUntouched
<1>3. Counting
  <2> SUFFICES ASSUME NEW r \in Requests
               PROVE  provisions[r] + Cardinality(AtWork(r)) <= Cardinality(Approvers)
    BY DEF Counting
  <2>1. AtWork(r) = {}
    BY DEF PromiseInit, AtWork
  <2> QED  BY <2>1, FS_EmptySet, FS_CardinalityType, PromiseAssumption DEF PromiseInit
<1> QED  BY <1>1, <1>2, <1>3 DEF PromiseInv

\* The bound lasts where nobody starts work and nothing is provisioned.
LEMMA CountLasts ==
  ASSUME PromiseInv, NEW r \in Requests,
         provisions'[r] = provisions[r], AtWork(r)' \subseteq AtWork(r)
  PROVE  provisions'[r] + Cardinality(AtWork(r)') <= Cardinality(Approvers)
<1>1. IsFiniteSet(AtWork(r))
  BY FS_Subset, PromiseAssumption DEF AtWork
<1>2. Cardinality(AtWork(r)') <= Cardinality(AtWork(r)) /\ IsFiniteSet(AtWork(r)')
  BY <1>1, FS_Subset
<1>3. Cardinality(AtWork(r)) \in Nat /\ Cardinality(AtWork(r)') \in Nat
      /\ Cardinality(Approvers) \in Nat /\ provisions[r] \in Nat
  BY <1>1, <1>2, FS_CardinalityType, PromiseAssumption DEF PromiseInv, PromiseTypeOK
<1> QED  BY <1>2, <1>3 DEF PromiseInv, Counting

\* And before anything is provisioned anybody may start.
LEMMA CountStarts ==
  ASSUME PromiseInv, NEW r \in Requests, provisions'[r] = 0
  PROVE  provisions'[r] + Cardinality(AtWork(r)') <= Cardinality(Approvers)
<1>1. AtWork(r)' \subseteq Approvers
  BY DEF AtWork
<1>2. Cardinality(AtWork(r)') <= Cardinality(Approvers)
      /\ Cardinality(AtWork(r)') \in Nat
  BY <1>1, FS_Subset, FS_CardinalityType, PromiseAssumption
<1> QED  BY <1>2

LEMMA PromiseTyped == PromiseTypeOK /\ Occupied /\ [PromiseNext]_promiseVars => PromiseTypeOK' /\ Occupied'
<1> SUFFICES ASSUME PromiseTypeOK, Occupied, [PromiseNext]_promiseVars
             PROVE  PromiseTypeOK' /\ Occupied'
  OBVIOUS
<1> USE DEF PromiseTypeOK, Occupied, PromiseStates, held
<1>1. CASE RegisterPromise \/ UnregisterPromise
  BY <1>1 DEF RegisterPromise, UnregisterPromise
<1>2. ASSUME NEW a \in Approvers, NEW r \in Requests,
             Request(a, r) \/ Approve(a, r) \/ Reject(a, r) \/ Delete(a, r)
      PROVE  PromiseTypeOK' /\ Occupied'
  BY <1>2 DEF Request, Approve, Reject, Delete, Begin
<1>3. ASSUME NEW a \in Approvers,
             Requested(a) \/ Approved(a) \/ Rejected(a) \/ Provision(a) \/ Provisioned(a)
               \/ RecordInstance(a) \/ Deleted(a)
      PROVE  PromiseTypeOK' /\ Occupied'
  <2>1. of[a] \in Requests
    BY <1>3
    DEF Requested, Approved, Rejected, Provision, Provisioned, RecordInstance, Deleted, Doing
  <2> USE DEF Doing, Become, Turn, End
  <2>2. CASE Requested(a)  BY <2>1, <2>2 DEF Requested
  <2>3. CASE Approved(a)  BY <2>1, <2>3 DEF Approved
  <2>4. CASE Rejected(a)  BY <2>1, <2>4 DEF Rejected
  <2>5. CASE Provision(a)  BY <2>1, <2>5 DEF Provision
  <2>6. CASE Provisioned(a)  BY <2>1, <2>6 DEF Provisioned
  <2>7. CASE RecordInstance(a)  BY <2>1, <2>7 DEF RecordInstance
  <2>8. CASE Deleted(a)  BY <2>1, <2>8 DEF Deleted
  <2> QED  BY <1>3, <2>2, <2>3, <2>4, <2>5, <2>6, <2>7, <2>8
<1>4. CASE UNCHANGED promiseVars  BY <1>4 DEF promiseVars
<1> QED  BY <1>1, <1>2, <1>3, <1>4 DEF PromiseNext

\* What a step of one caller on one request has to keep.
LEMMA OrderKept ==
  ASSUME PromiseInv, NEW a \in Approvers, NEW r \in Requests,
         \A b \in Approvers : b /= a => call'[b] = call[b] /\ of'[b] = of[b],
         \A q \in Requests : q /= r =>
           request'[q] = request[q] /\ instance'[q] = instance[q] /\ provisions'[q] = provisions[q],
         call'[a] /= "request", of'[a] \in {r, Nothing},
         \A b \in Approvers : b /= a /\ call[b] = "request" => of[b] /= r,
         Open(r)' => /\ provisions'[r] = 0 /\ instance'[r] = Nothing
                     /\ \A b \in Approvers : of'[b] = r => call'[b] \in {"request", "approve", "reject"}
  PROVE  Requesting' /\ OpenIsUntouched'
<1>1. ASSUME NEW b \in Approvers, call'[b] = "request"
      PROVE  request'[of'[b]] = Nothing /\ \A o \in Approvers : of'[o] = of'[b] => o = b
  <2>1. b /= a /\ call[b] = "request" /\ of'[b] = of[b] /\ of[b] /= r /\ of[b] \in Requests
    BY <1>1 DEF PromiseInv, Occupied
  <2>2. request'[of[b]] = Nothing
    BY <2>1 DEF PromiseInv, Requesting
  <2>3. \A o \in Approvers : of'[o] = of[b] => o = b
    BY <2>1, PromiseAssumption DEF PromiseInv, Requesting
  <2> QED  BY <2>1, <2>2, <2>3
<1>2. ASSUME NEW q \in Requests, q /= r, Open(q)'
      PROVE  /\ provisions'[q] = 0 /\ instance'[q] = Nothing
             /\ \A b \in Approvers : of'[b] = q => call'[b] \in {"request", "approve", "reject"}
  <2>1. Open(q)
    BY <1>2 DEF Open
  <2>2. ASSUME NEW b \in Approvers, of'[b] = q PROVE call'[b] \in {"request", "approve", "reject"}
    <3>1. b /= a
      BY <1>2, <2>2, PromiseAssumption
    <3> QED  BY <2>1, <2>2, <3>1 DEF PromiseInv, OpenIsUntouched
  <2> QED  BY <1>2, <2>1, <2>2 DEF PromiseInv, OpenIsUntouched
<1> QED  BY <1>1, <1>2 DEF Requesting, OpenIsUntouched

LEMMA PromiseOrder == PromiseInv /\ [PromiseNext]_promiseVars => Requesting' /\ OpenIsUntouched'
<1> SUFFICES ASSUME PromiseInv, [PromiseNext]_promiseVars PROVE Requesting' /\ OpenIsUntouched'
  OBVIOUS
<1> USE DEF PromiseInv, PromiseTypeOK, PromiseStates, held
<1>1. CASE RegisterPromise \/ UnregisterPromise \/ UNCHANGED promiseVars
  BY <1>1
  DEF RegisterPromise, UnregisterPromise, promiseVars, Requesting, OpenIsUntouched, Open
<1>2. ASSUME NEW a \in Approvers, NEW r \in Requests, Request(a, r)
      PROVE  Requesting' /\ OpenIsUntouched'
  BY <1>2, PromiseAssumption
  DEF Request, Begin, Occupied, Requesting, OpenIsUntouched, Open
<1>3. ASSUME NEW a \in Approvers, NEW r \in Requests,
             Approve(a, r) \/ Reject(a, r) \/ Delete(a, r)
      PROVE  Requesting' /\ OpenIsUntouched'
  <2>1. request[r] /= Nothing /\ (instance[r] = Nothing \/ ~Open(r))
    BY <1>3, PromiseAssumption
    DEF Approve, Reject, Delete, MayDecide, OpenIsUntouched, Open
  <2>2. \A b \in Approvers : b /= a /\ call[b] = "request" => of[b] /= r
    BY <2>1 DEF Requesting
  <2>3. Open(r)' => Open(r) /\ (Approve(a, r) \/ Reject(a, r))
    BY <1>3, <2>1 DEF Approve, Reject, Delete, Open
  <2>4. Open(r)' => /\ provisions'[r] = 0 /\ instance'[r] = Nothing
                    /\ \A b \in Approvers : of'[b] = r => call'[b] \in {"request", "approve", "reject"}
    BY <2>3 DEF Approve, Reject, Begin, OpenIsUntouched
  <2>5. /\ \A b \in Approvers : b /= a => call'[b] = call[b] /\ of'[b] = of[b]
        /\ call'[a] /= "request" /\ of'[a] = r
    BY <1>3 DEF Approve, Reject, Delete, Begin
  <2>6. \A q \in Requests : q /= r =>
          request'[q] = request[q] /\ instance'[q] = instance[q] /\ provisions'[q] = provisions[q]
    BY <1>3 DEF Approve, Reject, Delete, Begin
  <2> QED  BY <2>2, <2>4, <2>5, <2>6, OrderKept
<1>4. ASSUME NEW a \in Approvers,
             Requested(a) \/ Approved(a) \/ Rejected(a) \/ Provision(a) \/ Provisioned(a)
               \/ RecordInstance(a) \/ Deleted(a)
      PROVE  Requesting' /\ OpenIsUntouched'
  <2>1. of[a] \in Requests /\ call[a] /= "idle"
    BY <1>4
    DEF Requested, Approved, Rejected, Provision, Provisioned, RecordInstance, Deleted, Doing, Occupied
  <2>r. PICK r \in Requests : r = of[a]
    BY <2>1
  <2>2. \A b \in Approvers : b /= a /\ call[b] = "request" => of[b] /= r
    BY <2>1, <2>r DEF Requesting
  <2> USE DEF Become, Turn, End
  <2>3. \A b \in Approvers : b /= a => call'[b] = call[b] /\ of'[b] = of[b]
    BY <1>4, <2>r DEF Requested, Approved, Rejected, Provision, Provisioned, RecordInstance, Deleted
  <2>4. call'[a] /= "request" /\ of'[a] \in {r, Nothing}
    BY <1>4, <2>r DEF Requested, Approved, Rejected, Provision, Provisioned, RecordInstance, Deleted
  <2>5. \A q \in Requests : q /= r =>
          request'[q] = request[q] /\ instance'[q] = instance[q] /\ provisions'[q] = provisions[q]
    BY <1>4, <2>r DEF Requested, Approved, Rejected, Provision, Provisioned, RecordInstance, Deleted
  <2>6. Open(r)' => /\ Open(r) /\ provisions'[r] = provisions[r] /\ instance'[r] = instance[r]
                    /\ of'[a] = Nothing
    <3>1. Open(r) => call[a] \in {"request", "approve", "reject"}
      BY <2>1, <2>r DEF OpenIsUntouched
    <3>2. CASE Requested(a)
      BY <2>1, <2>r, <3>2, PromiseAssumption DEF Requested, Doing, Requesting, Open
    <3>3. CASE Approved(a) \/ Rejected(a)
      BY <2>1, <2>r, <3>3, PromiseAssumption DEF Approved, Rejected, Doing, Open
    <3>4. CASE Provision(a) \/ Provisioned(a)
      BY <2>1, <2>r, <3>4, PromiseAssumption DEF Provision, Provisioned, Doing, Open
    <3>5. CASE RecordInstance(a)
      BY <2>1, <2>r, <3>1, <3>5, PromiseAssumption DEF RecordInstance, Doing, Open
    <3>6. CASE Deleted(a)
      BY <2>1, <2>r, <3>1, <3>6, PromiseAssumption DEF Deleted, Doing, Open
    <3> QED  BY <1>4, <3>2, <3>3, <3>4, <3>5, <3>6
  <2>7. Open(r)' => /\ provisions'[r] = 0 /\ instance'[r] = Nothing
                    /\ \A b \in Approvers : of'[b] = r => call'[b] \in {"request", "approve", "reject"}
    BY <2>1, <2>r, <2>3, <2>6, PromiseAssumption DEF OpenIsUntouched
  <2> QED  BY <2>2, <2>3, <2>4, <2>5, <2>7, OrderKept
<1> QED  BY <1>1, <1>2, <1>3, <1>4 DEF PromiseNext

LEMMA PromiseCount == PromiseInv /\ [PromiseNext]_promiseVars => Counting'
<1> SUFFICES ASSUME PromiseInv, [PromiseNext]_promiseVars, NEW r \in Requests
             PROVE  provisions'[r] + Cardinality(AtWork(r)') <= Cardinality(Approvers)
  BY DEF Counting
<1> USE DEF PromiseInv, PromiseTypeOK, held
<1>1. CASE RegisterPromise \/ UnregisterPromise \/ UNCHANGED promiseVars
  BY <1>1, CountLasts DEF RegisterPromise, UnregisterPromise, promiseVars, AtWork
<1>2. ASSUME NEW a \in Approvers, NEW q \in Requests, Approve(a, q)
      PROVE  provisions'[r] + Cardinality(AtWork(r)') <= Cardinality(Approvers)
  <2>1. CASE q = r
    BY <1>2, <2>1, CountStarts DEF Approve, MayDecide, OpenIsUntouched, Open
  <2>2. CASE q /= r
    BY <1>2, <2>2, CountLasts DEF Approve, Begin, AtWork
  <2> QED  BY <2>1, <2>2
<1>3. ASSUME NEW a \in Approvers, NEW q \in Requests,
             Request(a, q) \/ Reject(a, q) \/ Delete(a, q)
      PROVE  provisions'[r] + Cardinality(AtWork(r)') <= Cardinality(Approvers)
  BY <1>3, CountLasts DEF Request, Reject, Delete, Begin, AtWork
<1>4. ASSUME NEW a \in Approvers, Requested(a)
      PROVE  provisions'[r] + Cardinality(AtWork(r)') <= Cardinality(Approvers)
  <2>1. CASE of[a] = r
    BY <1>4, <2>1, CountStarts DEF Requested, Doing, Requesting, OpenIsUntouched, Open
  <2>2. CASE of[a] /= r
    BY <1>4, <2>2, CountLasts DEF Requested, Doing, Turn, End, AtWork
  <2> QED  BY <2>1, <2>2
<1>5. ASSUME NEW a \in Approvers,
             Approved(a) \/ Rejected(a) \/ Provision(a) \/ RecordInstance(a) \/ Deleted(a)
      PROVE  provisions'[r] + Cardinality(AtWork(r)') <= Cardinality(Approvers)
  BY <1>5, CountLasts
  DEF Approved, Rejected, Provision, RecordInstance, Deleted, Doing, Turn, End, AtWork
<1>6. ASSUME NEW a \in Approvers, Provisioned(a)
      PROVE  provisions'[r] + Cardinality(AtWork(r)') <= Cardinality(Approvers)
  <2>1. AtWork(r)' \subseteq AtWork(r)
    BY <1>6 DEF Provisioned, Doing, Turn, End, AtWork
  <2>2. CASE provisions'[r] = provisions[r]
    BY <2>1, <2>2, CountLasts
  <2>3. CASE provisions'[r] /= provisions[r]
    <3>1. of[a] = r /\ provisions'[r] = provisions[r] + 1
      BY <1>6, <2>3 DEF Provisioned
    <3>2. a \in AtWork(r)
      BY <1>6, <3>1 DEF Provisioned, Doing, AtWork
    <3>3. a \notin AtWork(r)'
      BY <1>6, <2>3 DEF Provisioned, Turn, AtWork
    <3>4. IsFiniteSet(AtWork(r))
      BY FS_Subset, PromiseAssumption DEF AtWork
    <3>5. Cardinality(AtWork(r) \ {a}) = Cardinality(AtWork(r)) - 1
          /\ IsFiniteSet(AtWork(r) \ {a})
      BY <3>2, <3>4, FS_RemoveElement
    <3>6. Cardinality(AtWork(r)') <= Cardinality(AtWork(r) \ {a}) /\ IsFiniteSet(AtWork(r)')
      BY <2>1, <3>3, <3>5, FS_Subset
    <3>7. Cardinality(AtWork(r)) \in Nat /\ Cardinality(AtWork(r)') \in Nat
          /\ Cardinality(Approvers) \in Nat /\ provisions[r] \in Nat
      BY <3>4, <3>6, FS_CardinalityType, PromiseAssumption
    <3> QED  BY <3>1, <3>5, <3>6, <3>7 DEF Counting
  <2> QED  BY <2>2, <2>3
<1> QED  BY <1>1, <1>2, <1>3, <1>4, <1>5, <1>6 DEF PromiseNext

\* Of one request there are no more provisionings than callers, for any
\* requests and callers: each decides at most once before the state moves on.
THEOREM OncePerCaller == PromiseSpec => []ProvisionedPerCaller
<1>1. PromiseInv => ProvisionedPerCaller
  <2> SUFFICES ASSUME PromiseInv, NEW r \in Requests
               PROVE  provisions[r] <= Cardinality(Approvers)
    BY DEF ProvisionedPerCaller
  <2>1. Cardinality(AtWork(r)) \in Nat
    BY FS_Subset, FS_CardinalityType, PromiseAssumption DEF AtWork
  <2> QED  BY <2>1, FS_CardinalityType, PromiseAssumption
           DEF PromiseInv, PromiseTypeOK, Counting
<1>2. PromiseInv /\ [PromiseNext]_promiseVars => PromiseInv'
  BY PromiseTyped, PromiseOrder, PromiseCount DEF PromiseInv
<1> QED  BY <1>1, <1>2, PromiseStarts, PTL DEF PromiseSpec

-----------------------------------------------------------------------------
(* Deployment intents *)

Operations == [op : {"shift", "set", "check", "remove", "gate"}, weight : 0..100]

LEMMA OperationsOf ==
  /\ \A w \in 0..100 : Shift(w) \in Operations /\ Shift(w).op = "shift" /\ Shift(w).weight = w
  /\ \A o \in {"set", "check", "remove", "gate"} : Do(o) \in Operations /\ Do(o).op = o
  BY DEF Shift, Do, Operations

\* A sequence of operations of which only the first may shift the traffic.
ShiftsFirst(p) ==
  /\ p \in Seq(Operations) /\ p /= <<>>
  /\ \A j \in 1..Len(p) : j > 1 => p[j].op /= "shift"

LEMMA MorePlanned ==
  ASSUME NEW p, ShiftsFirst(p), NEW q \in Seq(Operations), \A j \in 1..Len(q) : q[j].op /= "shift"
  PROVE  ShiftsFirst(p \o q)
<1>1. p \in Seq(Operations) /\ Len(p) >= 1
  BY DEF ShiftsFirst
<1>2. /\ p \o q \in Seq(Operations) /\ Len(p \o q) = Len(p) + Len(q)
      /\ \A j \in 1..Len(p) : (p \o q)[j] = p[j]
      /\ \A j \in Len(p) + 1 .. Len(p) + Len(q) : (p \o q)[j] = q[j - Len(p)]
  BY <1>1
<1>3. ASSUME NEW j \in 1..Len(p \o q), j > 1 PROVE (p \o q)[j].op /= "shift"
  <2>1. CASE j <= Len(p)
    BY <1>1, <1>2, <1>3, <2>1 DEF ShiftsFirst
  <2>2. CASE ~(j <= Len(p))
    <3>1. j - Len(p) \in 1..Len(q)
      BY <1>1, <1>2, <2>2
    <3> QED  BY <1>1, <1>2, <2>2, <3>1
  <2> QED  BY <2>1, <2>2
<1> QED  BY <1>1, <1>2, <1>3 DEF ShiftsFirst

LEMMA StepPlanned == ASSUME NEW s \in TrafficSteps PROVE ShiftsFirst(StepPlan(s))
<1> DEFINE Header == IF s.header THEN <<Do("set")>> ELSE <<>>
           Gate == IF s.gate THEN <<Do("gate")>> ELSE <<>>
           Checks == <<Do("check")>>
           First == <<Shift(s.weight)>>
<1>1. Header \in Seq(Operations) /\ (\A j \in 1..Len(Header) : Header[j].op /= "shift")
  <2>1. Do("set") \in Operations /\ Do("set").op /= "shift"
    BY OperationsOf
  <2>2. CASE s.header
    BY <2>1, <2>2
  <2>3. CASE ~s.header
    BY <2>3
  <2> QED  BY <2>2, <2>3
<1>2. Gate \in Seq(Operations) /\ (\A j \in 1..Len(Gate) : Gate[j].op /= "shift")
  <2>1. Do("gate") \in Operations /\ Do("gate").op /= "shift"
    BY OperationsOf
  <2>2. CASE s.gate
    BY <2>1, <2>2
  <2>3. CASE ~s.gate
    BY <2>3
  <2> QED  BY <2>2, <2>3
<1>3. Checks \in Seq(Operations) /\ (\A j \in 1..Len(Checks) : Checks[j].op /= "shift")
  <2>1. Do("check") \in Operations /\ Do("check").op /= "shift"
    BY OperationsOf
  <2> QED  BY <2>1
<1>4. ShiftsFirst(First)
  <2>1. Shift(s.weight) \in Operations
    BY OperationsOf DEF TrafficSteps
  <2> QED  BY <2>1 DEF ShiftsFirst
<1>5. StepPlan(s) = ((First \o Header) \o Checks) \o Gate
  BY DEF StepPlan
<1> HIDE DEF First, Header, Gate, Checks
<1>6. ShiftsFirst(First \o Header)
  BY <1>1, <1>4, MorePlanned
<1>7. ShiftsFirst((First \o Header) \o Checks)
  BY <1>3, <1>6, MorePlanned
<1> QED  BY <1>2, <1>5, <1>7, MorePlanned

\* What a strategy does in a phase: only the first operation shifts the traffic,
\* the last phase begins by shifting it to where it stays, and the first of blue-green ends
\* by removing the header routing.
LEMMA Planned ==
  ASSUME NEW s \in Strategies, NEW i \in 1..Phases(s)
  PROVE  /\ ShiftsFirst(Plan(s, i))
         /\ i = Phases(s) => Plan(s, i)[1] = Shift(Target(s))
         /\ s.kind = "blue-green" =>
              /\ Phases(s) = 2
              /\ i = 1 => Plan(s, i)[Len(Plan(s, i))].op = "remove"
              /\ i = 2 => Len(Plan(s, i)) = 1
<1>1. CASE s.kind = "canary"
  <2>1. Len(s.steps) \in Nat /\ Phases(s) = Len(s.steps) + 1
    BY <1>1, StrategiesAssumption DEF Phases
  <2>2. CASE i <= Len(s.steps)
    <3>1. s.steps[i] \in TrafficSteps
      BY <2>1, <2>2, StrategiesAssumption
    <3>2. Plan(s, i) = StepPlan(s.steps[i])
      BY <1>1, <2>2 DEF Plan
    <3> QED  BY <1>1, <2>1, <2>2, <3>1, <3>2, StepPlanned
  <2>3. CASE ~(i <= Len(s.steps))
    <3>1. Plan(s, i) = <<Shift(100)>>
      BY <1>1, <2>3 DEF Plan
    <3>2. Shift(100) \in Operations
      BY OperationsOf
    <3> QED  BY <1>1, <3>1, <3>2 DEF Target, ShiftsFirst
  <2> QED  BY <2>2, <2>3
<1>2. CASE s.kind = "rolling"
  <2>1. Phases(s) = Len(s.steps) /\ Plan(s, i) = <<Shift(s.steps[i].weight), Do("check")>>
    BY <1>2 DEF Phases, Plan, RollingPlan
  <2>2. s.steps[i] \in TrafficSteps
    BY <2>1, StrategiesAssumption
  <2>3. i = Phases(s) => s.steps[i].weight = Target(s)
    BY <1>2, <2>1 DEF Target
  <2>4. Shift(s.steps[i].weight) \in Operations /\ Do("check") \in Operations /\ Do("check").op = "check"
    BY <2>2, OperationsOf DEF TrafficSteps
  <2> QED  BY <1>2, <2>1, <2>3, <2>4 DEF ShiftsFirst
<1>3. CASE s.kind = "blue-green"
  <2>1. /\ Phases(s) = 2
        /\ i = 1 => Plan(s, i) = <<Do("set"), Do("check"), Do("remove")>>
        /\ i = 2 => Plan(s, i) = <<Shift(100)>>
    BY <1>3 DEF Phases, Plan
  <2>2. CASE i = 1
    <3>1. /\ Do("set") \in Operations /\ Do("set").op = "set"
          /\ Do("check") \in Operations /\ Do("check").op = "check"
          /\ Do("remove") \in Operations /\ Do("remove").op = "remove"
      BY OperationsOf
    <3>2. ShiftsFirst(<<Do("set"), Do("check"), Do("remove")>>)
      BY <3>1 DEF ShiftsFirst
    <3>3. Len(Plan(s, i)) = 3 /\ Plan(s, i)[3] = Do("remove")
      BY <2>1, <2>2
    <3> QED  BY <1>3, <2>1, <2>2, <3>1, <3>2, <3>3
  <2>3. CASE i = 2
    <3>1. Shift(100) \in Operations
      BY OperationsOf
    <3>2. ShiftsFirst(<<Shift(100)>>)
      BY <3>1 DEF ShiftsFirst
    <3> QED  BY <1>3, <2>1, <2>3, <3>1, <3>2 DEF Target
  <2>4. i = 1 \/ i = 2
    BY <2>1
  <2> QED  BY <2>2, <2>3, <2>4
<1>4. CASE s.kind = "recreate"
  <2>1. /\ Phases(s) = 2
        /\ i = 1 => Plan(s, i) = <<Shift(0)>>
        /\ i = 2 => Plan(s, i) = <<Shift(100)>>
    BY <1>4 DEF Phases, Plan
  <2>2. CASE i = 1
    <3>1. Shift(0) \in Operations
      BY OperationsOf
    <3>2. ShiftsFirst(<<Shift(0)>>)
      BY <3>1 DEF ShiftsFirst
    <3> QED  BY <1>4, <2>1, <2>2, <3>1, <3>2
  <2>3. CASE i = 2
    <3>1. Shift(100) \in Operations
      BY OperationsOf
    <3>2. ShiftsFirst(<<Shift(100)>>)
      BY <3>1 DEF ShiftsFirst
    <3> QED  BY <1>4, <2>1, <2>3, <3>1, <3>2 DEF Target
  <2>4. i = 1 \/ i = 2
    BY <2>1
  <2> QED  BY <2>2, <2>3, <2>4
<1> QED  BY <1>1, <1>2, <1>3, <1>4, StrategiesAssumption DEF Kinds

LEMMA PhasesAreNat == ASSUME NEW s \in Strategies PROVE Phases(s) \in Nat
  BY StrategiesAssumption DEF Phases

Executing(r) == at[r] \notin {"idle", "approved"}

\* A runner is at an operation of the plan or behind the last one.
Positioned ==
  \A r \in Runners : at[r] = "running" =>
    /\ phase[r] \in 1..(Phases(strategy) + 1)
    /\ phase[r] <= Phases(strategy) => next[r] \in 1..Len(Plan(strategy, phase[r]))

\* What the operations that are done have made of the traffic.
TrafficFollows ==
  \A r \in Runners : at[r] = "running" =>
    /\ (phase[r] > Phases(strategy) \/ (phase[r] = Phases(strategy) /\ next[r] > 1))
         => weight = Target(strategy)
    /\ (strategy.kind = "blue-green" /\ phase[r] > 1) => ~headers

Final == {"succeeded", "rolled_back"}

\* An execution is alone,
OneExecutes == \A r, o \in Runners : Executing(r) /\ Executing(o) => r = o

\* it has no outcome yet,
OutcomeIsLast == \A r \in Runners : Executing(r) => status \notin Final

\* and the outcome of the last one shows in the traffic.
OutcomeHolds ==
  /\ status = "succeeded" => weight = Target(strategy) /\ (strategy.kind = "blue-green" => ~headers)
  /\ status = "rolled_back" => weight = 0

RolledBack == \A r \in Runners : at[r] = "rolled back" => weight = 0

IntentInv ==
  /\ IntentTypeOK /\ Positioned
  /\ ~overlapped => TrafficFollows /\ OneExecutes /\ OutcomeIsLast /\ OutcomeHolds /\ RolledBack

LEMMA IntentStarts == IntentInit => IntentInv
<1> SUFFICES ASSUME IntentInit PROVE IntentInv
  OBVIOUS
<1>1. runs \in 0..MaxRuns
  BY StrategiesAssumption DEF IntentInit
<1>2. phase \in [Runners -> Nat] /\ next \in [Runners -> Nat] /\ weight \in 0..100
  BY DEF IntentInit
<1>3. IntentTypeOK
  BY <1>1, <1>2 DEF IntentInit, IntentTypeOK
<1> QED  BY <1>3 DEF IntentInit, IntentInv, Positioned, TrafficFollows, OneExecutes, OutcomeIsLast,
                     OutcomeHolds, RolledBack, Executing

\* A runner goes on to anything but an operation of the plan.
LEMMA RunnerMoves ==
  ASSUME IntentInv, NEW r \in Runners,
         NEW a \in {"idle", "approved", "failing", "rollback", "rolled back", "pausing"},
         at' = [at EXCEPT ![r] = a], IntentTypeOK', UNCHANGED <<strategy, phase, next, overlapped>>,
         Executing(r) \/ (a \in {"idle", "approved"} /\ UNCHANGED deployed
                            /\ (status' = status \/ status' \notin Final)),
         ~overlapped => /\ OutcomeHolds' /\ (a = "rolled back" => weight' = 0)
                        /\ a \notin {"idle", "approved"} => status' \notin Final
  PROVE  IntentInv'
<1>1. IntentTypeOK /\ Positioned
  BY DEF IntentInv
<1>2. at'[r] = a /\ a /= "running" /\ \A q \in Runners \ {r} : at'[q] = at[q]
  BY <1>1 DEF IntentTypeOK
<1>3. Positioned'
  BY <1>1, <1>2 DEF Positioned
<1>4. ASSUME ~overlapped'
      PROVE  TrafficFollows' /\ OneExecutes' /\ OutcomeIsLast' /\ OutcomeHolds' /\ RolledBack'
  <2>1. TrafficFollows /\ OneExecutes /\ OutcomeIsLast /\ OutcomeHolds /\ RolledBack
    BY <1>4 DEF IntentInv
  <2>2. Executing(r) => \A q \in Runners \ {r} : ~Executing(q)
    BY <2>1 DEF OneExecutes
  <2>3. TrafficFollows'
    BY <1>2, <2>1, <2>2 DEF TrafficFollows, Executing, deployed
  <2>4. OneExecutes'
    BY <1>2, <2>1, <2>2 DEF OneExecutes, Executing
  <2>5. OutcomeIsLast'
    BY <1>2, <1>4, <2>1, <2>2 DEF OutcomeIsLast, Executing
  <2>6. RolledBack'
    BY <1>2, <1>4, <2>1, <2>2 DEF RolledBack, Executing, deployed
  <2> QED  BY <1>4, <2>3, <2>4, <2>5, <2>6
<1> QED  BY <1>3, <1>4 DEF IntentInv

\* One operation of the plan.
LEMMA OperationKeeps == ASSUME IntentInv, NEW r \in Runners, Operation(r) PROVE IntentInv'
<1> DEFINE plan == Plan(strategy, phase[r])
           o == plan[next[r]]
<1>1. IntentTypeOK /\ Positioned /\ strategy' = strategy /\ overlapped' = overlapped
  BY DEF IntentInv, Operation
<1>2. /\ strategy \in Strategies /\ Phases(strategy) \in Nat
      /\ phase[r] \in 1..Phases(strategy) /\ next[r] \in 1..Len(plan)
  <2>1. strategy \in Strategies /\ phase[r] <= Phases(strategy)
    BY <1>1 DEF IntentTypeOK, Operation
  <2>2. at[r] = "running"
    BY DEF Operation
  <2> QED  BY <1>1, <2>1, <2>2, PhasesAreNat DEF Positioned
<1>3. /\ plan \in Seq(Operations) /\ plan /= <<>>
      /\ \A j \in 1..Len(plan) : j > 1 => plan[j].op /= "shift"
      /\ phase[r] = Phases(strategy) => plan[1] = Shift(Target(strategy))
      /\ strategy.kind = "blue-green" =>
           /\ Phases(strategy) = 2
           /\ phase[r] = 1 => plan[Len(plan)].op = "remove"
           /\ phase[r] = 2 => Len(plan) = 1
  BY <1>2, Planned DEF ShiftsFirst
<1>4. o \in Operations
  BY <1>2, <1>3
<1>5. \/ o.op /= "gate" /\ Effect(o) /\ Advance(r) /\ UNCHANGED <<at, status>>
      \/ Effect(o) /\ Goto(r, "failing") /\ UNCHANGED <<phase, next, status>>
      \/ /\ Goto(r, "failing") /\ UNCHANGED <<phase, next, deployed>>
         /\ status' \in {status, "paused"}
  BY DEF Operation
<1>6. UNCHANGED <<intent, persisted, runs>>
  BY DEF Operation
<1>7. at[r] = "running"
  BY DEF Operation
<1> HIDE DEF plan, o
<1>8. Effect(o) => weight' \in 0..100 /\ headers' \in BOOLEAN
  BY <1>1, <1>4 DEF Effect, Operations, IntentTypeOK
<1>a. CASE o.op /= "gate" /\ Effect(o) /\ Advance(r) /\ UNCHANGED <<at, status>>
  <2>1. /\ phase' \in [Runners -> Nat] /\ next' \in [Runners -> Nat]
        /\ \A q \in Runners \ {r} : phase'[q] = phase[q] /\ next'[q] = next[q]
        /\ \/ next[r] < Len(plan) /\ phase'[r] = phase[r] /\ next'[r] = next[r] + 1
           \/ next[r] = Len(plan) /\ phase'[r] = phase[r] + 1 /\ next'[r] = 1
    <3>1. phase \in [Runners -> Nat] /\ next \in [Runners -> Nat]
      BY <1>1 DEF IntentTypeOK
    <3>2. Len(plan) \in Nat
      BY <1>3
    <3> QED  BY <1>2, <1>a, <3>1, <3>2 DEF Advance, plan
  <2>2. IntentTypeOK'
    BY <1>1, <1>6, <1>8, <1>a, <2>1 DEF IntentTypeOK
  <2>3. Positioned'
    <3> SUFFICES ASSUME NEW q \in Runners, at[q] = "running"
                 PROVE  /\ phase'[q] \in 1..(Phases(strategy) + 1)
                        /\ phase'[q] <= Phases(strategy) => next'[q] \in 1..Len(Plan(strategy, phase'[q]))
      BY <1>1, <1>a DEF Positioned
    <3>1. CASE q /= r
      BY <1>1, <2>1, <3>1 DEF Positioned
    <3>2. CASE q = r /\ phase'[r] = phase[r]
      BY <1>2, <1>3, <2>1, <3>2 DEF plan
    <3>3. CASE q = r /\ phase'[r] = phase[r] + 1
      <4>1. phase'[r] <= Phases(strategy) =>
              Plan(strategy, phase'[r]) \in Seq(Operations) /\ Plan(strategy, phase'[r]) /= <<>>
        BY <1>2, <3>3, Planned DEF ShiftsFirst
      <4> QED  BY <1>2, <2>1, <3>3, <4>1
    <3> QED  BY <2>1, <3>1, <3>2, <3>3
  <2>4. ASSUME ~overlapped'
        PROVE  TrafficFollows' /\ OneExecutes' /\ OutcomeIsLast' /\ OutcomeHolds' /\ RolledBack'
    <3>1. TrafficFollows /\ OneExecutes /\ OutcomeIsLast /\ OutcomeHolds /\ RolledBack
      BY <1>1, <2>4 DEF IntentInv
    <3>2. \A q \in Runners : Executing(q) => q = r
      BY <1>7, <3>1 DEF OneExecutes, Executing
    <3>3. TrafficFollows'
      <4> SUFFICES /\ (phase'[r] > Phases(strategy) \/ (phase'[r] = Phases(strategy) /\ next'[r] > 1))
                        => weight' = Target(strategy)
                   /\ (strategy.kind = "blue-green" /\ phase'[r] > 1) => ~headers'
        BY <1>1, <1>a, <3>2 DEF TrafficFollows, Executing
      <4>1. phase[r] = Phases(strategy) => weight' = Target(strategy)
        <5>1. CASE next[r] = 1
          BY <1>3, <1>a, <5>1 DEF Effect, Shift, o
        <5>2. CASE next[r] > 1
          BY <1>2, <1>3, <1>7, <1>a, <3>1, <5>2 DEF Effect, TrafficFollows, o
        <5> QED  BY <1>2, <5>1, <5>2
      <4>2. ASSUME strategy.kind = "blue-green", phase'[r] > 1 PROVE ~headers'
        <5>1. CASE phase[r] = 1
          <6>1. next[r] = Len(plan)
            BY <2>1, <4>2, <5>1
          <6>2. o.op = "remove"
            BY <1>3, <4>2, <5>1, <6>1 DEF o
          <6> QED  BY <1>a, <6>2 DEF Effect
        <5>2. CASE phase[r] = 2
          <6>1. Len(plan) = 1 /\ plan[1] = Shift(100)
            BY <1>3, <4>2, <5>2 DEF Target
          <6>2. o.op = "shift"
            BY <1>2, <6>1, OperationsOf DEF o
          <6>3. ~headers
            BY <1>7, <3>1, <4>2, <5>2 DEF TrafficFollows
          <6> QED  BY <1>a, <6>2, <6>3 DEF Effect
        <5> QED  BY <1>2, <1>3, <4>2, <5>1, <5>2
      <4> QED  BY <1>2, <2>1, <4>1, <4>2
    <3>4. status' \notin Final /\ \A q \in Runners : at[q] /= "rolled back"
      BY <1>7, <1>a, <3>1, <3>2 DEF OutcomeIsLast, Executing
    <3>5. OneExecutes' /\ OutcomeIsLast' /\ OutcomeHolds' /\ RolledBack'
      BY <1>a, <3>1, <3>4 DEF OneExecutes, OutcomeIsLast, OutcomeHolds, RolledBack, Executing, Final
    <3> QED  BY <3>3, <3>5
  <2> QED  BY <2>2, <2>3, <2>4 DEF IntentInv
<1>b. CASE Goto(r, "failing") /\ UNCHANGED <<phase, next>> /\ (Effect(o) \/ UNCHANGED deployed)
           /\ status' \in {status, "paused"}
  <2>1. weight' \in 0..100 /\ headers' \in BOOLEAN
    BY <1>1, <1>8, <1>b DEF IntentTypeOK, deployed
  <2>2. at' = [at EXCEPT ![r] = "failing"]
    BY <1>b DEF Goto
  <2>3. IntentTypeOK'
    BY <1>1, <1>6, <1>b, <2>1, <2>2 DEF IntentTypeOK
  <2>4. ~overlapped => status' \notin Final
    BY <1>7, <1>b DEF IntentInv, OutcomeIsLast, Executing, Final
  <2>5. Executing(r) /\ (status' \notin Final => OutcomeHolds')
    BY <1>7 DEF Executing, OutcomeHolds, Final
  <2>6. UNCHANGED <<strategy, phase, next, overlapped>>
    BY <1>1, <1>b
  <2> HIDE DEF Final
  <2> QED  BY <1>1, <2>2, <2>3, <2>4, <2>5, <2>6, RunnerMoves
<1> QED  BY <1>5, <1>a, <1>b

LEMMA IntentTyped == IntentInv /\ [IntentNext]_intentVars => IntentTypeOK'
<1> SUFFICES ASSUME IntentInv, [IntentNext]_intentVars PROVE IntentTypeOK'
  OBVIOUS
<1>0. IntentTypeOK
  BY DEF IntentInv
<1>1. CASE CreateIntent \/ DeleteIntent \/ CancelIntent
  BY <1>0, <1>1 DEF CreateIntent, DeleteIntent, CancelIntent, deployed, runners, IntentTypeOK
<1>2. ASSUME NEW r \in Runners, ApproveIntent(r) \/ Succeed(r) PROVE IntentTypeOK'
  BY <1>0, <1>2 DEF ApproveIntent, Succeed, Goto, deployed, IntentTypeOK
<1>3. ASSUME NEW r \in Runners, ExecuteIntent(r) PROVE IntentTypeOK'
  <2>1. runs' \in 0..MaxRuns
    <3>1. runs \in 0..MaxRuns
      BY <1>0 DEF IntentTypeOK
    <3>2. runs' = runs \/ (runs < MaxRuns /\ runs' = runs + 1)
      BY <1>3 DEF ExecuteIntent
    <3>3. MaxRuns \in Nat
      BY StrategiesAssumption
    <3> QED  BY <3>1, <3>2, <3>3
  <2>2. overlapped' \in BOOLEAN
    BY <1>0, <1>3 DEF ExecuteIntent, IntentTypeOK
  <2>3. phase' \in [Runners -> Nat] /\ next' \in [Runners -> Nat]
    <3>1. phase \in [Runners -> Nat] /\ next \in [Runners -> Nat]
      BY <1>0 DEF IntentTypeOK
    <3> QED  BY <1>3, <3>1 DEF ExecuteIntent
  <2> QED  BY <1>0, <1>3, <2>1, <2>2, <2>3 DEF ExecuteIntent, Goto, deployed, IntentTypeOK
<1>4. ASSUME NEW r \in Runners, Operation(r) PROVE IntentTypeOK'
  BY <1>4, OperationKeeps DEF IntentInv
<1>5. ASSUME NEW r \in Runners, HandleFailure(r) PROVE IntentTypeOK'
  BY <1>0, <1>5 DEF HandleFailure, Goto, deployed, IntentTypeOK
<1>6. ASSUME NEW r \in Runners, Rollback(r) PROVE IntentTypeOK'
  <2>1. weight' \in 0..100
    <3>1. weight \in 0..100 /\ weight' \in {0, weight}
      BY <1>0, <1>6 DEF Rollback, IntentTypeOK
    <3> QED  BY <3>1
  <2> QED  BY <1>0, <1>6, <2>1 DEF Rollback, Goto, IntentTypeOK
<1>7. ASSUME NEW r \in Runners, Settle(r) PROVE IntentTypeOK'
  BY <1>0, <1>7 DEF Settle, Goto, deployed, IntentTypeOK
<1>8. CASE UNCHANGED intentVars
  BY <1>0, <1>8 DEF intentVars, deployed, runners, IntentTypeOK
<1> QED
  BY <1>1, <1>2, <1>3, <1>4, <1>5, <1>6, <1>7, <1>8 DEF IntentNext

\* An execution begins.
LEMMA ExecuteKeeps ==
  ASSUME IntentInv, IntentTypeOK', NEW r \in Runners, ExecuteIntent(r), intent = "known"
  PROVE  IntentInv'
<1>1. /\ at[r] \in {"idle", "approved"}
      /\ status' = "running" /\ at' = [at EXCEPT ![r] = "running"]
      /\ phase' = [phase EXCEPT ![r] = 1] /\ next' = [next EXCEPT ![r] = 1]
      /\ overlapped' = (overlapped \/ \E o \in Runners : Executing(o))
      /\ UNCHANGED <<strategy, intent, persisted, weight, headers>>
  BY DEF ExecuteIntent, Goto, Executing, deployed
<1>2. IntentTypeOK /\ Positioned
  BY DEF IntentInv
<1>3. /\ at'[r] = "running" /\ phase'[r] = 1 /\ next'[r] = 1
      /\ \A q \in Runners \ {r} : at'[q] = at[q] /\ phase'[q] = phase[q] /\ next'[q] = next[q]
  BY <1>1, <1>2 DEF IntentTypeOK
<1>4. Phases(strategy) \in Nat \ {0} /\ Len(Plan(strategy, 1)) \in Nat \ {0}
  <2>1. strategy \in Strategies
    BY <1>2 DEF IntentTypeOK
  <2>2. Phases(strategy) \in Nat \ {0}
    BY <2>1, StrategiesAssumption DEF Phases
  <2>3. Plan(strategy, 1) \in Seq(Operations) /\ Plan(strategy, 1) /= <<>>
    BY <2>1, <2>2, Planned DEF ShiftsFirst
  <2> QED  BY <2>2, <2>3
<1>5. Positioned'
  BY <1>1, <1>2, <1>3, <1>4 DEF Positioned
<1>6. ASSUME ~overlapped'
      PROVE  TrafficFollows' /\ OneExecutes' /\ OutcomeIsLast' /\ OutcomeHolds' /\ RolledBack'
  <2>1. \A o \in Runners : ~Executing(o)
    BY <1>1, <1>6
  <2>2. \A o \in Runners : at'[o] \in {"running", "idle", "approved"} /\ (at'[o] = "running" => o = r)
    BY <1>3, <2>1 DEF Executing
  <2>3. TrafficFollows'
    BY <1>1, <1>3, <1>4, <2>2 DEF TrafficFollows
  <2>4. OneExecutes' /\ OutcomeIsLast' /\ RolledBack'
    BY <1>1, <2>2 DEF OneExecutes, OutcomeIsLast, RolledBack, Executing, Final
  <2>5. OutcomeHolds'
    BY <1>1 DEF OutcomeHolds
  <2> QED  BY <2>3, <2>4, <2>5
<1> QED  BY <1>5, <1>6 DEF IntentInv

LEMMA IntentStep == IntentInv /\ [IntentNext]_intentVars => IntentInv'
<1> SUFFICES ASSUME IntentInv, [IntentNext]_intentVars PROVE IntentInv'
  OBVIOUS
<1>0. IntentTypeOK /\ IntentTypeOK' /\ Positioned
  BY IntentTyped DEF IntentInv
<1>1. CASE /\ UNCHANGED <<strategy, deployed, runners>>
           /\ status' = status \/ status' \notin Final
  <2>1. UNCHANGED <<strategy, weight, headers, at, phase, next, runs, overlapped>>
    BY <1>1 DEF deployed, runners
  <2>2. Positioned' /\ (TrafficFollows => TrafficFollows') /\ (OneExecutes => OneExecutes')
    BY <1>0, <2>1 DEF Positioned, TrafficFollows, OneExecutes, Executing
  <2>3. /\ OutcomeIsLast => OutcomeIsLast'
        /\ OutcomeHolds => OutcomeHolds'
        /\ RolledBack => RolledBack'
    BY <1>1, <2>1 DEF OutcomeIsLast, OutcomeHolds, RolledBack, Executing, Final
  <2> QED  BY <1>0, <2>1, <2>2, <2>3 DEF IntentInv
<1>2. CASE CreateIntent \/ DeleteIntent \/ CancelIntent
  BY <1>1, <1>2 DEF CreateIntent, DeleteIntent, CancelIntent, Final
<1>3. ASSUME NEW r \in Runners, ApproveIntent(r) PROVE IntentInv'
  <2>1. OutcomeHolds' /\ status' \notin Final
    BY <1>3 DEF ApproveIntent, OutcomeHolds, Final
  <2> QED  BY <1>0, <1>3, <2>1, RunnerMoves DEF ApproveIntent, Goto
<1>4. ASSUME NEW r \in Runners, ExecuteIntent(r) PROVE IntentInv'
  <2>1. CASE intent = "known"
    BY <1>0, <1>4, <2>1, ExecuteKeeps
  <2>2. CASE intent /= "known"
    <3>1. /\ at[r] = "approved" /\ at' = [at EXCEPT ![r] = "idle"]
          /\ UNCHANGED <<strategy, deployed, status, phase, next, overlapped>>
      BY <1>4, <2>2 DEF ExecuteIntent, Goto
    <3>2. ~overlapped => OutcomeHolds'
      BY <3>1 DEF IntentInv, OutcomeHolds, deployed
    <3> QED  BY <1>0, <3>1, <3>2, RunnerMoves
  <2> QED  BY <2>1, <2>2
<1>5. ASSUME NEW r \in Runners, Operation(r) PROVE IntentInv'
  BY <1>5, OperationKeeps
<1>6. ASSUME NEW r \in Runners, Succeed(r) PROVE IntentInv'
  <2>1. Executing(r)
    BY <1>6 DEF Succeed, Executing
  <2>2. phase[r] > Phases(strategy) /\ at[r] = "running" /\ status' = "succeeded"
        /\ UNCHANGED <<strategy, weight, headers>>
    BY <1>6 DEF Succeed, deployed
  <2>3. strategy.kind = "blue-green" => phase[r] > 1
    <3>1. phase[r] \in Nat /\ strategy \in Strategies
      BY <1>0 DEF IntentTypeOK
    <3> QED  BY <2>2, <3>1 DEF Phases
  <2>4. ~overlapped => OutcomeHolds'
    BY <2>2, <2>3 DEF IntentInv, TrafficFollows, OutcomeHolds
  <2> QED  BY <1>0, <1>6, <2>1, <2>4, RunnerMoves DEF Succeed, Goto
<1>7. ASSUME NEW r \in Runners, HandleFailure(r) PROVE IntentInv'
  <2>1. Executing(r) /\ OutcomeHolds' /\ status' \notin Final
    BY <1>7 DEF HandleFailure, Executing, OutcomeHolds, Final
  <2>2. PICK a \in {"idle", "rollback", "pausing"} : at' = [at EXCEPT ![r] = a]
    BY <1>7 DEF HandleFailure, Goto
  <2> QED  BY <1>0, <1>7, <2>1, <2>2, RunnerMoves DEF HandleFailure
<1>8. ASSUME NEW r \in Runners, Rollback(r) PROVE IntentInv'
  <2>1. Executing(r) /\ status' = status
    BY <1>8 DEF Rollback, Executing
  <2>2. ~overlapped => status' \notin Final /\ OutcomeHolds'
    BY <2>1 DEF IntentInv, OutcomeIsLast, OutcomeHolds, Final
  <2>3. PICK a \in {"idle", "rolled back"} : at' = [at EXCEPT ![r] = a] /\ (a = "rolled back" => weight' = 0)
    BY <1>8 DEF Rollback, Goto
  <2>4. UNCHANGED <<strategy, phase, next, overlapped>>
    BY <1>8 DEF Rollback
  <2> QED  BY <1>0, <2>1, <2>2, <2>3, <2>4, RunnerMoves
<1>9. ASSUME NEW r \in Runners, Settle(r) PROVE IntentInv'
  <2>1. Executing(r)
    BY <1>9 DEF Settle, Executing
  <2>2. ~overlapped => OutcomeHolds'
    BY <1>9 DEF Settle, IntentInv, RolledBack, OutcomeHolds, deployed
  <2> QED  BY <1>0, <1>9, <2>1, <2>2, RunnerMoves DEF Settle, Goto
<1>10. CASE UNCHANGED intentVars
  BY <1>1, <1>10 DEF intentVars
<1> QED
  BY <1>2, <1>3, <1>4, <1>5, <1>6, <1>7, <1>8, <1>9, <1>10 DEF IntentNext

\* Executions of an intent that do not overlap leave the traffic where their
\* outcome says: a cancellation, an approval or a deletion meanwhile, and calls of
\* the delivery engine that fail after they took effect, make no difference.
THEOREM OutcomeIsTraffic == IntentSpec => []OutcomeMatchesTraffic
<1>1. IntentInv => OutcomeMatchesTraffic
  BY DEF IntentInv, OutcomeHolds, OutcomeMatchesTraffic
<1> QED  BY <1>1, IntentStarts, IntentStep, PTL DEF IntentSpec

-----------------------------------------------------------------------------
(* Sums over finite sets *)

LEMMA LeastNumber ==
  ASSUME NEW T, T \subseteq Nat, T # {}
  PROVE  \E m \in T : \A k \in T : m <= k
<1>1. PICK m \in T : \A k \in T : ~ (<<k, m>> \in OpToRel(<, Nat))
  BY NatLessThanWellFounded, WFMin, Zenon
<1>2. \A k \in T : ~ (k < m)
  BY <1>1 DEF OpToRel
<1> QED BY <1>2

\* Of the subsets of a finite set one is the smallest.
LEMMA SmallestSet ==
  ASSUME NEW S, IsFiniteSet(S), NEW B \in SUBSET SUBSET S, B # {}
  PROVE  \E s \in B : \A t \in B : Cardinality(s) <= Cardinality(t)
<1>1. \A s \in SUBSET S : Cardinality(s) \in Nat
  BY FS_Subset, FS_CardinalityType
<1> DEFINE T == {Cardinality(s) : s \in B}
<1>2. T \subseteq Nat /\ T # {}
  BY <1>1
<1>3. PICK m \in T : \A k \in T : m <= k
  BY <1>2, LeastNumber
<1> QED  BY <1>3

\* The sum of f over the subsets of S, an element after the other.
Sums(it, f, S) ==
  it = [s \in SUBSET S |-> IF s = {} THEN 0
                           ELSE LET x == CHOOSE x \in s : TRUE IN f[x] + it[s \ {x}]]

Total(f, S) == MapThenSumSet(LAMBDA c : f[c], S)

LEMMA TotalIsSum ==
  ASSUME NEW S, NEW f PROVE Total(f, S) = (CHOOSE it : Sums(it, f, S))[S]
  BY DEF Total, MapThenSumSet, MapThenFoldSet, Sums

LEMMA Removed ==
  ASSUME NEW S, IsFiniteSet(S), NEW s \in SUBSET S, NEW x \in s
  PROVE  /\ IsFiniteSet(s) /\ Cardinality(s) \in Nat \ {0} /\ s \ {x} \in SUBSET S
         /\ Cardinality(s \ {x}) = Cardinality(s) - 1
  BY FS_Subset, FS_CardinalityType, FS_EmptySet, FS_RemoveElement

LEMMA SumsExist ==
  ASSUME NEW S, IsFiniteSet(S), NEW f PROVE \E it : Sums(it, f, S)
<1> DEFINE First(s) == CHOOSE x \in s : TRUE
           Right(g, s) == g[s] = IF s = {} THEN 0 ELSE f[First(s)] + g[s \ {First(s)}]
           UpTo(n) == \E g : \A s \in SUBSET S : Cardinality(s) <= n => Right(g, s)
           T == {n \in Nat : ~UpTo(n)}
<1>0. \A s \in SUBSET S : s # {} => First(s) \in s
  OBVIOUS
<1> HIDE DEF First
<1>1. ASSUME NEW m \in T, \A n \in T : m <= n PROVE FALSE
  <2>1. CASE m = 0
    <3> DEFINE g == [s \in SUBSET S |-> 0]
    <3>1. ASSUME NEW s \in SUBSET S, Cardinality(s) <= 0 PROVE s = {}
      BY <3>1, FS_Subset, FS_CardinalityType, FS_EmptySet
    <3>2. \A s \in SUBSET S : Cardinality(s) <= 0 => Right(g, s)
      BY <3>1
    <3> QED  BY <2>1, <3>2
  <2>2. CASE m # 0
    <3>1. m \in Nat /\ m - 1 \in Nat /\ UpTo(m - 1)
      <4> HIDE DEF UpTo
      <4>1. m \in Nat /\ m - 1 \in Nat
        BY <2>2
      <4>2. ~(m <= m - 1)
        BY <4>1
      <4>3. m - 1 \notin T
        BY <1>1, <4>2
      <4> QED  BY <4>1, <4>3
    <3>2. PICK g : \A s \in SUBSET S : Cardinality(s) <= m - 1 => Right(g, s)
      BY <3>1
    <3> DEFINE h == [s \in SUBSET S |-> IF Cardinality(s) <= m - 1 THEN g[s]
                                        ELSE f[First(s)] + g[s \ {First(s)}]]
    <3>3. ASSUME NEW s \in SUBSET S, Cardinality(s) <= m PROVE Right(h, s)
      <4>1. CASE s = {}
        <5>1. Cardinality(s) = 0
          BY <4>1, FS_EmptySet
        <5>2. Cardinality(s) <= m - 1
          BY <3>1, <5>1
        <5>3. Right(g, s)
          BY <3>2, <5>2
        <5>4. g[s] = 0
          BY <4>1, <5>3
        <5>5. h[s] = g[s]
          BY <5>2
        <5> HIDE DEF h
        <5> QED  BY <4>1, <5>4, <5>5
      <4>2. CASE s # {}
        <5> DEFINE r == s \ {First(s)}
        <5>1. r \in SUBSET S /\ Cardinality(r) = Cardinality(s) - 1 /\ Cardinality(s) \in Nat
          BY <1>0, <4>2, Removed
        <5>2. Cardinality(r) <= m - 1
          BY <3>1, <3>3, <5>1
        <5>3. h[r] = g[r]
          BY <5>1, <5>2
        <5>4. Cardinality(s) <= m - 1 => g[s] = f[First(s)] + g[r]
          BY <3>2, <4>2
        <5>5. h[s] = f[First(s)] + g[r]
          BY <5>4
        <5> HIDE DEF h
        <5> QED  BY <4>2, <5>3, <5>5
      <4> QED  BY <4>1, <4>2
    <3>4. UpTo(m)
      BY <3>3
    <3> QED  BY <3>4
  <2> QED  BY <2>1, <2>2
<1>2. T = {}
  <2> HIDE DEF T
  <2>1. T \subseteq Nat
    BY DEF T
  <2> QED  BY <1>1, <2>1, LeastNumber
<1>3. Cardinality(S) \in Nat /\ \A s \in SUBSET S : Cardinality(s) <= Cardinality(S)
  BY FS_Subset, FS_CardinalityType
<1>4. PICK g : \A s \in SUBSET S : Cardinality(s) <= Cardinality(S) => Right(g, s)
  BY <1>2, <1>3
<1> DEFINE it == [s \in SUBSET S |-> g[s]]
<1>5. \A s \in SUBSET S : Right(it, s)
  BY <1>3, <1>4
<1>6. it = [s \in SUBSET S |-> IF s = {} THEN 0 ELSE f[First(s)] + it[s \ {First(s)}]]
  BY <1>5
<1> HIDE DEF it
<1>7. Sums(it, f, S)
  BY <1>6 DEF Sums, First
<1> QED  BY <1>7

LEMMA SumsUnfold ==
  ASSUME NEW S, NEW f, NEW it, Sums(it, f, S), NEW s \in SUBSET S
  PROVE  /\ s = {} => it[s] = 0
         /\ s # {} => \E x \in s : it[s] = f[x] + it[s \ {x}]
<1> DEFINE x == CHOOSE x \in s : TRUE
<1>1. s # {} => x \in s
  OBVIOUS
<1>2. it[s] = IF s = {} THEN 0 ELSE f[x] + it[s \ {x}]
  BY DEF Sums
<1> HIDE DEF x
<1> QED  BY <1>1, <1>2

LEMMA SumsBounded ==
  ASSUME NEW S, IsFiniteSet(S), NEW f, NEW M \in Nat, \A x \in S : f[x] \in 0..M,
         NEW it, Sums(it, f, S)
  PROVE  \A s \in SUBSET S : it[s] \in Nat /\ it[s] <= Cardinality(s) * M
<1> DEFINE Fine(s) == it[s] \in Nat /\ it[s] <= Cardinality(s) * M
           B == {s \in SUBSET S : ~Fine(s)}
<1>1. ASSUME NEW s \in B, \A t \in B : Cardinality(s) <= Cardinality(t) PROVE FALSE
  <2>1. CASE s = {}
    <3>1. it[s] = 0 /\ Cardinality(s) = 0
      BY <2>1, SumsUnfold, FS_EmptySet
    <3> QED  BY <3>1
  <2>2. CASE s # {}
    <3>1. PICK x \in s : it[s] = f[x] + it[s \ {x}]
      BY <2>2, SumsUnfold
    <3>2. /\ s \ {x} \in SUBSET S /\ Cardinality(s) \in Nat
          /\ Cardinality(s \ {x}) = Cardinality(s) - 1 /\ Cardinality(s \ {x}) \in Nat
      BY Removed
    <3>3. Fine(s \ {x})
      BY <1>1, <3>2
    <3>4. f[x] \in 0..M
      OBVIOUS
    <3> DEFINE k == Cardinality(s \ {x})
    <3>5. (k + 1) * M = k * M + M /\ k * M \in Nat
      BY <3>2
    <3>6. Cardinality(s) = k + 1
      BY <3>2
    <3> QED  BY <3>1, <3>3, <3>4, <3>5, <3>6
  <2> QED  BY <2>1, <2>2
<1>2. B = {}
  <2> HIDE DEF B
  <2>1. B \in SUBSET SUBSET S
    BY DEF B
  <2> QED  BY <1>1, <2>1, SmallestSet
<1> QED  BY <1>2

\* Any element may be the last that is added.
LEMMA SumsSplit ==
  ASSUME NEW S, IsFiniteSet(S), NEW f, NEW M \in Nat, \A x \in S : f[x] \in 0..M,
         NEW it, Sums(it, f, S)
  PROVE  \A s \in SUBSET S : \A c \in s : it[s] = f[c] + it[s \ {c}]
<1> DEFINE Fine(s) == \A c \in s : it[s] = f[c] + it[s \ {c}]
           B == {s \in SUBSET S : ~Fine(s)}
<1>1. ASSUME NEW s \in B, \A t \in B : Cardinality(s) <= Cardinality(t) PROVE FALSE
  <2>1. PICK c \in s : it[s] # f[c] + it[s \ {c}]
    OBVIOUS
  <2>2. PICK x \in s : it[s] = f[x] + it[s \ {x}]
    BY SumsUnfold
  <2>3. x # c
    BY <2>1, <2>2
  <2>4. /\ s \ {x} \in SUBSET S /\ s \ {c} \in SUBSET S /\ (s \ {x}) \ {c} \in SUBSET S
        /\ Cardinality(s) \in Nat
        /\ Cardinality(s \ {x}) = Cardinality(s) - 1 /\ Cardinality(s \ {c}) = Cardinality(s) - 1
    BY Removed
  <2>5. Fine(s \ {x}) /\ Fine(s \ {c})
    <3> HIDE DEF Fine
    <3> QED  BY <1>1, <2>4
  <2>6. it[s \ {x}] = f[c] + it[(s \ {x}) \ {c}]
    BY <2>3, <2>5
  <2>7. it[s \ {c}] = f[x] + it[(s \ {c}) \ {x}]
    BY <2>3, <2>5
  <2>8. (s \ {x}) \ {c} = (s \ {c}) \ {x}
    OBVIOUS
  <2> DEFINE rest == it[(s \ {x}) \ {c}]
  <2>9. f[c] \in Nat /\ f[x] \in Nat /\ rest \in Nat
    BY <2>4, SumsBounded
  <2>10. it[s] = f[x] + (f[c] + rest) /\ it[s \ {c}] = f[x] + rest
    BY <2>2, <2>6, <2>7, <2>8
  <2> HIDE DEF rest
  <2> QED  BY <2>1, <2>9, <2>10
<1>2. B = {}
  <2> HIDE DEF B
  <2>1. B \in SUBSET SUBSET S
    BY DEF B
  <2> QED  BY <1>1, <2>1, SmallestSet
<1> QED  BY <1>2

LEMMA SumsAgree ==
  ASSUME NEW S, IsFiniteSet(S), NEW f, NEW g, NEW M \in Nat,
         \A x \in S : f[x] \in 0..M, \A x \in S : g[x] \in 0..M,
         NEW it, Sums(it, f, S), NEW ig, Sums(ig, g, S)
  PROVE  \A s \in SUBSET S : (\A x \in s : f[x] = g[x]) => it[s] = ig[s]
<1> DEFINE Fine(s) == (\A x \in s : f[x] = g[x]) => it[s] = ig[s]
           B == {s \in SUBSET S : ~Fine(s)}
<1>1. ASSUME NEW s \in B, \A t \in B : Cardinality(s) <= Cardinality(t) PROVE FALSE
  <2>1. CASE s = {}
    BY <2>1, SumsUnfold
  <2>2. CASE s # {}
    <3>1. PICK x \in s : it[s] = f[x] + it[s \ {x}]
      BY <2>2, SumsUnfold
    <3>2. ig[s] = g[x] + ig[s \ {x}]
      BY SumsSplit
    <3>3. /\ s \ {x} \in SUBSET S /\ Cardinality(s) \in Nat
          /\ Cardinality(s \ {x}) = Cardinality(s) - 1
      BY Removed
    <3>4. Fine(s \ {x})
      BY <1>1, <3>3
    <3> QED  BY <3>1, <3>2, <3>4
  <2> QED  BY <2>1, <2>2
<1>2. B = {}
  <2> HIDE DEF B
  <2>1. B \in SUBSET SUBSET S
    BY DEF B
  <2> QED  BY <1>1, <2>1, SmallestSet
<1> QED  BY <1>2

\* Two functions that differ in one place, and their sums.
LEMMA TotalSplits ==
  ASSUME NEW S, IsFiniteSet(S), NEW M \in Nat, NEW f, NEW g,
         \A x \in S : f[x] \in 0..M, \A x \in S : g[x] \in 0..M,
         NEW c \in S, \A x \in S \ {c} : f[x] = g[x]
  PROVE  \E rest \in Nat : /\ rest <= (Cardinality(S) - 1) * M
                           /\ Total(f, S) = f[c] + rest /\ Total(g, S) = g[c] + rest
<1> DEFINE it == CHOOSE it : Sums(it, f, S)
           ig == CHOOSE ig : Sums(ig, g, S)
<1>1. Sums(it, f, S) /\ Sums(ig, g, S)
  BY SumsExist
<1>2. Total(f, S) = it[S] /\ Total(g, S) = ig[S]
  BY TotalIsSum
<1> HIDE DEF it, ig
<1>3. it[S] = f[c] + it[S \ {c}] /\ ig[S] = g[c] + ig[S \ {c}]
  BY <1>1, SumsSplit
<1>4. it[S \ {c}] = ig[S \ {c}]
  BY <1>1, SumsAgree
<1>5. it[S \ {c}] \in Nat /\ it[S \ {c}] <= Cardinality(S \ {c}) * M
  BY <1>1, SumsBounded
<1>6. Cardinality(S \ {c}) = Cardinality(S) - 1
  BY Removed
<1> QED  BY <1>2, <1>3, <1>4, <1>5, <1>6

-----------------------------------------------------------------------------
(* The quota manager *)

Users(q) == {c \in Consumers : q \in Covers[c]}

Spared(q) == (Cardinality(Users(q)) - 1) * MaxAmount

\* What is not registered counts nothing.
CountsWhenRegistered == \A q \in Quotas : q \notin registered => usage[q] = 0

QuotaInv == QuotaTypeOK /\ CountsWhenRegistered /\ Overshoot

Within ==
  ~warned => \A q \in Quotas : Users(q) # {} =>
    usage[q] + Total(pending, Users(q)) <= Limit[q] + Spared(q)

LEMMA OvershootIs == Overshoot <=> Within
  BY DEF Overshoot, Within, Users, Total, Spared

LEMMA OvershootNext == Overshoot' <=> Within'
  BY OvershootIs, PTL

LEMMA UsersFinite ==
  ASSUME NEW q \in Quotas, Users(q) # {}
  PROVE  /\ IsFiniteSet(Users(q)) /\ Users(q) \in SUBSET Consumers
         /\ Spared(q) \in Nat /\ Limit[q] \in Nat /\ MaxAmount \in Nat /\ MaxAmount <= Limit[q]
<1>1. IsFiniteSet(Consumers) /\ Users(q) \in SUBSET Consumers /\ MaxAmount \in Nat
      /\ Limit[q] \in Nat /\ MaxAmount <= Limit[q]
  BY QuotaAssumption DEF Users
<1>2. IsFiniteSet(Users(q))
  BY <1>1, FS_Subset
<1>3. Cardinality(Users(q)) - 1 \in Nat
  BY <1>2, FS_CardinalityType, FS_EmptySet
<1>4. \A k \in Nat : k * MaxAmount \in Nat
  BY <1>1
<1> QED  BY <1>1, <1>2, <1>3, <1>4 DEF Spared

\* What is pending for a quota, with what one of its consumers asks for taken out.
LEMMA PendingSplits ==
  ASSUME NEW q \in Quotas, NEW c \in Users(q), NEW f \in [Consumers -> 0..MaxAmount],
         NEW n \in 0..MaxAmount
  PROVE  \E rest \in Nat : /\ rest <= Spared(q) /\ Total(f, Users(q)) = f[c] + rest
                           /\ Total([f EXCEPT ![c] = n], Users(q)) = n + rest
<1> DEFINE g == [f EXCEPT ![c] = n]
<1>1. IsFiniteSet(Users(q)) /\ Users(q) \in SUBSET Consumers /\ MaxAmount \in Nat
  BY UsersFinite
<1>2. (\A x \in Users(q) : f[x] \in 0..MaxAmount) /\ (\A x \in Users(q) : g[x] \in 0..MaxAmount)
      /\ (\A x \in Users(q) \ {c} : f[x] = g[x]) /\ g[c] = n
  BY <1>1
<1> HIDE DEF g
<1>3. \E rest \in Nat : /\ rest <= (Cardinality(Users(q)) - 1) * MaxAmount
                        /\ Total(f, Users(q)) = f[c] + rest /\ Total(g, Users(q)) = g[c] + rest
  BY <1>1, <1>2, TotalSplits
<1> QED  BY <1>2, <1>3 DEF Spared, g

\* A consumer that a quota does not cover makes no difference to it.
LEMMA PendingElsewhere ==
  ASSUME NEW q \in Quotas, Users(q) # {}, NEW c \in Consumers \ Users(q),
         NEW f \in [Consumers -> 0..MaxAmount], NEW n \in 0..MaxAmount
  PROVE  Total([f EXCEPT ![c] = n], Users(q)) = Total(f, Users(q))
<1> DEFINE g == [f EXCEPT ![c] = n]
<1>1. IsFiniteSet(Users(q)) /\ Users(q) \in SUBSET Consumers /\ MaxAmount \in Nat
  BY UsersFinite
<1>2. PICK u \in Users(q) : TRUE
  OBVIOUS
<1>3. (\A x \in Users(q) : f[x] \in 0..MaxAmount) /\ (\A x \in Users(q) : g[x] \in 0..MaxAmount)
      /\ (\A x \in Users(q) : f[x] = g[x])
  BY <1>1
<1> HIDE DEF g
<1>4. \E rest \in Nat : Total(f, Users(q)) = f[u] + rest /\ Total(g, Users(q)) = g[u] + rest
  BY <1>1, <1>3, TotalSplits
<1> QED  BY <1>3, <1>4 DEF g

LEMMA PendingIsNat ==
  ASSUME NEW q \in Quotas, NEW f \in [Consumers -> 0..MaxAmount], Users(q) # {}
  PROVE  Total(f, Users(q)) \in Nat
<1>1. PICK c \in Users(q) : TRUE
  OBVIOUS
<1>2. c \in Consumers /\ MaxAmount \in Nat
  BY QuotaAssumption DEF Users
<1>3. f[c] \in 0..MaxAmount
  BY <1>2
<1>4. PICK rest \in Nat : Total(f, Users(q)) = f[c] + rest
  BY <1>3, PendingSplits
<1> QED  BY <1>3, <1>4

LEMMA QuotaStarts == QuotaInit => QuotaInv
<1> SUFFICES ASSUME QuotaInit PROVE QuotaInv
  OBVIOUS
<1>0. pending \in [Consumers -> 0..MaxAmount]
  <2>1. 0 \in 0..MaxAmount
    BY QuotaAssumption
  <2> QED  BY <2>1 DEF QuotaInit
<1>1. QuotaTypeOK /\ CountsWhenRegistered
  BY <1>0 DEF QuotaInit, QuotaTypeOK, CountsWhenRegistered
<1>2. ASSUME NEW q \in Quotas, Users(q) # {}
      PROVE  usage[q] + Total(pending, Users(q)) <= Limit[q] + Spared(q)
  <2>1. PICK c \in Users(q) : TRUE
    BY <1>2
  <2>2. pending \in [Consumers -> 0..MaxAmount] /\ c \in Consumers /\ pending[c] = 0 /\ usage[q] = 0
    BY <1>1 DEF QuotaInit, QuotaTypeOK, Users
  <2>3. PICK rest \in Nat : rest <= Spared(q) /\ Total(pending, Users(q)) = pending[c] + rest
    BY <2>2, UsersFinite, PendingSplits
  <2> QED  BY <2>1, <2>2, <2>3, UsersFinite
<1> QED  BY <1>1, <1>2, OvershootIs DEF Within, QuotaInv

\* A check that passes leaves room for one call of each other consumer.
LEMMA CheckFits ==
  ASSUME QuotaInv, NEW c \in Consumers, NEW n \in 1..MaxAmount, Check(c, n) PROVE QuotaInv'
<1>1. QuotaTypeOK /\ MaxAmount \in Nat
  BY QuotaAssumption DEF QuotaInv
<1>2. /\ pending[c] = 0 /\ pending' = [pending EXCEPT ![c] = n] /\ n \in 0..MaxAmount
      /\ warned' = (warned \/ ~enforcing) /\ UNCHANGED <<registered, usage, enforcing>>
  BY <1>1 DEF Check
<1>3. QuotaTypeOK' /\ CountsWhenRegistered'
  <2>1. pending' \in [Consumers -> 0..MaxAmount]
    BY <1>1, <1>2 DEF QuotaTypeOK
  <2> QED  BY <1>1, <1>2, <2>1 DEF QuotaInv, QuotaTypeOK, CountsWhenRegistered
<1>4. ASSUME ~warned', NEW q \in Quotas, Users(q) # {}
      PROVE  usage'[q] + Total(pending', Users(q)) <= Limit[q] + Spared(q)
  <2>1. ~warned /\ Fits(c, n)
    BY <1>1, <1>2, <1>4 DEF Check
  <2>2. pending \in [Consumers -> 0..MaxAmount] /\ usage[q] \in Nat
    BY <1>1 DEF QuotaTypeOK
  <2>3. CASE c \in Users(q)
    <3>1. PICK rest \in Nat : rest <= Spared(q) /\ Total(pending', Users(q)) = n + rest
      BY <1>2, <2>2, <2>3, PendingSplits
    <3>2. usage[q] + n <= Limit[q]
      <4>1. CASE q \in registered
        BY <2>1, <2>3, <4>1 DEF Fits, Applicable, Users
      <4>2. CASE q \notin registered
        <5>1. usage[q] = 0
          BY <4>2 DEF QuotaInv, CountsWhenRegistered
        <5> QED  BY <1>1, <1>2, <1>4, <5>1, UsersFinite
      <4> QED  BY <4>1, <4>2
    <3> QED  BY <1>1, <1>2, <1>4, <2>2, <3>1, <3>2, UsersFinite
  <2>4. CASE c \notin Users(q)
    <3>1. Total(pending', Users(q)) = Total(pending, Users(q))
      <4>1. c \in Consumers \ Users(q)
        BY <2>4
      <4> QED  BY <1>2, <1>4, <2>2, <4>1, PendingElsewhere
    <3> QED  BY <1>2, <1>4, <2>1, <3>1, OvershootIs DEF Within, QuotaInv
  <2> QED  BY <2>3, <2>4
<1> QED  BY <1>3, <1>4, OvershootNext DEF Within, QuotaInv

\* What was pending is used, or is not counted by a quota that is registered no more.
LEMMA ConsumeMoves == ASSUME QuotaInv, NEW c \in Consumers, Consume(c) PROVE QuotaInv'
<1>1. QuotaTypeOK /\ MaxAmount \in Nat
  BY QuotaAssumption DEF QuotaInv
<1>2. /\ usage' = [q \in Quotas |-> usage[q] + IF q \in Applicable(c) THEN pending[c] ELSE 0]
      /\ pending' = [pending EXCEPT ![c] = 0] /\ UNCHANGED <<registered, enforcing, warned>>
  BY DEF Consume
<1>3. pending \in [Consumers -> 0..MaxAmount] /\ usage \in [Quotas -> Nat] /\ pending[c] \in 0..MaxAmount
  BY <1>1 DEF QuotaTypeOK
<1>4. /\ \A q \in Quotas : usage'[q] = IF q \in Applicable(c) THEN usage[q] + pending[c] ELSE usage[q]
      /\ usage' \in [Quotas -> Nat]
  BY <1>1, <1>2, <1>3
<1>5. QuotaTypeOK' /\ CountsWhenRegistered'
  <2>1. pending' \in [Consumers -> 0..MaxAmount]
    BY <1>1, <1>2, <1>3
  <2>2. QuotaTypeOK'
    BY <1>1, <1>2, <1>4, <2>1 DEF QuotaTypeOK
  <2> QED  BY <1>2, <1>4, <2>2 DEF QuotaInv, CountsWhenRegistered, Applicable
<1>6. ASSUME ~warned', NEW q \in Quotas, Users(q) # {}
      PROVE  usage'[q] + Total(pending', Users(q)) <= Limit[q] + Spared(q)
  <2>1. usage[q] + Total(pending, Users(q)) <= Limit[q] + Spared(q)
    BY <1>2, <1>6, OvershootIs DEF Within, QuotaInv
  <2>2. usage[q] \in Nat /\ Limit[q] \in Nat /\ Spared(q) \in Nat
    BY <1>3, <1>6, UsersFinite
  <2>3. CASE c \in Users(q)
    <3>1. PICK rest \in Nat : /\ Total(pending, Users(q)) = pending[c] + rest
                              /\ Total(pending', Users(q)) = 0 + rest
      <4>1. 0 \in 0..MaxAmount
        BY <1>1
      <4> QED  BY <1>2, <1>3, <2>3, <4>1, PendingSplits
    <3>2. usage'[q] \in {usage[q], usage[q] + pending[c]}
      BY <1>4
    <3> QED  BY <1>1, <1>3, <2>1, <2>2, <3>1, <3>2
  <2>4. CASE c \notin Users(q)
    <3>1. Total(pending', Users(q)) = Total(pending, Users(q))
      <4>1. c \in Consumers \ Users(q) /\ 0 \in 0..MaxAmount
        BY <1>1, <2>4
      <4> QED  BY <1>2, <1>3, <1>6, <4>1, PendingElsewhere
    <3>2. usage'[q] = usage[q]
      BY <1>4, <2>4 DEF Applicable, Users
    <3> QED  BY <2>1, <3>1, <3>2
  <2> QED  BY <2>3, <2>4
<1> QED  BY <1>5, <1>6, OvershootNext DEF Within, QuotaInv

\* Nothing else makes a quota count more.
LEMMA UsageFalls ==
  ASSUME QuotaInv, usage' \in [Quotas -> Nat], \A q \in Quotas : usage'[q] <= usage[q],
         registered' \subseteq Quotas, enforcing' \in BOOLEAN,
         \A q \in Quotas : q \notin registered' => q \notin registered \/ usage'[q] = 0,
         UNCHANGED <<pending, warned>>
  PROVE  QuotaInv'
<1>1. QuotaTypeOK
  BY DEF QuotaInv
<1>2. QuotaTypeOK'
  BY <1>1 DEF QuotaTypeOK
<1>3. ASSUME NEW q \in Quotas, q \notin registered' PROVE usage'[q] = 0
  <2>1. usage[q] \in Nat /\ usage'[q] \in Nat /\ usage'[q] <= usage[q]
    BY <1>1 DEF QuotaTypeOK
  <2> QED  BY <1>3, <2>1 DEF QuotaInv, CountsWhenRegistered
<1>4. ASSUME ~warned', NEW q \in Quotas, Users(q) # {}
      PROVE  usage'[q] + Total(pending', Users(q)) <= Limit[q] + Spared(q)
  <2>1. usage[q] + Total(pending, Users(q)) <= Limit[q] + Spared(q)
    BY <1>4, OvershootIs DEF Within, QuotaInv
  <2>2. usage[q] \in Nat /\ usage'[q] \in Nat /\ usage'[q] <= usage[q]
    BY <1>1 DEF QuotaTypeOK
  <2>3. Total(pending, Users(q)) \in Nat
    BY <1>1, <1>4, PendingIsNat DEF QuotaTypeOK
  <2> QED  BY <1>4, <2>1, <2>2, <2>3, UsersFinite
<1> QED  BY <1>2, <1>3, <1>4, OvershootNext DEF Within, QuotaInv, CountsWhenRegistered

LEMMA QuotaStep == QuotaInv /\ [QuotaNext]_quotaVars => QuotaInv'
<1> SUFFICES ASSUME QuotaInv, [QuotaNext]_quotaVars PROVE QuotaInv'
  OBVIOUS
<1>1. /\ registered \subseteq Quotas /\ usage \in [Quotas -> Nat] /\ enforcing \in BOOLEAN
      /\ \A q \in Quotas : usage[q] <= usage[q] /\ 0 <= usage[q]
  BY DEF QuotaInv, QuotaTypeOK
<1>2. ASSUME NEW c \in Consumers, NEW n \in 1..MaxAmount, ReleaseQuota(c, n) PROVE QuotaInv'
  <2>1. n \in Nat
    BY QuotaAssumption
  <2>2. ASSUME NEW q \in Quotas
        PROVE  usage'[q] \in Nat /\ usage'[q] <= usage[q]
    <3>1. usage[q] \in Nat /\ usage'[q] \in {usage[q], 0, IF usage[q] < n THEN 0 ELSE usage[q] - n}
      BY <1>1, <1>2 DEF ReleaseQuota
    <3> QED  BY <2>1, <3>1
  <2>3. usage' \in [Quotas -> Nat]
    <3>1. usage' = [q \in Quotas |-> usage'[q]]
      BY <1>2 DEF ReleaseQuota
    <3> QED  BY <2>2, <3>1
  <2> QED  BY <1>1, <1>2, <2>2, <2>3, UsageFalls DEF ReleaseQuota
<1>3. ASSUME NEW q \in Quotas, RegisterQuota(q) \/ UnregisterQuota(q) \/ ResetUsage(q) PROVE QuotaInv'
  <2>1. usage' = [usage EXCEPT ![q] = 0]
    BY <1>3 DEF RegisterQuota, UnregisterQuota, ResetUsage
  <2>2. usage' \in [Quotas -> Nat] /\ (\A p \in Quotas : usage'[p] <= usage[p]) /\ usage'[q] = 0
    BY <1>1, <2>1
  <2>3. UNCHANGED <<enforcing, pending, warned>>
        /\ registered' \in {registered, registered \cup {q}, registered \ {q}}
    BY <1>3 DEF RegisterQuota, UnregisterQuota, ResetUsage
  <2> QED  BY <1>1, <2>2, <2>3, UsageFalls
<1>4. CASE SetEnforcementMode \/ UNCHANGED quotaVars
  BY <1>1, <1>4, UsageFalls DEF SetEnforcementMode, quotaVars
<1> QED  BY <1>2, <1>3, <1>4, CheckFits, ConsumeMoves DEF QuotaNext

\* With enforcement, what a quota counts and what is about to be added never
\* exceed its limit by more than one call of every other consumer, for any number
\* of quotas and consumers, whatever is registered, reset and released meanwhile.
THEOREM OvershootIsBounded == QuotaSpec => []Overshoot
<1>1. QuotaInv => Overshoot
  BY DEF QuotaInv
<1> QED  BY <1>1, QuotaStarts, QuotaStep, PTL DEF QuotaSpec
=============================================================================
