----------------------------- MODULE PlatformProofs ----------------------------
(*****************************************************************************)
(* Of the catalog: the quota that governs counts what exists.  Of the        *)
(* container of services: what it started is stopped with it.  Of the        *)
(* deployment sets: success means ready.  Of the life cycle: dependents go   *)
(* first.  Of the previews: one per pull request, and each is watched.       *)
(*****************************************************************************)
EXTENDS CatalogRequests, ServiceContainer, DeploymentSets, LifecycleManager, Previews,
        SequenceTheorems, FiniteSetTheorems, TLAPS

-----------------------------------------------------------------------------
(* The catalog *)

CatalogTyped ==
  /\ request \in [Requests -> {NoRequest} \cup [ask : Asks, status : RequestStatuses]]
  /\ quota \in [Keys -> {NoQuota} \cup [limit : Nat, costLimit : Nat, used : Int, costUsed : Int]]
  /\ calling \in [Callers -> {NotCalling} \cup [doing : {"provisioning", "deleting"}, request : Requests]]
  /\ counted \subseteq Requests /\ disturbed \in BOOLEAN

\* A caller that waits for the provisioner is the one that took the request.
CallsAgree ==
  /\ \A c \in Callers : calling[c] /= NotCalling =>
       StatusIn(calling[c].request, {calling[c].doing})
  /\ \A c, d \in Callers :
       (calling[c] /= NotCalling /\ calling[c].request = calling[d].request) => c = d

\* What is counted shows in the status, but for what failed.
CountedByStatus ==
  \A r \in Requests :
    /\ request[r] = NoRequest => r \notin counted
    /\ StatusIn(r, RequestStatuses \ {"provisioned", "failed", "deleting"}) => r \notin counted
    /\ StatusIn(r, {"provisioned", "deleting"}) => r \in counted

CatalogInv == CatalogTyped /\ CallsAgree /\ CountedByStatus /\ UsedIsReal

LEMMA CatalogInitial == CatalogInit => CatalogInv
<1> SUFFICES ASSUME CatalogInit PROVE CatalogInv
  OBVIOUS
<1> USE DEF CatalogInit
<1>1. CatalogTyped
  BY DEF CatalogTyped
<1>2. CallsAgree
  BY DEF CallsAgree
<1>3. CountedByStatus
  BY DEF CountedByStatus, StatusIn
<1>4. UsedIsReal
  BY DEF UsedIsReal, Governing, KeyOf, Keys
<1> QED BY <1>1, <1>2, <1>3, <1>4 DEF CatalogInv

\* A request changes its status, and is neither counted before nor after.
LEMMA RequestChanges ==
  ASSUME CatalogInv, NEW r \in Requests, NEW new \in [ask : Asks, status : RequestStatuses],
         request[r] = NoRequest \/ StatusIn(r, {"pending_approval"}),
         new.status \in {"pending_approval", "pending", "approved", "rejected"},
         request' = [request EXCEPT ![r] = new], UNCHANGED <<quota, calling, counted, disturbed>>
  PROVE  CatalogInv'
<1> USE DEF CatalogInv
<1>1. CatalogTyped'
  BY DEF CatalogTyped
<1>2. CallsAgree'
  BY DEF CatalogTyped, CallsAgree, StatusIn, NotCalling
<1>3. CountedByStatus'
  BY CatalogAssumption DEF CatalogTyped, CountedByStatus, StatusIn, RequestStatuses
<1>4. UsedIsReal'
  BY DEF UsedIsReal, Governing, KeyOf
<1> QED BY <1>1, <1>2, <1>3, <1>4

LEMMA CreateKeeps ==
  ASSUME CatalogInv, NEW r \in Requests, NEW ask \in Asks, CreateRequest(r, ask)
  PROVE  CatalogInv'
<1> DEFINE new == [ask |-> ask, status |-> IF RequiresApproval(ask, 0) THEN "pending_approval" ELSE "pending"]
<1>1. new \in [ask : Asks, status : RequestStatuses] /\ new.status \in {"pending_approval", "pending"}
  BY DEF RequestStatuses
<1>2. request' = [request EXCEPT ![r] = new] /\ UNCHANGED <<quota, calling, counted, disturbed>>
        /\ request[r] = NoRequest
  BY DEF CreateRequest
<1> QED BY <1>1, <1>2, RequestChanges

LEMMA DecisionKeeps ==
  ASSUME CatalogInv, NEW r \in Requests, ApproveRequest(r) \/ RejectRequest(r)
  PROVE  CatalogInv'
<1>1. StatusIn(r, {"pending_approval"}) /\ request[r] \in [ask : Asks, status : RequestStatuses]
  BY DEF ApproveRequest, RejectRequest, StatusIn, CatalogInv, CatalogTyped
<1>2. PICK answer \in {"approved", "rejected"} : request' = [request EXCEPT ![r].status = answer]
  BY DEF ApproveRequest, RejectRequest
<1>3. request' = [request EXCEPT ![r] = [request[r] EXCEPT !.status = answer]]
  BY <1>2
<1>4. [request[r] EXCEPT !.status = answer] \in [ask : Asks, status : RequestStatuses]
        /\ [request[r] EXCEPT !.status = answer].status = answer
  BY <1>1 DEF RequestStatuses
<1>5. UNCHANGED <<quota, calling, counted, disturbed>>
  BY DEF ApproveRequest, RejectRequest
<1> QED BY <1>1, <1>3, <1>4, <1>5, RequestChanges

\* The caller takes a request that nobody else has.
LEMMA CallKeeps ==
  ASSUME CatalogInv, NEW c \in Callers, NEW r \in Requests,
         NEW what \in {"provisioning", "deleting"}, CallProvisioner(c, r, what)
  PROVE  CatalogInv'
<1> USE DEF CatalogInv
<1> DEFINE new == [request[r] EXCEPT !.status = what]
<1>1. /\ request[r] \in [ask : Asks, status : RequestStatuses] /\ StatusIn(r, May(what))
      /\ request' = [request EXCEPT ![r] = new]
      /\ calling' = [calling EXCEPT ![c] = [doing |-> what, request |-> r]]
      /\ UNCHANGED <<quota, counted, disturbed>>
  BY DEF CallProvisioner, CatalogTyped, StatusIn
<1>2. new \in [ask : Asks, status : RequestStatuses] /\ new.status = what /\ new /= NoRequest
  <2>1. new \in [ask : Asks, status : RequestStatuses] /\ new.status = what
    BY <1>1 DEF RequestStatuses
  <2> QED BY <2>1, CatalogAssumption
<1>3. CatalogTyped'
  BY <1>1, <1>2 DEF CatalogTyped
<1>4. \A d \in Callers : calling[d] /= NotCalling => calling[d].request /= r
  BY <1>1 DEF CallsAgree, CatalogTyped, StatusIn, May, NotCalling
<1>5. CallsAgree'
  <2>1. \A d \in Callers : d /= c => calling'[d] = calling[d]
    BY <1>1 DEF CatalogTyped
  <2>2. calling'[c].request = r /\ calling'[c].doing = what /\ StatusIn(r, {what})'
    BY <1>1, <1>2 DEF CatalogTyped, StatusIn
  <2>3. \A d \in Callers : (d /= c /\ calling[d] /= NotCalling) =>
          StatusIn(calling[d].request, {calling[d].doing})'
    BY <1>1, <1>4 DEF CatalogTyped, CallsAgree, StatusIn
  <2>4. \A d \in Callers : calling[d] = NotCalling => calling[d].request /= r
    BY CatalogAssumption DEF NotCalling, CatalogAssumption
  <2> QED BY <1>4, <2>1, <2>2, <2>3, <2>4 DEF CallsAgree
<1>6. CountedByStatus'
  BY <1>1, <1>2 DEF CatalogTyped, CountedByStatus, StatusIn, RequestStatuses, May
<1>7. UsedIsReal'
  BY <1>1 DEF UsedIsReal, Governing, KeyOf
<1> QED BY <1>3, <1>5, <1>6, <1>7

LEMMA QuotaExcept ==
  ASSUME NEW q \in [limit : Nat, costLimit : Nat, used : Int, costUsed : Int],
         NEW u \in Int, NEW v \in Int
  PROVE  /\ [q EXCEPT !.used = u, !.costUsed = v]
              \in [limit : Nat, costLimit : Nat, used : Int, costUsed : Int]
         /\ [q EXCEPT !.used = u, !.costUsed = v].used = u
OBVIOUS

\* What the governing quota says changes by what it is charged.
LEMMA ChargeCounts ==
  ASSUME CatalogTyped, NEW delta \in Int, NEW cost \in Int, Charge(delta, cost)
  PROVE  /\ quota' \in [Keys -> {NoQuota} \cup [limit : Nat, costLimit : Nat, used : Int, costUsed : Int]]
         /\ Governing = NoQuota => Governing' = NoQuota
         /\ Governing /= NoQuota => Governing'.used = Governing.used + delta
<1>1. CASE Governing = NoQuota
  BY <1>1 DEF Charge, Governing, KeyOf, CatalogTyped
<1>2. CASE Governing /= NoQuota
  <2> DEFINE k == KeyOf(quota)
             q == quota[k]
             new == [q EXCEPT !.used = @ + delta, !.costUsed = @ + delta * cost]
  <2>1. k \in Keys /\ quota[k] \in [limit : Nat, costLimit : Nat, used : Int, costUsed : Int]
    BY <1>2 DEF CatalogTyped, Governing, KeyOf, Keys
  <2>2. q.used + delta \in Int /\ q.costUsed + delta * cost \in Int
    <3>1. delta * cost \in Int
      OBVIOUS
    <3> QED BY <2>1, <3>1
  <2>3. /\ new \in [limit : Nat, costLimit : Nat, used : Int, costUsed : Int]
        /\ new.used = quota[k].used + delta
    BY <2>1, <2>2, QuotaExcept
  <2>4. quota' = [quota EXCEPT ![k] = new]
    BY <1>2, <2>1 DEF Charge, CatalogTyped
  <2>5. new /= NoQuota
    BY <2>3, CatalogAssumption DEF CatalogAssumption
  <2>6. KeyOf(quota') = k
    BY <1>2, <2>1, <2>4, <2>5 DEF KeyOf, CatalogTyped, Governing, Keys
  <2>7. Governing' = new
    BY <2>1, <2>4, <2>6 DEF Governing, CatalogTyped
  <2> QED BY <1>2, <2>1, <2>3, <2>4, <2>7 DEF Governing, CatalogTyped
<1> QED BY <1>1, <1>2

\* The request is counted or released once, as it was not counted, or was.
LEMMA AnswerKeeps ==
  ASSUME CatalogInv, NEW c \in Callers, ProvisionerAnswers(c)
  PROVE  CatalogInv'
<1> USE DEF CatalogInv
<1> DEFINE r == calling[c].request
           what == calling[c].doing
<1>1. /\ r \in Requests /\ what \in {"provisioning", "deleting"} /\ StatusIn(r, {what})
      /\ calling[c] /= NotCalling /\ calling' = [calling EXCEPT ![c] = NotCalling]
      /\ request[r] \in [ask : Asks, status : RequestStatuses] /\ UNCHANGED disturbed
  BY DEF ProvisionerAnswers, CatalogTyped, CallsAgree, StatusIn
<1>2. r \in counted <=> what = "deleting"
  BY <1>1, CatalogAssumption DEF CountedByStatus, StatusIn, RequestStatuses
<1>3. PICK answer \in {"failed", "provisioned", "deleted"} :
        /\ request' = [request EXCEPT ![r].status = answer]
        /\ answer = "failed" => UNCHANGED <<quota, counted>>
        /\ answer = "provisioned" =>
             what = "provisioning" /\ counted' = counted \cup {r} /\ Charge(1, request[r].ask.cost)
        /\ answer = "deleted" =>
             what = "deleting" /\ counted' = counted \ {r} /\ Charge(-1, request[r].ask.cost)
  BY <1>1 DEF ProvisionerAnswers
<1> DEFINE new == [request[r] EXCEPT !.status = answer]
<1>4. request' = [request EXCEPT ![r] = new]
  BY <1>3
<1>5. new \in [ask : Asks, status : RequestStatuses] /\ new.status = answer
  BY <1>1 DEF RequestStatuses
<1>6. request[r].ask.cost \in Int
  BY <1>1, CatalogAssumption DEF CatalogAssumption
<1>7. CatalogTyped'
  <2>1. quota' \in [Keys -> {NoQuota} \cup [limit : Nat, costLimit : Nat, used : Int, costUsed : Int]]
    <3>1. CASE answer = "failed"
      BY <1>3, <3>1 DEF CatalogTyped
    <3>2. CASE answer = "provisioned"
      BY <1>3, <1>6, <3>2, ChargeCounts
    <3>3. CASE answer = "deleted"
      <4>1. -1 \in Int
        OBVIOUS
      <4> QED BY <1>3, <1>6, <3>3, <4>1, ChargeCounts
    <3> QED BY <3>1, <3>2, <3>3
  <2>2. counted' \subseteq Requests
    BY <1>1, <1>3 DEF CatalogTyped
  <2> QED BY <1>1, <1>4, <1>5, <2>1, <2>2 DEF CatalogTyped
<1>8. \A d \in Callers : (d /= c /\ calling[d] /= NotCalling) => calling[d].request /= r
  BY <1>1 DEF CallsAgree, CatalogTyped
<1>9. CallsAgree'
  <2>1. /\ calling'[c] = NotCalling
        /\ \A d \in Callers : d /= c => calling'[d] = calling[d]
    BY <1>1 DEF CatalogTyped
  <2>2. \A d \in Callers : (d /= c /\ calling[d] /= NotCalling) =>
          StatusIn(calling[d].request, {calling[d].doing})'
    <3> SUFFICES ASSUME NEW d \in Callers, d /= c, calling[d] /= NotCalling
                 PROVE  StatusIn(calling[d].request, {calling[d].doing})'
      OBVIOUS
    <3>1. calling[d].request \in Requests /\ calling[d].request /= r
      BY <1>8 DEF CatalogTyped
    <3>2. request'[calling[d].request] = request[calling[d].request]
      BY <1>4, <3>1 DEF CatalogTyped
    <3>3. calling'[d] = calling[d]
      BY <2>1
    <3>4. StatusIn(calling[d].request, {calling[d].doing})
      BY DEF CallsAgree
    <3> QED BY <3>2, <3>3, <3>4 DEF StatusIn
  <2>3. \A d \in Callers : calling[d] /= NotCalling => calling[d].request /= NotCalling.request
    BY CatalogAssumption DEF NotCalling, CatalogAssumption, CatalogTyped
  <2> QED BY <2>1, <2>2, <2>3 DEF CallsAgree
<1>10. CountedByStatus'
  BY <1>1, <1>2, <1>3, <1>4, <1>5, CatalogAssumption
  DEF CountedByStatus, StatusIn, RequestStatuses, CatalogTyped, CatalogAssumption
<1>11. UsedIsReal'
  <2>1. IsFiniteSet(counted) /\ Cardinality(counted) \in Nat
    BY FS_Subset, FS_CardinalityType, CatalogAssumption DEF CatalogTyped, CatalogAssumption
  <2>2. CASE answer = "failed"
    BY <1>1, <1>3, <2>2 DEF UsedIsReal, Governing, KeyOf
  <2>3. CASE answer = "provisioned"
    <3>1. Cardinality(counted') = Cardinality(counted) + 1
      BY <1>2, <1>3, <2>1, <2>3, FS_AddElement
    <3>2. 1 \in Int /\ Charge(1, request[r].ask.cost) /\ disturbed' = disturbed
      BY <1>1, <1>3, <2>3
    <3>3. /\ Governing = NoQuota => Governing' = NoQuota
          /\ Governing /= NoQuota => Governing'.used = Governing.used + 1
      BY <1>6, <3>2, ChargeCounts
    <3>4. UsedIsReal
      OBVIOUS
    <3> QED BY <2>1, <3>1, <3>2, <3>3, <3>4 DEF UsedIsReal
  <2>4. CASE answer = "deleted"
    <3>1. Cardinality(counted') = Cardinality(counted) - 1
      BY <1>2, <1>3, <2>1, <2>4, FS_RemoveElement
    <3> QED BY <1>1, <1>3, <1>6, <2>1, <2>4, <3>1, ChargeCounts DEF UsedIsReal
  <2> QED BY <2>2, <2>3, <2>4
<1> QED BY <1>7, <1>9, <1>10, <1>11

LEMMA SetQuotaKeeps ==
  ASSUME CatalogInv, NEW k \in Keys, NEW g \in Grants, SetQuota(k, g)
  PROVE  CatalogInv'
<1> USE DEF CatalogInv
<1> DEFINE new == [limit |-> g.limit, costLimit |-> g.costLimit, used |-> 0, costUsed |-> 0]
<1>1. /\ new \in [limit : Nat, costLimit : Nat, used : Int, costUsed : Int] /\ new.used = 0
      /\ new /= NoQuota
  BY CatalogAssumption DEF CatalogAssumption
<1>2. quota' = [quota EXCEPT ![k] = new] /\ UNCHANGED <<request, calling, counted>>
        /\ disturbed' = (disturbed \/ counted /= {})
  BY DEF SetQuota
<1>3. CatalogTyped'
  BY <1>1, <1>2 DEF CatalogTyped
<1>4. CallsAgree' /\ CountedByStatus'
  BY <1>2 DEF CallsAgree, CountedByStatus, StatusIn
<1>5. UsedIsReal'
  <2> SUFFICES ASSUME ~disturbed, counted = {}, Governing' /= NoQuota PROVE Governing'.used = 0
    BY <1>2, FS_EmptySet DEF UsedIsReal
  <2>1. Governing' = new \/ Governing' = Governing
    BY <1>1, <1>2 DEF Governing, KeyOf, Keys, CatalogTyped
  <2> QED BY <1>1, <2>1, FS_EmptySet DEF UsedIsReal
<1> QED BY <1>3, <1>4, <1>5

LEMMA CatalogStep == CatalogInv /\ [CatalogNext]_catalogVars => CatalogInv'
<1> SUFFICES ASSUME CatalogInv, [CatalogNext]_catalogVars PROVE CatalogInv'
  OBVIOUS
<1>1. CASE UNCHANGED catalogVars
  BY <1>1 DEF catalogVars, CatalogInv, CatalogTyped, CallsAgree, CountedByStatus, UsedIsReal,
              StatusIn, Governing, KeyOf
<1>2. CASE CatalogNext
  BY <1>2, CreateKeeps, DecisionKeeps, CallKeeps, AnswerKeeps, SetQuotaKeeps DEF CatalogNext
<1> QED BY <1>1, <1>2

\* However many callers provision and delete at a time, the quota that governs counts
\* each resource that exists once, unless a quota was set over resources that exist.
THEOREM UsageIsCounted == CatalogSpec => []UsedIsReal
<1>1. CatalogInv => UsedIsReal
  BY DEF CatalogInv
<1> QED BY <1>1, CatalogInitial, CatalogStep, PTL DEF CatalogSpec

-----------------------------------------------------------------------------
(* The container of services *)

ContainerTyped ==
  /\ made \in Nat /\ singletons \in [Services -> Nat \cup {Nil}]
  /\ getting \in [Resolvers -> [service : Services \cup {Nil}, instance : Nat \cup {Nil}]]
  /\ instances \in Seq(Nat) /\ started \in BOOLEAN /\ up \in [1..MaxInstances -> Nat]
  /\ unstopped \in [1..MaxInstances -> Nat]

Starts(i) == Times(i, Places)

\* The list has every start that no stop made up for, but for what was forgotten when
\* its Stop gave an error.
StartsAreListed == \A i \in 1..MaxInstances : up[i] <= Starts(i) + unstopped[i]

ContainerInv == ContainerTyped /\ StartsAreListed

LEMMA OccurrencesAreNat ==
  ASSUME ContainerTyped, NEW places \in SUBSET Places, NEW i
  PROVE  /\ IsFiniteSet({j \in places : instances[j] = i})
         /\ Times(i, places) \in Nat
         /\ Starts(i) = Times(i, places) + Times(i, Places \ places)
<1> DEFINE at == {j \in Places : instances[j] = i}
           some == {j \in places : instances[j] = i}
           others == {j \in Places \ places : instances[j] = i}
<1>1. IsFiniteSet(Places)
  BY FS_Interval DEF Places, ContainerTyped
<1>2. IsFiniteSet(at)
  BY <1>1, FS_Subset
<1>3. some \subseteq at /\ others = at \ some
  OBVIOUS
<1>4. IsFiniteSet(some) /\ IsFiniteSet(others) /\ Cardinality(some) \in Nat
        /\ Cardinality(others) \in Nat /\ Cardinality(at) \in Nat
  BY <1>2, <1>3, FS_Subset, FS_CardinalityType
<1>5. some \cup others = at /\ some \cap others = {}
  BY <1>3
<1>6. Cardinality(at) = Cardinality(some) + Cardinality(others) - Cardinality(some \cap others)
  BY <1>4, <1>5, FS_Union
<1>7. Cardinality(some \cap others) = 0
  BY <1>5, FS_EmptySet
<1> QED BY <1>4, <1>6, <1>7 DEF Times, Starts

LEMMA StartsAreNat ==
  ASSUME NEW list \in Seq(Nat), NEW i
  PROVE  LET at == {j \in 1..Len(list) : list[j] = i}
         IN  IsFiniteSet(at) /\ Cardinality(at) \in Nat
<1> DEFINE at == {j \in 1..Len(list) : list[j] = i}
<1>1. IsFiniteSet(1..Len(list))
  BY FS_Interval
<1>2. IsFiniteSet(at)
  BY <1>1, FS_Subset
<1> QED BY <1>2, FS_CardinalityType

\* What a start puts on the list adds to what was there.
LEMMA ListedTimes ==
  ASSUME ContainerTyped, ContainerTyped', NEW order \in Seq(Nat), NEW k \in 0..Len(order), NEW i,
         instances' = instances \o SubSeq(order, 1, k)
  PROVE  /\ Starts(i)' >= Starts(i)
         /\ (\E j \in 1..k : order[j] = i) => Starts(i)' >= Starts(i) + 1
<1> DEFINE before == {j \in 1..Len(instances) : instances[j] = i}
           after == {j \in 1..Len(instances') : instances'[j] = i}
<1>1. /\ Len(instances) \in Nat /\ Len(instances') = Len(instances) + k
      /\ \A j \in 1..Len(instances) : instances'[j] = instances[j]
      /\ \A j \in 1..k : instances'[Len(instances) + j] = order[j]
  <2>1. SubSeq(order, 1, k) \in Seq(Nat) /\ Len(SubSeq(order, 1, k)) = k
          /\ \A j \in 1..k : SubSeq(order, 1, k)[j] = order[j]
    BY SubSeqProperties
  <2> QED BY <2>1 DEF ContainerTyped
<1>2. IsFiniteSet(before) /\ IsFiniteSet(after) /\ Starts(i) = Cardinality(before)
        /\ Starts(i)' = Cardinality(after) /\ Starts(i) \in Nat /\ Starts(i)' \in Nat
  BY StartsAreNat DEF Starts, Times, Places, ContainerTyped
<1>3. before \subseteq after
  BY <1>1
<1>4. Starts(i)' >= Starts(i)
  BY <1>2, <1>3, FS_Subset
<1>5. ASSUME NEW j \in 1..k, order[j] = i PROVE Starts(i)' >= Starts(i) + 1
  <2> DEFINE new == Len(instances) + j
  <2>1. new \in after /\ new \notin before
    BY <1>1, <1>5
  <2>2. before \cup {new} \subseteq after
    BY <1>3, <2>1
  <2>3. Cardinality(before \cup {new}) = Starts(i) + 1
    BY <1>2, <2>1, FS_AddElement
  <2> QED BY <1>2, <2>2, <2>3, FS_Subset
<1> QED BY <1>4, <1>5

LEMMA ContainerInitial == ContainerInit => ContainerInv
<1> SUFFICES ASSUME ContainerInit PROVE ContainerInv
  OBVIOUS
<1>1. ContainerTyped
  BY EmptySeq DEF ContainerInit, ContainerTyped, Idle
<1>2. StartsAreListed
  <2>1. \A i \in 1..MaxInstances : Starts(i) \in Nat
    BY <1>1, StartsAreNat DEF ContainerTyped, Starts, Times, Places
  <2>2. \A i \in 1..MaxInstances : up[i] = 0 /\ unstopped[i] = 0
    BY DEF ContainerInit
  <2> QED BY <2>1, <2>2 DEF StartsAreListed
<1> QED BY <1>1, <1>2 DEF ContainerInv

LEMMA StartKeeps == ASSUME ContainerInv, Start PROVE ContainerInv'
<1> USE DEF ContainerInv
<1>1. CASE started
  BY <1>1 DEF Start, ContainerTyped, StartsAreListed, Starts, Times, Places
<1>2. CASE ~started
  <2>1. Resolved \subseteq Nat
    BY DEF Resolved, ContainerTyped
  <2>2. PICK order \in SetToSeqs(Resolved), k \in 0..Cardinality(Resolved) :
          /\ instances' = Listed(order, k, k = Len(order)) /\ started' = (k = Len(order))
          /\ up' = [i \in DOMAIN up |-> IF \E j \in 1..k : order[j] = i THEN up[i] + 1 ELSE up[i]]
    BY <1>2 DEF Start
  <2>3. order \in Seq(Nat) /\ Len(order) = Cardinality(Resolved)
    <3>1. order \in [1..Cardinality(Resolved) -> Resolved]
      BY DEF SetToSeqs
    <3>2. Cardinality(Resolved) \in Nat
      <4> DEFINE all == {singletons[s] : s \in Services}
      <4>1. IsFiniteSet(all)
        <5>1. singletons \in Surjection(Services, all)
          BY DEF Surjection, ContainerTyped
        <5> QED BY <5>1, ContainerAssumption, FS_Surjection DEF ContainerAssumption
      <4>2. IsFiniteSet(Resolved)
        BY <4>1, FS_Subset DEF Resolved
      <4> QED BY <4>2, FS_CardinalityType
    <3> DEFINE n == Cardinality(Resolved)
    <3>3. order \in [1..n -> Nat]
      BY <2>1, <3>1
    <3> HIDE DEF n
    <3>4. order \in Seq(Nat) /\ Len(order) = n
      BY <3>2, <3>3 DEF n
    <3> QED BY <3>4 DEF n
  <2>4. instances' = instances \o SubSeq(order, 1, k) /\ k \in 0..Len(order)
    BY <2>2, <2>3 DEF Listed
  <2>5. ContainerTyped'
    <3>1. instances' \in Seq(Nat)
      BY <2>3, <2>4 DEF ContainerTyped
    <3>2. up' \in [1..MaxInstances -> Nat]
      BY <2>2 DEF ContainerTyped
    <3> QED BY <2>2, <3>1, <3>2 DEF ContainerTyped, Start
  <2>6. ASSUME NEW i \in 1..MaxInstances PROVE up'[i] <= Starts(i)' + unstopped'[i]
    <3>1. /\ up[i] \in Nat /\ Starts(i) \in Nat /\ unstopped[i] \in Nat
          /\ up[i] <= Starts(i) + unstopped[i] /\ unstopped'[i] = unstopped[i]
      BY StartsAreNat DEF ContainerTyped, StartsAreListed, Start, Starts, Times, Places
    <3>2. up'[i] = IF \E j \in 1..k : order[j] = i THEN up[i] + 1 ELSE up[i]
      BY <2>2 DEF ContainerTyped
    <3>3. Starts(i)' \in Nat
      BY <2>5, StartsAreNat DEF ContainerTyped, Starts, Times, Places
    <3>4. Starts(i)' >= Starts(i) /\ ((\E j \in 1..k : order[j] = i) => Starts(i)' >= Starts(i) + 1)
      BY <2>3, <2>4, <2>5, ListedTimes
    <3>5. CASE \E j \in 1..k : order[j] = i
      BY <3>1, <3>2, <3>3, <3>4, <3>5
    <3>6. CASE ~\E j \in 1..k : order[j] = i
      BY <3>1, <3>2, <3>3, <3>4, <3>6
    <3> QED BY <3>5, <3>6
  <2> QED BY <2>5, <2>6 DEF StartsAreListed
<1> QED BY <1>1, <1>2 DEF ContainerTyped

LEMMA StopKeeps ==
  ASSUME ContainerInv, StopServices
  PROVE  ContainerInv' /\ (started => \A i \in DOMAIN up : up'[i] <= unstopped'[i])
<1> USE DEF ContainerInv
<1>1. CASE ~started
  BY <1>1 DEF StopServices, ContainerTyped, StartsAreListed, Starts, Times, Places
<1>2. CASE started
  <2>1. PICK failing \in SUBSET Places :
          /\ unstopped' = [i \in DOMAIN up |-> unstopped[i] + Times(i, failing)]
          /\ up' = [i \in DOMAIN up |->
                     IF up[i] > Times(i, Places \ failing)
                     THEN up[i] - Times(i, Places \ failing) ELSE 0]
    BY <1>2 DEF StopServices
  <2>2. DOMAIN up = 1..MaxInstances
    BY DEF ContainerTyped
  <2>3. ASSUME NEW i \in 1..MaxInstances
        PROVE  up'[i] \in Nat /\ unstopped'[i] \in Nat /\ up'[i] <= unstopped'[i]
    <3> DEFINE fails == Times(i, failing)
               stops == Times(i, Places \ failing)
    <3>1. /\ up[i] \in Nat /\ unstopped[i] \in Nat
          /\ up[i] <= Starts(i) + unstopped[i]
      BY DEF ContainerTyped, StartsAreListed
    <3>2. fails \in Nat /\ stops \in Nat /\ Starts(i) = fails + stops
      BY OccurrencesAreNat
    <3>3. unstopped'[i] = unstopped[i] + fails
      BY <2>1, <2>2
    <3>4. up'[i] = IF up[i] > stops THEN up[i] - stops ELSE 0
      BY <2>1, <2>2
    <3> HIDE DEF fails, stops
    <3> QED BY <3>1, <3>2, <3>3, <3>4
  <2>4. ContainerTyped'
    <3>1. up' \in [1..MaxInstances -> Nat] /\ unstopped' \in [1..MaxInstances -> Nat]
      BY <2>1, <2>2, <2>3
    <3>2. instances' = <<>> /\ started' = FALSE
      BY <1>2 DEF StopServices
    <3> QED BY <3>1, <3>2, EmptySeq DEF StopServices, ContainerTyped
  <2>5. \A i \in 1..MaxInstances : Starts(i)' \in Nat
    BY <2>4, StartsAreNat DEF ContainerTyped, Starts, Times, Places
  <2>6. StartsAreListed'
    BY <2>3, <2>5 DEF StartsAreListed
  <2> QED BY <2>2, <2>3, <2>4, <2>6
<1> QED BY <1>1, <1>2 DEF ContainerTyped

\* The calls that resolve services neither start nor stop any.
LEMMA GetKeeps ==
  ASSUME ContainerInv, UNCHANGED <<instances, started, up, unstopped>>, ContainerTyped'
  PROVE  ContainerInv'
BY DEF ContainerInv, StartsAreListed, Starts, Times, Places

LEMMA ContainerStep ==
  ASSUME ContainerInv, [ContainerNext]_containerVars
  PROVE  ContainerInv' /\ ((started /\ ~started') => \A i \in DOMAIN up : up'[i] <= unstopped'[i])
<1> USE DEF ContainerInv
<1>1. CASE UNCHANGED containerVars
  BY <1>1 DEF containerVars, ContainerTyped, StartsAreListed, Starts, Times, Places
<1>2. ASSUME NEW s \in Services, RegisterSingleton(s)
      PROVE  ContainerTyped' /\ UNCHANGED <<instances, started, up, unstopped>>
  BY <1>2 DEF RegisterSingleton, ContainerTyped
<1>3. ASSUME NEW s \in Services, NEW c \in Resolvers, BeginGet(c, s)
      PROVE  ContainerTyped' /\ UNCHANGED <<instances, started, up, unstopped>>
  BY <1>3 DEF BeginGet, ContainerTyped
<1>4. ASSUME NEW c \in Resolvers, FactoryAnswers(c)
      PROVE  ContainerTyped' /\ UNCHANGED <<instances, started, up, unstopped>>
  BY <1>4 DEF FactoryAnswers, ContainerTyped, Idle
<1>5. ASSUME NEW c \in Resolvers, StoreSingleton(c)
      PROVE  ContainerTyped' /\ UNCHANGED <<instances, started, up, unstopped>>
  BY <1>5 DEF StoreSingleton, ContainerTyped, Idle
<1>6. CASE Start
  <2>1. ~(started /\ ~started')
    BY <1>6 DEF Start
  <2> QED BY <1>6, <2>1, StartKeeps
<1>7. CASE StopServices
  BY <1>7, StopKeeps
<1> QED BY <1>1, <1>2, <1>3, <1>4, <1>5, <1>6, <1>7, GetKeeps DEF ContainerNext

\* However often the container is started and stopped, and whatever failed before or is
\* resolved meanwhile, a stop of a container that runs leaves nothing running of what
\* it started but for the instances whose Stop gave an error, then or earlier.
THEOREM StopIsComplete == ContainerSpec => StopsWhatItStarted
<1> DEFINE StopsAll == (started /\ ~started') => \A i \in DOMAIN up : up'[i] <= unstopped'[i]
<1>1. ContainerInv /\ [ContainerNext]_containerVars => ContainerInv' /\ [StopsAll]_containerVars
  BY ContainerStep
<1> QED BY <1>1, ContainerInitial, PTL DEF ContainerSpec, StopsWhatItStarted

-----------------------------------------------------------------------------
(* Deployment sets *)

DeploymentSet ==
  [version : SetIds, plan : Plans, status : {"pending", "in_progress", "failed"} \cup Done,
   nodes : SetIds, rollback : BOOLEAN]

Deployment ==
  [at : {"idle", "found", "created", "added", "ordered", "provisioning"},
   set : SetIds \cup {NoSet}, left : Seq((SetIds \cup {NoSet}) \X Resources)]

SetsTyped ==
  /\ sets \in Seq(DeploymentSet)
  /\ backend \in [SetIds -> SetIds \cup {NoSet}]
  /\ graph \in [Resources -> SetIds \cup {NoSet}]
  /\ node \in [SetIds \X Resources -> {"pending", "provisioning", "ready", "failed"}]
  /\ deploying \in [Deployers -> Deployment]

\* What is stored and what is deployed was created.
Created ==
  /\ \A v \in SetIds : backend[v] \in (1..Len(sets)) \cup {NoSet}
  /\ \A d \in Deployers : deploying[d].at /= "idle" => deploying[d].set \in 1..Len(sets)

\* The graph has the nodes of the set that is deployed.
InTheGraph ==
  \A d \in Deployers : deploying[d].at \in {"added", "ordered", "provisioning"} =>
    \A r \in Names(Mine(d)) : graph[r] = Mine(d).nodes

\* Every node of the set that is deployed is ready, or is yet to be visited.
ReadyOrLeft ==
  \A d \in Deployers : deploying[d].at \in {"ordered", "provisioning"} =>
    /\ \A n \in NodesOf(deploying[d].set) : node[n] = "ready" \/ n \in Range(deploying[d].left)
    /\ deploying[d].at = "provisioning" => deploying[d].left /= <<>>

SetsInv == SetsTyped /\ Created /\ InTheGraph /\ ReadyOrLeft

OneDeployer == \E d : Deployers = {d}

LEMMA SetsStart == SetsInit => SetsInv
<1> SUFFICES ASSUME SetsInit PROVE SetsInv
  OBVIOUS
<1>1. sets \in Seq(DeploymentSet) /\ Len(sets) = 0
  BY DEF SetsInit
<1>2. NotDeploying \in Deployment
  BY DEF NotDeploying, Deployment
<1>3. SetsTyped
  BY <1>1, <1>2 DEF SetsInit, SetsTyped
<1> QED  BY <1>3 DEF SetsInit, SetsInv, Created, InTheGraph, ReadyOrLeft, NotDeploying

LEMMA NodesExist ==
  ASSUME SetsTyped, NEW s \in 1..Len(sets)
  PROVE  /\ sets[s] \in DeploymentSet /\ Names(sets[s]) \subseteq Resources
         /\ NodesOf(s) \subseteq SetIds \X Resources
<1>1. sets[s] \in DeploymentSet
  BY DEF SetsTyped
<1>2. sets[s].plan \in Plans /\ sets[s].nodes \in SetIds
  BY <1>1 DEF DeploymentSet
<1>3. DOMAIN sets[s].plan \subseteq Resources
  BY <1>2, SetsAssumption
<1> QED  BY <1>1, <1>2, <1>3 DEF Names, NodesOf

\* A set changes its status.
LEMMA StatusSet ==
  ASSUME SetsTyped, NEW s \in 1..Len(sets),
         NEW new \in {"pending", "in_progress", "failed"} \cup Done,
         sets' = [sets EXCEPT ![s].status = new]
  PROVE  /\ sets' \in Seq(DeploymentSet) /\ Len(sets') = Len(sets)
         /\ \A t \in 1..Len(sets) :
              /\ sets'[t].nodes = sets[t].nodes /\ sets'[t].plan = sets[t].plan
              /\ t /= s => sets'[t] = sets[t]
              /\ t = s => sets'[t].status = new
<1>1. sets \in Seq(DeploymentSet) /\ sets[s] \in DeploymentSet
  BY DEF SetsTyped
<1>2. [sets[s] EXCEPT !.status = new] \in DeploymentSet
  BY <1>1 DEF DeploymentSet
<1>3. sets' = [sets EXCEPT ![s] = [sets[s] EXCEPT !.status = new]]
  BY <1>1
<1>4. /\ [sets[s] EXCEPT !.status = new].nodes = sets[s].nodes
      /\ [sets[s] EXCEPT !.status = new].plan = sets[s].plan
      /\ [sets[s] EXCEPT !.status = new].status = new
  BY <1>1 DEF DeploymentSet
<1> QED  BY <1>1, <1>2, <1>3, <1>4

\* The deployer starts over, or has created a set, or found one: it is not in the graph.
LEMMA Elsewhere ==
  ASSUME SetsTyped', Created', OneDeployer, NEW d \in Deployers,
         deploying'[d].at \in {"idle", "found", "created"}
  PROVE  SetsInv'
<1>1. \A o \in Deployers : o = d
  BY DEF OneDeployer
<1> QED  BY <1>1 DEF SetsInv, InTheGraph, ReadyOrLeft

LEMMA CreateSetKeeps ==
  ASSUME SetsInv, OneDeployer, NEW d \in Deployers, NEW plan \in Plans,
         NEW nodes \in SetIds \cup {NoSet}, NEW rollback \in BOOLEAN,
         CreateSet(d, plan, nodes, rollback)
  PROVE  SetsInv' /\ \A s \in 1..Len(sets) : sets'[s] = sets[s]
<1> DEFINE s == Len(sets) + 1
<1>1. SetsTyped /\ Created /\ Len(sets) \in Nat /\ MaxSets \in Nat
  BY SetsAssumption DEF SetsInv, SetsTyped
<1>2. PICK v \in SetIds :
        /\ s <= MaxSets
        /\ sets' = Append(sets, [version |-> v, plan |-> plan, status |-> "pending",
                                 nodes |-> IF nodes = NoSet THEN s ELSE nodes, rollback |-> rollback])
        /\ backend' = [backend EXCEPT ![v] = s]
        /\ deploying' = [deploying EXCEPT ![d] = [at |-> "created", set |-> s, left |-> <<>>]]
        /\ UNCHANGED <<graph, edges, node>>
  BY DEF CreateSet
<1>3. s \in SetIds /\ 1..Len(sets) \subseteq SetIds
  BY <1>1, <1>2 DEF SetIds
<1>4. [version |-> v, plan |-> plan, status |-> "pending",
       nodes |-> IF nodes = NoSet THEN s ELSE nodes, rollback |-> rollback] \in DeploymentSet
  BY <1>3 DEF DeploymentSet
<1>5. [at |-> "created", set |-> s, left |-> <<>>] \in Deployment
  BY <1>3 DEF Deployment
<1>6. /\ sets' \in Seq(DeploymentSet) /\ Len(sets') = s
      /\ \A t \in 1..Len(sets) : sets'[t] = sets[t]
  BY <1>1, <1>2, <1>4 DEF SetsTyped
<1>7. SetsTyped'
  BY <1>1, <1>2, <1>3, <1>5, <1>6 DEF SetsTyped
<1>8. 1..Len(sets) \subseteq 1..Len(sets') /\ s \in 1..Len(sets')
  BY <1>1, <1>6
<1> HIDE DEF s
<1>9. Created'
  BY <1>1, <1>2, <1>3, <1>8 DEF SetsTyped, Created
<1>10. deploying'[d].at = "created"
  BY <1>1, <1>2 DEF SetsTyped
<1> QED  BY <1>6, <1>7, <1>9, <1>10, Elsewhere

LEMMA BeginRollbackKeeps ==
  ASSUME SetsInv, OneDeployer, NEW d \in Deployers, NEW v \in SetIds, BeginRollback(d, v)
  PROVE  SetsInv'
<1>1. SetsTyped /\ Created
  BY DEF SetsInv
<1>2. /\ v \in Stored /\ UNCHANGED <<sets, backend, graph, edges, node>>
      /\ deploying' = [deploying EXCEPT ![d] = [at |-> "found", set |-> backend[v], left |-> <<>>]]
  BY DEF BeginRollback
<1>3. backend[v] \in 1..Len(sets) /\ backend[v] \in SetIds \cup {NoSet}
  BY <1>1, <1>2 DEF SetsTyped, Created, Stored
<1>4. [at |-> "found", set |-> backend[v], left |-> <<>>] \in Deployment
  BY <1>3 DEF Deployment
<1>5. SetsTyped'
  BY <1>1, <1>2, <1>4 DEF SetsTyped
<1>6. Created' /\ deploying'[d].at = "found"
  BY <1>1, <1>2, <1>3 DEF SetsTyped, Created
<1> QED  BY <1>5, <1>6, Elsewhere

LEMMA CreateFromTargetKeeps ==
  ASSUME SetsInv, OneDeployer, NEW d \in Deployers, CreateFromTarget(d)
  PROVE  SetsInv' /\ \A s \in 1..Len(sets) : sets'[s] = sets[s]
<1> DEFINE target == sets[deploying[d].set]
<1>1. deploying[d].set \in 1..Len(sets) /\ SetsTyped
  BY DEF SetsInv, Created, CreateFromTarget
<1>2. target \in DeploymentSet
  BY <1>1, NodesExist
<1>3. target.plan \in Plans /\ target.nodes \in SetIds
  BY <1>2 DEF DeploymentSet
<1>4. CreateSet(d, target.plan, target.nodes, TRUE)
  BY DEF CreateFromTarget
<1> QED  BY <1>3, <1>4, CreateSetKeeps

\* A deployment fails: the set says so, and its caller is idle.
LEMMA FailureKeeps ==
  ASSUME SetsInv, OneDeployer, NEW d \in Deployers, deploying[d].at /= "idle",
         node' \in [SetIds \X Resources -> {"pending", "provisioning", "ready", "failed"}],
         sets' = [sets EXCEPT ![deploying[d].set].status = "failed"],
         deploying' = [deploying EXCEPT ![d] = NotDeploying], UNCHANGED <<backend, graph>>
  PROVE  SetsInv' /\ \A s \in 1..Len(sets) : sets'[s].status = "failed" \/ sets'[s] = sets[s]
<1>1. SetsTyped /\ Created /\ deploying[d].set \in 1..Len(sets)
  BY DEF SetsInv, Created
<1>2. /\ sets' \in Seq(DeploymentSet) /\ Len(sets') = Len(sets)
      /\ \A s \in 1..Len(sets) : sets'[s].status = "failed" \/ sets'[s] = sets[s]
  BY <1>1, StatusSet
<1>3. NotDeploying \in Deployment /\ NotDeploying.at = "idle"
  BY DEF NotDeploying, Deployment
<1>4. SetsTyped'
  BY <1>1, <1>2, <1>3 DEF SetsTyped
<1>5. Created' /\ deploying'[d].at = "idle"
  BY <1>1, <1>2, <1>3 DEF SetsTyped, Created
<1> QED  BY <1>2, <1>4, <1>5, Elsewhere

LEMMA AddToGraphKeeps ==
  ASSUME SetsInv, OneDeployer, NEW d \in Deployers, AddToGraph(d)
  PROVE  SetsInv' /\ \A s \in 1..Len(sets) : sets'[s].status \notin Done \/ sets'[s] = sets[s]
<1> DEFINE s == deploying[d].set
<1>1. SetsTyped /\ Created /\ s \in 1..Len(sets) /\ deploying[d] \in Deployment
  BY DEF SetsInv, SetsTyped, Created, AddToGraph
<1>2. /\ sets' = [sets EXCEPT ![s].status = "in_progress"]
      /\ graph' = [r \in Resources |-> IF r \in Names(Mine(d)) THEN Mine(d).nodes ELSE graph[r]]
      /\ deploying' = [deploying EXCEPT ![d].at = "added"]
      /\ UNCHANGED <<backend, node>>
  BY DEF AddToGraph
<1>3. /\ sets' \in Seq(DeploymentSet) /\ Len(sets') = Len(sets)
      /\ \A t \in 1..Len(sets) :
           /\ sets'[t].nodes = sets[t].nodes /\ sets'[t].plan = sets[t].plan
           /\ t /= s => sets'[t] = sets[t]
           /\ t = s => sets'[t].status = "in_progress"
  BY <1>1, <1>2, StatusSet
<1>4. Mine(d) \in DeploymentSet /\ Names(Mine(d)) \subseteq Resources
  BY <1>1, NodesExist DEF Mine
<1>5. Mine(d).nodes \in SetIds
  BY <1>4 DEF DeploymentSet
<1>6. /\ [deploying[d] EXCEPT !.at = "added"] \in Deployment
      /\ [deploying[d] EXCEPT !.at = "added"].set = s
      /\ [deploying[d] EXCEPT !.at = "added"].at = "added"
  BY <1>1 DEF Deployment
<1>7. deploying' = [deploying EXCEPT ![d] = [deploying[d] EXCEPT !.at = "added"]]
  BY <1>2
<1> HIDE DEF s
<1>8. SetsTyped'
  BY <1>1, <1>2, <1>3, <1>5, <1>6, <1>7 DEF SetsTyped
<1>9. deploying'[d].at = "added" /\ deploying'[d].set = s
  BY <1>1, <1>6, <1>7 DEF SetsTyped
<1>10. \A o \in Deployers : o = d
  BY DEF OneDeployer
<1>11. Created'
  BY <1>1, <1>2, <1>3, <1>9, <1>10 DEF Created
<1>12. InTheGraph'
  <2>1. Mine(d)'.plan = Mine(d).plan /\ Mine(d)'.nodes = Mine(d).nodes
    BY <1>1, <1>3, <1>9 DEF Mine, s
  <2>2. \A r \in Names(Mine(d)) : graph'[r] = Mine(d).nodes
    BY <1>2, <1>4
  <2> QED  BY <1>10, <2>1, <2>2 DEF InTheGraph, Names
<1>13. ReadyOrLeft'
  BY <1>9, <1>10 DEF ReadyOrLeft
<1> QED  BY <1>3, <1>8, <1>11, <1>12, <1>13 DEF SetsInv, Done

\* An order holds every resource of the graph.
LEMMA OrderHoldsAll ==
  ASSUME SetsTyped, NEW o \in Orders
  PROVE  o \in Seq(Resources) /\ \A r \in InGraph : \E i \in 1..Len(o) : o[i] = r
<1>1. IsFiniteSet(InGraph) /\ InGraph \subseteq Resources
  BY SetsAssumption, FS_Subset DEF InGraph
<1>2. Cardinality(InGraph) \in Nat
  BY <1>1, FS_CardinalityType
<1>3. o \in [1..Cardinality(InGraph) -> InGraph]
      /\ \A r \in InGraph : \E i \in 1..Cardinality(InGraph) : o[i] = r
  BY DEF Orders, Sequenced, Bijection, Injection, Surjection
<1>4. o \in Seq(InGraph) /\ Len(o) = Cardinality(InGraph)
  BY <1>2, <1>3
<1> QED  BY <1>1, <1>3, <1>4

LEMMA SortKeeps ==
  ASSUME SetsInv, OneDeployer, NEW d \in Deployers, Sort(d)
  PROVE  SetsInv' /\ \A s \in 1..Len(sets) : sets'[s].status \notin Done \/ sets'[s] = sets[s]
<1>1. CASE Cyclic
  <2>1. node \in [SetIds \X Resources -> {"pending", "provisioning", "ready", "failed"}]
    BY DEF SetsInv, SetsTyped
  <2> QED  BY <1>1, <2>1, FailureKeeps DEF Sort, Done
<1>2. CASE ~Cyclic
  <2> DEFINE s == deploying[d].set
  <2>1. PICK o \in Orders :
          deploying' = [deploying EXCEPT ![d].at = "ordered",
                                         ![d].left = [i \in DOMAIN o |-> <<graph[o[i]], o[i]>>]]
    BY <1>2 DEF Sort
  <2>2. UNCHANGED <<sets, backend, graph, edges, node>> /\ deploying[d].at = "added"
    BY <1>2 DEF Sort
  <2> DEFINE ahead == [i \in DOMAIN o |-> <<graph[o[i]], o[i]>>]
             new == [deploying[d] EXCEPT !.at = "ordered", !.left = ahead]
  <2>3. SetsTyped /\ Created /\ s \in 1..Len(sets) /\ deploying[d] \in Deployment
    BY <2>2 DEF SetsInv, SetsTyped, Created
  <2>4. o \in Seq(Resources) /\ \A r \in InGraph : \E i \in 1..Len(o) : o[i] = r
    BY <2>3, OrderHoldsAll
  <2>5. ahead \in Seq((SetIds \cup {NoSet}) \X Resources) /\ Len(ahead) = Len(o)
        /\ \A i \in 1..Len(o) : ahead[i] = <<graph[o[i]], o[i]>>
    <3>1. Len(o) \in Nat /\ DOMAIN o = 1..Len(o) /\ \A i \in 1..Len(o) : o[i] \in Resources
      BY <2>4
    <3>2. \A i \in 1..Len(o) : graph[o[i]] \in SetIds \cup {NoSet}
      BY <2>3, <3>1 DEF SetsTyped
    <3> QED  BY <3>1, <3>2
  <2> HIDE DEF ahead
  <2>6. new \in Deployment /\ new.at = "ordered" /\ new.set = s /\ new.left = ahead
    BY <2>3, <2>5 DEF Deployment
  <2>7. deploying' = [deploying EXCEPT ![d] = new]
    BY <2>1 DEF ahead
  <2> HIDE DEF new, s
  <2>8. deploying'[d] = new /\ SetsTyped'
    BY <2>2, <2>3, <2>6, <2>7 DEF SetsTyped
  <2>9. \A q \in Deployers : q = d
    BY DEF OneDeployer
  <2>10. Created'
    BY <2>2, <2>3, <2>6, <2>8, <2>9 DEF Created
  <2>11. InTheGraph /\ Mine(d)' = Mine(d)
    BY <2>2, <2>6, <2>8 DEF SetsInv, Mine, s
  <2>12. InTheGraph'
    BY <2>2, <2>9, <2>11 DEF InTheGraph, Names
  <2>13. ReadyOrLeft'
    <3>1. ASSUME NEW n \in NodesOf(s) PROVE n \in Range(ahead)
      <4>1. PICK r \in Names(Mine(d)) : n = <<Mine(d).nodes, r>>
        BY DEF NodesOf, Mine, s
      <4>2. graph[r] = Mine(d).nodes
        BY <2>2, <2>11 DEF InTheGraph
      <4>3. r \in Resources /\ Mine(d).nodes \in SetIds
        BY <2>3, NodesExist DEF Mine, s, DeploymentSet
      <4>4. r \in InGraph
        BY <4>2, <4>3, SetsAssumption DEF InGraph, SetIds
      <4>5. PICK i \in 1..Len(o) : o[i] = r
        BY <2>4, <4>4
      <4>6. ahead[i] = n /\ i \in DOMAIN ahead
        BY <2>5, <4>1, <4>2, <4>5
      <4> QED  BY <4>6 DEF Range
    <3> QED  BY <2>2, <2>6, <2>8, <2>9, <3>1 DEF ReadyOrLeft, NodesOf, Names
  <2> QED  BY <2>2, <2>8, <2>10, <2>12, <2>13 DEF SetsInv
<1> QED  BY <1>1, <1>2

\* The first of what is left is visited: it is ready, and leaves, or is being provisioned.
LEMMA VisitedKeeps ==
  ASSUME SetsInv, OneDeployer, NEW d \in Deployers, deploying[d].at \in {"ordered", "provisioning"},
         deploying[d].left /= <<>>, UNCHANGED <<sets, backend, graph>>,
         NEW n, n = Head(deploying[d].left),
         \/ /\ node' = [node EXCEPT ![n] = "provisioning"]
            /\ deploying' = [deploying EXCEPT ![d].at = "provisioning"]
         \/ /\ node' = [node EXCEPT ![n] = "ready"]
            /\ deploying' = [deploying EXCEPT ![d].at = "ordered", ![d].left = Tail(@)]
  PROVE  SetsInv'
<1> DEFINE s == deploying[d].set
           ahead == deploying[d].left
<1>1. SetsTyped /\ Created /\ s \in 1..Len(sets) /\ deploying[d] \in Deployment
  BY DEF SetsInv, SetsTyped, Created
<1>2. /\ ahead \in Seq((SetIds \cup {NoSet}) \X Resources) /\ ahead /= <<>>
      /\ Len(ahead) \in Nat \ {0} /\ n = ahead[1]
      /\ Tail(ahead) \in Seq((SetIds \cup {NoSet}) \X Resources)
      /\ Len(Tail(ahead)) = Len(ahead) - 1 /\ \A i \in 1..Len(Tail(ahead)) : Tail(ahead)[i] = ahead[i + 1]
  <2>1. ahead \in Seq((SetIds \cup {NoSet}) \X Resources)
    BY <1>1 DEF Deployment
  <2> HIDE DEF ahead
  <2> QED  BY <2>1 DEF ahead
<1>3. /\ node' \in [SetIds \X Resources -> {"pending", "provisioning", "ready", "failed"}]
      /\ \A m \in SetIds \X Resources : m /= n => node'[m] = node[m]
      /\ \A m \in SetIds \X Resources : m = n /\ node' = [node EXCEPT ![n] = "ready"] => node'[m] = "ready"
  BY <1>1 DEF SetsTyped
<1>4. PICK new \in Deployment :
        /\ new.set = s /\ deploying' = [deploying EXCEPT ![d] = new]
        /\ \/ new.at = "provisioning" /\ new.left = ahead
           \/ new.at = "ordered" /\ new.left = Tail(ahead) /\ node' = [node EXCEPT ![n] = "ready"]
  <2>1. CASE /\ node' = [node EXCEPT ![n] = "provisioning"]
             /\ deploying' = [deploying EXCEPT ![d].at = "provisioning"]
    <3> DEFINE new == [deploying[d] EXCEPT !.at = "provisioning"]
    <3>1. new \in Deployment /\ new.set = s /\ new.at = "provisioning" /\ new.left = ahead
      BY <1>1 DEF Deployment
    <3>2. deploying' = [deploying EXCEPT ![d] = new]
      BY <2>1
    <3> QED  BY <3>1, <3>2
  <2>2. CASE /\ node' = [node EXCEPT ![n] = "ready"]
             /\ deploying' = [deploying EXCEPT ![d].at = "ordered", ![d].left = Tail(@)]
    <3> DEFINE new == [deploying[d] EXCEPT !.at = "ordered", !.left = Tail(ahead)]
    <3>1. new \in Deployment /\ new.set = s /\ new.at = "ordered" /\ new.left = Tail(ahead)
      BY <1>1, <1>2 DEF Deployment
    <3>2. deploying' = [deploying EXCEPT ![d] = new]
      BY <2>2
    <3> QED  BY <2>2, <3>1, <3>2
  <2> QED  BY <2>1, <2>2
<1>5. SetsTyped' /\ deploying'[d] = new
  BY <1>1, <1>3, <1>4 DEF SetsTyped
<1>6. \A q \in Deployers : q = d
  BY DEF OneDeployer
<1>7. Created'
  BY <1>1, <1>4, <1>5, <1>6 DEF Created
<1>8. InTheGraph'
  BY <1>4, <1>5, <1>6 DEF SetsInv, InTheGraph, Mine, Names
<1>9. ReadyOrLeft'
  <2>1. /\ \A m \in NodesOf(s) : node[m] = "ready" \/ m \in Range(ahead)
        /\ NodesOf(s) \subseteq SetIds \X Resources
    BY <1>1, NodesExist DEF SetsInv, ReadyOrLeft
  <2> HIDE DEF ahead
  <2>2. n \in Range(ahead) /\ \A m \in Range(ahead) : m = n \/ m \in Range(Tail(ahead))
    <3>1. ASSUME NEW i \in 1..Len(ahead) PROVE ahead[i] = n \/ ahead[i] \in Range(Tail(ahead))
      <4>1. CASE i = 1
        BY <1>2, <4>1
      <4>2. CASE i > 1
        <5>1. i - 1 \in 1..Len(Tail(ahead)) /\ Tail(ahead)[i - 1] = ahead[i]
          BY <1>2, <4>2
        <5>2. i - 1 \in DOMAIN Tail(ahead)
          BY <1>2, <5>1
        <5> QED  BY <5>1, <5>2 DEF Range
      <4> QED  BY <1>2, <4>1, <4>2
    <3>2. DOMAIN ahead = 1..Len(ahead) /\ 1 \in 1..Len(ahead)
      BY <1>2
    <3>3. n \in Range(ahead)
      BY <1>2, <3>2 DEF Range
    <3>4. \A m \in Range(ahead) : \E i \in 1..Len(ahead) : m = ahead[i]
      BY <3>2 DEF Range
    <3> QED  BY <3>1, <3>3, <3>4
  <2>3. ASSUME NEW m \in NodesOf(s) PROVE node'[m] = "ready" \/ m \in Range(new.left)
    <3>1. CASE new.left = ahead
      BY <1>3, <2>1, <2>2, <3>1
    <3>2. CASE new.left = Tail(ahead) /\ node' = [node EXCEPT ![n] = "ready"]
      BY <1>3, <2>1, <2>2, <3>2
    <3> QED  BY <1>4, <3>1, <3>2
  <2>4. new.at = "provisioning" => new.left /= <<>>
    BY <1>2, <1>4
  <2> QED  BY <1>4, <1>5, <1>6, <2>3, <2>4 DEF ReadyOrLeft, NodesOf, Names
<1> QED  BY <1>5, <1>7, <1>8, <1>9 DEF SetsInv

LEMMA VisitKeeps ==
  ASSUME SetsInv, OneDeployer, NEW d \in Deployers, Visit(d)
  PROVE  SetsInv' /\ \A s \in 1..Len(sets) : sets'[s].status \notin Done \/ sets'[s] = sets[s]
<1> DEFINE n == Head(deploying[d].left)
<1>1. /\ SetsTyped /\ deploying \in [Deployers -> Deployment]
      /\ deploying[d].at = "ordered" /\ deploying[d].left /= <<>> /\ UNCHANGED <<backend, graph, edges>>
  BY DEF SetsInv, SetsTyped, Visit
<1>2. CASE /\ node' = [node EXCEPT ![n] = "provisioning"] /\ UNCHANGED sets
           /\ deploying' = [deploying EXCEPT ![d].at = "provisioning"]
  BY <1>1, <1>2, VisitedKeeps
<1>3. CASE /\ node' = [node EXCEPT ![n] = "ready"] /\ UNCHANGED sets
           /\ deploying' = [deploying EXCEPT ![d].left = Tail(@)]
  <2>1. deploying[d] \in Deployment
    BY <1>1
  <2>2. [deploying[d] EXCEPT !.left = Tail(@)] = [deploying[d] EXCEPT !.at = "ordered", !.left = Tail(@)]
    BY <1>1, <2>1 DEF Deployment
  <2>3. deploying' = [deploying EXCEPT ![d].at = "ordered", ![d].left = Tail(@)]
    BY <1>3, <2>2
  <2> QED  BY <1>1, <1>3, <2>3, VisitedKeeps
<1>4. CASE /\ sets' = [sets EXCEPT ![deploying[d].set].status = "failed"] /\ UNCHANGED node
           /\ deploying' = [deploying EXCEPT ![d] = NotDeploying]
  BY <1>1, <1>4, FailureKeeps DEF SetsTyped, Done
<1> QED  BY <1>2, <1>3, <1>4 DEF Visit

LEMMA ProvisionedKeeps ==
  ASSUME SetsInv, OneDeployer, NEW d \in Deployers, Provisioned(d)
  PROVE  SetsInv' /\ \A s \in 1..Len(sets) : sets'[s].status \notin Done \/ sets'[s] = sets[s]
<1> DEFINE n == Head(deploying[d].left)
<1>1. /\ SetsTyped /\ deploying[d].at = "provisioning" /\ deploying[d].left /= <<>>
      /\ deploying[d] \in Deployment /\ UNCHANGED <<backend, graph, edges>>
  BY DEF SetsInv, SetsTyped, ReadyOrLeft, Provisioned
<1>2. CASE /\ node' = [node EXCEPT ![n] = "ready"] /\ UNCHANGED sets
           /\ deploying' = [deploying EXCEPT ![d].at = "ordered", ![d].left = Tail(@)]
  BY <1>1, <1>2, VisitedKeeps
<1>3. CASE /\ \E changed \in {"failed", node[n]} : node' = [node EXCEPT ![n] = changed]
           /\ sets' = [sets EXCEPT ![deploying[d].set].status = "failed"]
           /\ deploying' = [deploying EXCEPT ![d] = NotDeploying]
  <2>1. node' \in [SetIds \X Resources -> {"pending", "provisioning", "ready", "failed"}]
    <3>1. node \in [SetIds \X Resources -> {"pending", "provisioning", "ready", "failed"}]
      BY <1>1 DEF SetsTyped
    <3> HIDE DEF n
    <3> QED  BY <1>3, <3>1
  <2> QED  BY <1>1, <1>3, <2>1, FailureKeeps DEF Done
<1> QED  BY <1>2, <1>3 DEF Provisioned

\* All nodes of a set are ready when it succeeds.
LEMMA FinishDeployKeeps ==
  ASSUME SetsInv, OneDeployer, NEW d \in Deployers, FinishDeploy(d)
  PROVE  /\ SetsInv'
         /\ \A s \in 1..Len(sets) :
              sets'[s] = sets[s] \/ \A n \in NodesOf(s) : node'[n] = "ready"
<1> DEFINE s == deploying[d].set
<1>1. SetsTyped /\ Created /\ s \in 1..Len(sets) /\ deploying[d].left = <<>>
  BY DEF SetsInv, Created, FinishDeploy
<1>2. PICK put \in BOOLEAN :
        /\ sets' = [sets EXCEPT ![s].status = IF put /\ Mine(d).rollback THEN "rolled_back" ELSE "succeeded"]
        /\ backend' = IF put THEN [backend EXCEPT ![Mine(d).version] = s] ELSE backend
  BY DEF FinishDeploy
<1>3. deploying' = [deploying EXCEPT ![d] = NotDeploying] /\ UNCHANGED <<graph, edges, node>>
  BY DEF FinishDeploy
<1>4. PICK new \in Done : sets' = [sets EXCEPT ![s].status = new]
  BY <1>2 DEF Done
<1>5. /\ sets' \in Seq(DeploymentSet) /\ Len(sets') = Len(sets)
      /\ \A t \in 1..Len(sets) : t /= s => sets'[t] = sets[t]
  BY <1>1, <1>4, StatusSet
<1>7. NotDeploying \in Deployment /\ NotDeploying.at = "idle"
  BY DEF NotDeploying, Deployment
<1>8. s \in SetIds \cup {NoSet}
  BY <1>1 DEF SetsTyped, Deployment
<1> HIDE DEF s
<1>9. SetsTyped' /\ deploying'[d].at = "idle"
  BY <1>1, <1>2, <1>3, <1>5, <1>7, <1>8 DEF SetsTyped
<1>10. Created'
  BY <1>1, <1>2, <1>3, <1>5, <1>7 DEF SetsTyped, Created
<1>11. \A n \in NodesOf(s) : node'[n] = "ready"
  <2>1. deploying[d].at = "ordered" /\ Range(deploying[d].left) = {}
    BY <1>1 DEF FinishDeploy, Range
  <2> QED  BY <1>3, <2>1 DEF SetsInv, ReadyOrLeft, s
<1> QED  BY <1>5, <1>9, <1>10, <1>11, Elsewhere

\* A step of the engine keeps the invariant, and a set succeeds when it is ready.
LEMMA SetsStep ==
  ASSUME SetsInv, OneDeployer, [SetsNext]_setVars
  PROVE  /\ SetsInv'
         /\ \A s \in 1..Len(sets) : (sets'[s].status \in Done /\ sets[s].status \notin Done) =>
              \A n \in NodesOf(s) : node'[n] = "ready"
<1>1. CASE UNCHANGED setVars
  <2>1. SetsTyped' /\ Created'
    BY <1>1 DEF setVars, SetsInv, SetsTyped, Created
  <2>2. InTheGraph' /\ ReadyOrLeft'
    BY <1>1 DEF setVars, SetsInv, InTheGraph, ReadyOrLeft, Mine, Names, NodesOf
  <2> QED  BY <1>1, <2>1, <2>2 DEF setVars, SetsInv
<1>2. ASSUME NEW d \in Deployers, NEW p \in Plans, CreateNew(d, p)
      PROVE  SetsInv' /\ \A s \in 1..Len(sets) : sets'[s] = sets[s]
  BY <1>2, CreateSetKeeps DEF CreateNew
<1>3. ASSUME NEW d \in Deployers, NEW v \in SetIds, BeginRollback(d, v)
      PROVE  SetsInv' /\ sets' = sets
  BY <1>3, BeginRollbackKeeps DEF BeginRollback
<1> QED
  BY <1>1, <1>2, <1>3, CreateFromTargetKeeps, AddToGraphKeeps, SortKeeps, VisitKeeps,
     ProvisionedKeeps, FinishDeployKeeps
  DEF SetsNext

\* With one deployer a deployment that succeeds has made every one of its
\* resources ready, whatever nodes and edges earlier ones left in the graph, and
\* however many they are.
THEOREM SuccessIsReady == OneDeployer /\ SetsSpec => SucceedsWhenReady
<1> SUFFICES ASSUME OneDeployer PROVE SetsSpec => SucceedsWhenReady
  OBVIOUS
<1>1. SetsInv /\ [SetsNext]_setVars => SetsInv'
  BY SetsStep
<1>2. SetsInv /\ [SetsNext]_setVars =>
        [\A s \in 1..Len(sets) : (sets'[s].status \in Done /\ sets[s].status \notin Done) =>
           \A n \in NodesOf(s) : node'[n] = "ready"]_setVars
  BY SetsStep
<1> QED  BY <1>1, <1>2, SetsStart, PTL DEF SetsSpec, SucceedsWhenReady

-----------------------------------------------------------------------------
(* The life-cycle manager *)

LifecycleTyped ==
  /\ services \in Seq(Priorities) /\ doing \in {"nothing", "starting", "undoing", "stopping"}
  /\ left \in Seq(Registered) /\ began \in Seq(Registered)
  /\ hasStarted \in BOOLEAN /\ hasStopped \in BOOLEAN
  /\ told \subseteq Registered /\ covered \in 0..Len(services)

Rises(s) == \A i, j \in 1..Len(s) : i <= j => services[s[i]] <= services[s[j]]
Falls(s) == \A i, j \in 1..Len(s) : i <= j => services[s[i]] >= services[s[j]]

\* A start tells the services in their order, and reaches all that are registered.
StartInOrder ==
  /\ doing \in {"starting", "undoing"} => ~hasStarted /\ covered = Len(services)
  /\ doing = "starting" =>
       told = Range(began) /\ Rises(began \o left) /\ Range(began \o left) = Registered

\* What undoes a start, or stops, has yet to reach every service that is up.
StopInOrder == doing \in {"undoing", "stopping"} => told \subseteq Range(left) /\ Falls(left)

AtRest ==
  doing = "nothing" => left = <<>> /\ began = <<>> /\ (~hasStarted => told = {})

LifecycleInv == LifecycleTyped /\ StartInOrder /\ StopInOrder /\ AtRest /\ DependentsFirst

LEMMA LifecycleStarts == LifecycleInit => LifecycleInv
<1> SUFFICES ASSUME LifecycleInit PROVE LifecycleInv
  OBVIOUS
<1>0. services \in Seq(Priorities) /\ left \in Seq(Registered) /\ began \in Seq(Registered)
      /\ Len(services) = 0
  BY DEF LifecycleInit
<1>1. covered \in 0..Len(services) /\ told \subseteq Registered
      /\ doing = "nothing" /\ hasStarted = FALSE /\ hasStopped = FALSE
  BY <1>0 DEF LifecycleInit
<1>2. LifecycleTyped
  BY <1>0, <1>1 DEF LifecycleTyped
<1> QED  BY <1>2 DEF LifecycleInit, LifecycleInv, StartInOrder, StopInOrder, AtRest, DependentsFirst

\* Both orders hold every service that is registered.
LEMMA OrdersHoldAll ==
  ASSUME NEW o \in Bijection(Registered, Registered), services \in Seq(Priorities)
  PROVE  o \in Seq(Registered) /\ Len(o) = Len(services) /\ Range(o) = Registered
<1>1. o \in [1..Len(services) -> Registered] /\ \A r \in Registered : \E i \in Registered : o[i] = r
  BY DEF Bijection, Injection, Surjection, Registered
<1>2. Len(services) \in Nat
  OBVIOUS
<1>3. o \in Seq(Registered) /\ Len(o) = Len(services)
  BY <1>1, <1>2
<1> QED  BY <1>1, <1>3 DEF Range, Registered

LEMMA PrioritiesAreNat ==
  ASSUME services \in Seq(Priorities) PROVE \A r \in Registered : services[r] \in Nat
<1>1. Priorities \subseteq Nat
  BY LifecycleAssumption
<1>2. \A r \in 1..Len(services) : services[r] \in Priorities
  OBVIOUS
<1> QED  BY <1>1, <1>2 DEF Registered

LEMMA RegisterKeeps ==
  ASSUME LifecycleInv, NEW p \in Priorities, Register(p) PROVE LifecycleInv'
<1>1. LifecycleTyped /\ doing = "nothing" /\ left = <<>> /\ began = <<>> /\ (~hasStarted => told = {})
  BY DEF LifecycleInv, AtRest, Register
<1>2. services' = Append(services, p) /\ UNCHANGED <<doing, left, began, hasStarted, hasStopped, told, covered>>
  BY DEF Register
<1>3. /\ services' \in Seq(Priorities) /\ Len(services') = Len(services) + 1 /\ Len(services) \in Nat
      /\ \A r \in 1..Len(services) : services'[r] = services[r]
  BY <1>1, <1>2 DEF LifecycleTyped
<1>4. LifecycleTyped'
  BY <1>1, <1>2, <1>3 DEF LifecycleTyped, Registered
<1>5. DependentsFirst'
  <2>1. \A r \in 1..covered : services'[r] = services[r]
    BY <1>1, <1>3 DEF LifecycleTyped
  <2>2. told \subseteq Nat
    BY <1>1 DEF LifecycleTyped, Registered
  <2> SUFFICES ASSUME NEW t \in told, NEW r \in 1..covered, t <= covered, services'[r] < services'[t]
               PROVE  r \in told
    BY <1>2 DEF DependentsFirst
  <2>3. t \in 1..covered
    BY <1>1 DEF LifecycleTyped, Registered
  <2> QED  BY <2>1, <2>3 DEF LifecycleInv, DependentsFirst
<1> QED  BY <1>1, <1>2, <1>4, <1>5 DEF LifecycleInv, StartInOrder, StopInOrder, AtRest

LEMMA BeginStartKeeps == ASSUME LifecycleInv, BeginStart PROVE LifecycleInv'
<1>1. LifecycleTyped /\ told = {}
  BY DEF LifecycleInv, AtRest, BeginStart
<1>2. /\ left' \in Rising /\ began' = <<>> /\ covered' = Len(services) /\ doing' = "starting" /\ ~hasStarted
      /\ UNCHANGED <<services, hasStarted, hasStopped, told>>
  BY DEF BeginStart
<1>3. left' \in Seq(Registered) /\ Len(left') = Len(services) /\ Range(left') = Registered
  BY <1>1, <1>2, OrdersHoldAll DEF LifecycleTyped, Rising
<1>4. Len(services) \in Nat
  BY <1>1 DEF LifecycleTyped
<1>5. LifecycleTyped'
  BY <1>1, <1>2, <1>3, <1>4 DEF LifecycleTyped, Registered
<1>6. began' \o left' = left'
  BY <1>2, <1>3
<1>7. Rises(left)'
  <2> SUFFICES ASSUME NEW i \in 1..Len(left'), NEW j \in 1..Len(left'), i <= j
               PROVE  services[left'[i]] <= services[left'[j]]
    BY <1>2 DEF Rises
  <2>1. services[left'[i]] \in Nat /\ services[left'[j]] \in Nat
    BY <1>1, <1>3, PrioritiesAreNat DEF LifecycleTyped
  <2>2. i \in Registered /\ j \in Registered
    BY <1>3 DEF Registered
  <2>3. CASE i < j
    BY <1>2, <2>1, <2>2, <2>3 DEF Rising
  <2>4. CASE i = j
    BY <2>1, <2>4
  <2> QED  BY <1>3, <2>3, <2>4
<1>8. StartInOrder'
  BY <1>1, <1>2, <1>3, <1>6, <1>7 DEF StartInOrder, Registered, Range
<1>9. DependentsFirst'
  BY <1>1, <1>2 DEF DependentsFirst
<1> QED  BY <1>2, <1>5, <1>8, <1>9 DEF LifecycleInv, StopInOrder, AtRest

\* One more service is started, or the start fails and all are to be stopped.
LEMMA StartNextKeeps == ASSUME LifecycleInv, StartNext PROVE LifecycleInv'
<1> DEFINE h == Head(left)
           all == began \o left
<1>1. /\ LifecycleTyped /\ doing = "starting" /\ left /= <<>> /\ ~hasStarted /\ covered = Len(services)
      /\ told = Range(began) /\ Rises(all) /\ Range(all) = Registered
  BY DEF LifecycleInv, StartInOrder, StartNext
<1>2. /\ began' = Append(began, h) /\ told' = told \cup {h}
      /\ UNCHANGED <<services, hasStarted, hasStopped, covered>>
      /\ \/ left' = Tail(left) /\ doing' = "starting"
         \/ doing' = "undoing" /\ left' = Reverse(all)
  BY <1>1 DEF StartNext
<1>3. /\ h \in Registered /\ Tail(left) \in Seq(Registered) /\ Len(left) \in Nat \ {0} /\ h = left[1]
      /\ began \in Seq(Registered) /\ left \in Seq(Registered) /\ Len(began) \in Nat
  BY <1>1 DEF LifecycleTyped
<1>4. /\ all \in Seq(Registered) /\ Len(all) = Len(began) + Len(left)
      /\ \A i \in 1..Len(began) : all[i] = began[i]
      /\ all[Len(began) + 1] = h
  BY <1>3
<1>5. began' \in Seq(Registered) /\ Append(began, h) \o Tail(left) = all
  BY <1>2, <1>3
<1>6. Range(began') = told'
  <2>1. Len(began') = Len(began) + 1 /\ began'[Len(began) + 1] = h
        /\ \A i \in 1..Len(began) : began'[i] = began[i]
    BY <1>2, <1>3
  <2>2. DOMAIN began' = 1..(Len(began) + 1) /\ DOMAIN began = 1..Len(began)
    BY <1>3, <1>5, <2>1
  <2>3. \A i \in 1..(Len(began) + 1) : i \in 1..Len(began) \/ i = Len(began) + 1
    BY <1>3
  <2>4. 1..Len(began) \subseteq 1..(Len(began) + 1) /\ Len(began) + 1 \in 1..(Len(began) + 1)
    BY <1>3
  <2>5. ASSUME NEW x PROVE (\E i \in DOMAIN began' : x = began'[i])
                             <=> (\E i \in DOMAIN began : x = began[i]) \/ x = h
    BY <2>1, <2>2, <2>3, <2>4
  <2> HIDE DEF h
  <2> QED  BY <1>1, <1>2, <2>5 DEF Range
<1> HIDE DEF all, h
<1>7. Reverse(all) \in Seq(Registered) /\ Range(Reverse(all)) = Range(all) /\ Falls(Reverse(all))
  <2>1. Len(all) \in Nat /\ \A i \in 1..Len(all) : (Len(all) - i) + 1 \in 1..Len(all)
    BY <1>4
  <2>2. Reverse(all) = [i \in 1..Len(all) |-> all[(Len(all) - i) + 1]]
    BY DEF Reverse
  <2>3. Reverse(all) \in Seq(Registered) /\ Len(Reverse(all)) = Len(all)
    BY <1>4, <2>1, <2>2
  <2>4. Range(Reverse(all)) = Range(all)
    <3>1. \A i \in 1..Len(all) : Reverse(all)[i] = all[(Len(all) - i) + 1]
      BY <2>2
    <3>2. \A i \in 1..Len(all) : all[i] = Reverse(all)[(Len(all) - i) + 1]
      BY <2>1, <3>1
    <3>3. DOMAIN all = 1..Len(all) /\ DOMAIN Reverse(all) = 1..Len(all)
      BY <1>4, <2>3
    <3> QED  BY <2>1, <3>1, <3>2, <3>3 DEF Range
  <2>5. Falls(Reverse(all))
    <3> SUFFICES ASSUME NEW i \in 1..Len(all), NEW j \in 1..Len(all), i <= j
                 PROVE  services[Reverse(all)[i]] >= services[Reverse(all)[j]]
      BY <2>3 DEF Falls
    <3> DEFINE a == (Len(all) - i) + 1
               b == (Len(all) - j) + 1
    <3>1. a \in 1..Len(all) /\ b \in 1..Len(all) /\ b <= a
      BY <2>1
    <3>2. Reverse(all)[i] = all[a] /\ Reverse(all)[j] = all[b]
      BY <2>2
    <3> HIDE DEF a, b
    <3>3. services[all[b]] <= services[all[a]]
      BY <1>1, <3>1 DEF Rises
    <3>4. services[all[a]] \in Nat /\ services[all[b]] \in Nat
      BY <1>1, <1>4, <3>1, PrioritiesAreNat DEF LifecycleTyped
    <3> QED  BY <3>2, <3>3, <3>4
  <2> QED  BY <2>3, <2>4, <2>5
<1>8. LifecycleTyped'
  <2>1. left' \in Seq(Registered)
    BY <1>2, <1>3, <1>7
  <2> QED  BY <1>1, <1>2, <1>3, <1>5, <2>1 DEF LifecycleTyped, Registered
<1>9. told' \subseteq Range(all)
  BY <1>1, <1>2, <1>3 DEF LifecycleTyped
<1>10. StartInOrder' /\ StopInOrder' /\ AtRest'
  <2>1. CASE left' = Tail(left) /\ doing' = "starting"
    BY <1>1, <1>2, <1>5, <1>6, <2>1 DEF StartInOrder, StopInOrder, AtRest, Rises, Registered
  <2>2. CASE doing' = "undoing" /\ left' = Reverse(all)
    BY <1>1, <1>2, <1>7, <1>9, <2>2 DEF StartInOrder, StopInOrder, AtRest, Falls
  <2> QED  BY <1>2, <2>1, <2>2
<1>11. DependentsFirst'
  <2> SUFFICES ASSUME NEW t \in told', NEW r \in 1..covered, t <= covered, services[r] < services[t]
               PROVE  r \in told'
    BY <1>2 DEF DependentsFirst
  <2>1. CASE t \in told
    BY <1>2, <2>1 DEF LifecycleInv, DependentsFirst
  <2>2. CASE t = h
    <3>1. r \in Range(all) /\ services[r] \in Nat /\ services[h] \in Nat
      BY <1>1, <1>3, PrioritiesAreNat DEF LifecycleTyped, Registered
    <3>2. PICK k \in 1..Len(all) : all[k] = r
      BY <1>4, <3>1 DEF Range
    <3>3. k <= Len(began)
      <4>1. SUFFICES ASSUME k > Len(began) PROVE FALSE
        BY <1>3, <3>2
      <4>2. Len(began) + 1 \in 1..Len(all) /\ Len(began) + 1 <= k
        BY <1>3, <1>4, <4>1
      <4>3. services[all[Len(began) + 1]] <= services[all[k]]
        BY <1>1, <4>2 DEF Rises
      <4> QED  BY <1>4, <2>2, <3>1, <3>2, <4>3
    <3>4. r = began[k] /\ k \in DOMAIN began
      BY <1>3, <1>4, <3>2, <3>3
    <3> QED  BY <1>1, <1>2, <3>4 DEF Range
  <2> QED  BY <1>2, <2>1, <2>2
<1> QED  BY <1>8, <1>10, <1>11 DEF LifecycleInv

LEMMA BeginStopKeeps == ASSUME LifecycleInv, BeginStop PROVE LifecycleInv'
<1>1. LifecycleTyped
  BY DEF LifecycleInv
<1>2. /\ left' \in Falling /\ doing' = "stopping" /\ hasStarted
      /\ UNCHANGED <<services, began, hasStarted, hasStopped, told, covered>>
  BY DEF BeginStop
<1>3. left' \in Seq(Registered) /\ Len(left') = Len(services) /\ Range(left') = Registered
  BY <1>1, <1>2, OrdersHoldAll DEF LifecycleTyped, Falling
<1>4. LifecycleTyped'
  BY <1>1, <1>2, <1>3 DEF LifecycleTyped, Registered
<1>5. Falls(left)'
  <2> SUFFICES ASSUME NEW i \in 1..Len(left'), NEW j \in 1..Len(left'), i <= j
               PROVE  services[left'[i]] >= services[left'[j]]
    BY <1>2 DEF Falls
  <2>1. services[left'[i]] \in Nat /\ services[left'[j]] \in Nat
    BY <1>1, <1>3, PrioritiesAreNat DEF LifecycleTyped
  <2>2. i \in Registered /\ j \in Registered
    BY <1>3 DEF Registered
  <2>3. CASE i < j
    BY <1>2, <2>1, <2>2, <2>3 DEF Falling
  <2>4. CASE i = j
    BY <2>1, <2>4
  <2> QED  BY <1>3, <2>3, <2>4
<1>6. StopInOrder'
  BY <1>1, <1>2, <1>3, <1>5 DEF StopInOrder, LifecycleTyped
<1>7. DependentsFirst'
  BY <1>2 DEF LifecycleInv, DependentsFirst
<1> QED  BY <1>2, <1>4, <1>6, <1>7 DEF LifecycleInv, StartInOrder, AtRest

\* Of the services that are up, the one that is stopped is the highest.
LEMMA StopNextKeeps == ASSUME LifecycleInv, StopNext PROVE LifecycleInv'
<1> DEFINE h == Head(left)
<1>1. /\ LifecycleTyped /\ doing \in {"undoing", "stopping"} /\ left /= <<>>
      /\ told \subseteq Range(left) /\ Falls(left)
  BY DEF LifecycleInv, StopInOrder, StopNext
<1>2. /\ told' = told \ {h} /\ left' = Tail(left)
      /\ UNCHANGED <<services, doing, began, hasStarted, hasStopped, covered>>
  BY DEF StopNext
<1>3. /\ left \in Seq(Registered) /\ Tail(left) \in Seq(Registered) /\ Len(left) \in Nat \ {0}
      /\ h = left[1] /\ Len(Tail(left)) = Len(left) - 1
      /\ \A i \in 1..Len(Tail(left)) : Tail(left)[i] = left[i + 1]
  BY <1>1 DEF LifecycleTyped
<1> HIDE DEF h
<1>4. LifecycleTyped'
  BY <1>1, <1>2, <1>3 DEF LifecycleTyped, Registered
<1>5. told' \subseteq Range(Tail(left))
  <2> SUFFICES ASSUME NEW t \in told, t /= h PROVE t \in Range(Tail(left))
    BY <1>2
  <2>1. PICK k \in 1..Len(left) : t = left[k]
    BY <1>1, <1>3 DEF Range
  <2>2. k - 1 \in 1..Len(Tail(left)) /\ Tail(left)[k - 1] = t
    BY <1>3, <2>1
  <2> QED  BY <1>3, <2>2 DEF Range
<1>6. Falls(Tail(left))
  BY <1>1, <1>3 DEF Falls
<1>7. StopInOrder'
  BY <1>2, <1>5, <1>6 DEF StopInOrder, Falls
<1>8. DependentsFirst'
  <2> SUFFICES ASSUME NEW t \in told, t /= h, NEW r \in 1..covered, t <= covered, services[r] < services[t]
               PROVE  r \in told /\ r /= h
    BY <1>2 DEF DependentsFirst
  <2>1. r \in told
    BY DEF LifecycleInv, DependentsFirst
  <2>2. PICK k \in 1..Len(left) : t = left[k]
    BY <1>1, <1>3 DEF Range
  <2>3. services[h] >= services[t]
    BY <1>1, <1>3, <2>2 DEF Falls
  <2>4. services[r] \in Nat /\ services[t] \in Nat
    BY <1>1, <2>1, PrioritiesAreNat DEF LifecycleTyped
  <2> QED  BY <2>1, <2>3, <2>4
<1> QED  BY <1>1, <1>2, <1>4, <1>7, <1>8 DEF LifecycleInv, StartInOrder, AtRest

LEMMA ReturnKeeps == ASSUME LifecycleInv, Return PROVE LifecycleInv'
<1>1. /\ LifecycleTyped /\ left = <<>> /\ doing /= "nothing"
      /\ doing \in {"undoing", "stopping"} => told \subseteq Range(left)
  BY DEF LifecycleInv, StopInOrder, Return
<1>2. /\ doing' = "nothing" /\ began' = <<>> /\ hasStarted' = (hasStarted \/ doing = "starting")
      /\ hasStopped' = (hasStopped \/ doing = "stopping")
      /\ UNCHANGED <<services, left, told, covered>>
  BY DEF Return
<1>3. LifecycleTyped'
  BY <1>1, <1>2 DEF LifecycleTyped, Registered
<1>4. ~hasStarted' => told = {}
  <2>1. Range(left) = {}
    BY <1>1 DEF Range
  <2> QED  BY <1>1, <1>2, <2>1 DEF LifecycleTyped
<1>5. DependentsFirst'
  BY <1>2 DEF LifecycleInv, DependentsFirst
<1> QED  BY <1>1, <1>2, <1>3, <1>4, <1>5 DEF LifecycleInv, StartInOrder, StopInOrder, AtRest

LEMMA LifecycleStep == LifecycleInv /\ [LifecycleNext]_lifecycleVars => LifecycleInv'
<1> SUFFICES ASSUME LifecycleInv, [LifecycleNext]_lifecycleVars PROVE LifecycleInv'
  OBVIOUS
<1>1. CASE UNCHANGED lifecycleVars
  <2>1. LifecycleTyped' /\ DependentsFirst'
    BY <1>1 DEF lifecycleVars, LifecycleInv, LifecycleTyped, DependentsFirst, Registered
  <2>2. StartInOrder' /\ StopInOrder' /\ AtRest'
    BY <1>1 DEF lifecycleVars, LifecycleInv, StartInOrder, StopInOrder, AtRest, Rises, Falls, Registered
  <2> QED  BY <2>1, <2>2 DEF LifecycleInv
<1> QED
  BY <1>1, RegisterKeeps, BeginStartKeeps, StartNextKeeps, BeginStopKeeps, StopNextKeeps, ReturnKeeps
  DEF LifecycleNext

\* Of the services that were registered when the start began, none is up while
\* one of a lower priority number is down, in a start, in one that fails, and in
\* a stop, for every number of services and every priorities.
THEOREM DependentsGoFirst == LifecycleSpec => []DependentsFirst
<1>1. LifecycleInv => DependentsFirst
  BY DEF LifecycleInv
<1> QED  BY <1>1, LifecycleStarts, LifecycleStep, PTL DEF LifecycleSpec

-----------------------------------------------------------------------------
(* The previews *)

\* Somebody will clean the preview up, has begun to, or a restart forgot it.
Observed(i) == scheduled[i] /= 0 \/ i \in sweeping \cup forgotten \cup ended

\* The record of a preview that was stored has an expiry.  Two live previews of one
\* pull request and a ready one without a schedule are what the theorems exclude.
RecordsTell ==
  /\ \A i \in Ids : /\ status[i] /= "absent" => expires[i] > 0
                    /\ status[i] = "deleted" => i \in ended
                    /\ status[i] = "ready" => Observed(i)
  /\ OnePerPR

\* What the call that holds the lock found when it began still holds.
Holding ==
  /\ op /= "none" => opId \in Ids /\ opExp > 0
  /\ op \in {"create", "create blindly"} => status[opId] = "absent"
  /\ op = "create" => \A i \in Ids : pr[i] = pr[opId] /\ Alive(i) => i \in ended
  /\ op \in {"extend", "delete"} => status[opId] /= "absent"
  /\ op = "extend" => Observed(opId)
  /\ op = "delete" => opId \in ended

\* So does what a deployment began with.
Deploying ==
  \A j \in Jobs : pc[j] /= "idle" =>
    /\ job[j] \in Ids /\ copy[j] > 0 /\ status[job[j]] /= "absent"
    /\ pc[j] = "save" => Observed(job[j])

PreviewInv == TypeOK /\ RecordsTell /\ Holding /\ Deploying

LEMMA PreviewsStart == Init => PreviewInv
<1> SUFFICES ASSUME Init PROVE PreviewInv
  OBVIOUS
<1> USE DEF Init
<1>1. TypeOK
  BY TimesAssumption DEF TypeOK, Statuses, TimesAssumption
<1>2. RecordsTell
  BY DEF RecordsTell, OnePerPR, Alive
<1>3. Holding /\ Deploying
  BY DEF Holding, Deploying
<1> QED BY <1>1, <1>2, <1>3 DEF PreviewInv

\* Times are natural numbers.
LEMMA Later == ASSUME NEW e \in Nat, NEW d \in Nat PROVE e + d \in Nat
OBVIOUS

\* The bounds on faults and calls hold.
LEMMA FaultCounted == ASSUME faults \in 0..MaxFaults, Fault PROVE faults' \in 0..MaxFaults
BY TimesAssumption DEF Fault, TimesAssumption

LEMMA CallCounted == ASSUME calls \in 0..MaxCalls, Counted PROVE calls' \in 0..MaxCalls
BY TimesAssumption DEF Counted, TimesAssumption

\* A write to the record of a preview that was stored before, by a deployment or by
\* the call that holds the lock, or its loss.
LEMMA RecordSaved ==
  ASSUME PreviewInv, NEW i \in Ids, NEW s \in Statuses, NEW e \in Nat, SaveIgnoring(i, s, e),
         status[i] /= "absent", s /= "absent", e > 0,
         s = "deleted" => i \in ended, s = "ready" => Observed(i),
         UNCHANGED <<born, pr, scheduled, sweeping, history>>
  PROVE  /\ RecordsTell' /\ status' \in [Ids -> Statuses] /\ expires' \in [Ids -> Nat] /\ faults' \in 0..MaxFaults
         /\ \A k \in Ids : /\ (status'[k] = "absent") <=> (status[k] = "absent")
                           /\ Observed(k)' <=> Observed(k)
                           /\ Alive(k)' => Alive(k) \/ k \in ended
<1> USE DEF PreviewInv
<1>1. \A k \in Ids : Observed(k)' <=> Observed(k)
  BY DEF Observed, history
<1>2. CASE Put(i, s, e)
  <2>1. /\ status' = [status EXCEPT ![i] = s] /\ expires' = [expires EXCEPT ![i] = e] /\ faults' = faults
    BY <1>2 DEF Put
  <2>2. \A k \in Ids : (status'[k] = "absent") <=> (status[k] = "absent")
    BY <2>1 DEF TypeOK
  <2>3. \A k \in Ids : Alive(k)' => Alive(k) \/ k \in ended
    BY <2>1 DEF TypeOK, Alive, RecordsTell
  <2>4. OnePerPR'
    BY <2>3 DEF OnePerPR, RecordsTell, history
  <2>5. \A k \in Ids : /\ status'[k] /= "absent" => expires'[k] > 0
                       /\ status'[k] = "deleted" => k \in ended
                       /\ status'[k] = "ready" => Observed(k)
    BY <2>1 DEF TypeOK, RecordsTell
  <2> QED BY <1>1, <2>1, <2>2, <2>3, <2>4, <2>5 DEF RecordsTell, TypeOK, history
<1>3. CASE Lost
  <2>1. status' = status /\ expires' = expires /\ faults' \in 0..MaxFaults
    BY <1>3, FaultCounted DEF Lost, TypeOK
  <2>2. OnePerPR'
    BY <2>1 DEF OnePerPR, RecordsTell, Alive, history
  <2> QED BY <1>1, <2>1, <2>2 DEF RecordsTell, TypeOK, Alive, history
<1> QED BY <1>2, <1>3 DEF SaveIgnoring

\* The data of a preview keep their shape in every step.
LEMMA PreviewsTyped == PreviewInv /\ [Next]_vars => TypeOK'
<1> SUFFICES ASSUME PreviewInv, [Next]_vars PROVE TypeOK'
  OBVIOUS
<1> TypeOK /\ Holding /\ Deploying
  BY DEF PreviewInv
<1> USE DEF TypeOK, record, lock, jobVars, history, Release, Goto
<1>1. /\ MaxFaults \in Nat /\ MaxCalls \in Nat /\ MaxTTL \in Nat /\ TTL \in Nat
      /\ Extensions \subseteq Nat /\ 0 \in Nat
  BY TimesAssumption DEF TimesAssumption
<1>2. /\ {"pending", "provisioning", "failed", "ready", "deleting", "deleted"} \subseteq Statuses
      /\ Counted => calls' \in 0..MaxCalls
      /\ Fault => faults' \in 0..MaxFaults
  <2>1. {"pending", "provisioning", "failed", "ready", "deleting", "deleted"} \subseteq Statuses
    BY DEF Statuses
  <2>2. Counted => calls' \in 0..MaxCalls
    BY CallCounted
  <2>3. Fault => faults' \in 0..MaxFaults
    BY FaultCounted
  <2> QED BY <2>1, <2>2, <2>3
<1>3. ASSUME NEW i \in Ids, NEW s \in Statuses, NEW e \in Nat, SaveIgnoring(i, s, e)
      PROVE  /\ status' \in [Ids -> Statuses] /\ expires' \in [Ids -> Nat]
             /\ faults' \in 0..MaxFaults
  BY <1>2, <1>3 DEF SaveIgnoring, Put, Lost
<1>4. ASSUME NEW i \in Ids, NEW e \in Nat, Deploy(i, e)
      PROVE  /\ pc' \in [Jobs -> {"idle", "begin", "apply", "schedule", "save"}]
             /\ job' \in [Jobs -> Ids \cup {None}] /\ copy' \in [Jobs -> Nat]
  BY <1>4 DEF Deploy
<1>5. ASSUME NEW i \in Ids, NEW e \in Nat, Schedule(i, e)
      PROVE  scheduled' \in [Ids -> Nat] /\ forgotten' \subseteq Ids
  BY <1>5 DEF Schedule
<1>6. CASE UNCHANGED vars
  BY <1>6 DEF vars
<1>7. CASE Tick
  <2>1. now' = now + 1
    BY <1>7 DEF Tick
  <2>2. now' \in Nat
    BY <2>1, Later
  <2> QED BY <1>7, <2>2 DEF Tick
<1>8. CASE Cleanup
  BY <1>1, <1>8 DEF Cleanup
<1>9. CASE Restart
  BY <1>1, <1>2, <1>9 DEF Restart
<1>10. CASE FinishCreate
  <2>1. opId \in Ids /\ opExp \in Nat /\ SaveIgnoring(opId, "pending", opExp)
    BY <1>10 DEF FinishCreate, Holding, SaveIgnoring
  <2>2. Deploy(opId, opExp) \/ UNCHANGED jobVars
    BY <1>10 DEF FinishCreate
  <2> QED BY <1>1, <1>2, <1>3, <1>4, <1>10, <2>1, <2>2 DEF FinishCreate
<1>11. CASE FinishDelete
  BY <1>1, <1>2, <1>3, <1>11 DEF FinishDelete, Holding
<1>12. CASE FinishExtend
  BY <1>1, <1>2, <1>3, <1>12 DEF FinishExtend, Holding
<1>13. ASSUME NEW i \in Ids, NEW p \in PRs, BeginCreate(i, p) PROVE TypeOK'
  <2>1. opExp' \in Nat
    BY <1>1, <1>13, Later DEF BeginCreate
  <2>2. faults' \in 0..MaxFaults
    BY <1>2, <1>13 DEF BeginCreate
  <2>3. born' \in [Ids -> Nat] /\ pr' \in [Ids -> PRs]
    BY <1>13 DEF BeginCreate
  <2> QED BY <1>13, <2>1, <2>2, <2>3 DEF BeginCreate
<1>14. ASSUME NEW i \in Ids, NEW S \in SUBSET Ids, BeginDelete(i, S) PROVE TypeOK'
  <2>1. SaveIgnoring(i, "deleting", expires[i])
    BY <1>14 DEF BeginDelete, SaveIgnoring
  <2> QED BY <1>1, <1>2, <1>3, <1>14, <2>1 DEF BeginDelete
<1>15. ASSUME NEW i \in Ids, Refresh(i) PROVE TypeOK'
  BY <1>2, <1>4, <1>15 DEF Refresh
<1>16. ASSUME NEW i \in Ids, NEW d \in Extensions, BeginExtend(i, d) PROVE TypeOK'
  BY <1>1, <1>2, <1>5, <1>16 DEF BeginExtend, Capped
<1>17. ASSUME NEW j \in Jobs, Provision(j) \/ ApplyResources(j) \/ ApplyFails(j)
                               \/ ScheduleCleanup(j) \/ SaveReady(j)
       PROVE  TypeOK'
  <2>1. pc[j] /= "idle" => job[j] \in Ids /\ copy[j] \in Nat
    BY DEF Deploying
  <2>2. Stop(j) \/ (\E step \in {"apply", "schedule", "save"} : Goto(j, step))
        => /\ pc' \in [Jobs -> {"idle", "begin", "apply", "schedule", "save"}]
           /\ job' \in [Jobs -> Ids \cup {None}] /\ copy' \in [Jobs -> Nat]
    BY <1>1 DEF Stop
  <2>3. CASE Provision(j)
    BY <1>2, <1>3, <2>1, <2>2, <2>3 DEF Provision
  <2>4. CASE ApplyResources(j)
    BY <2>2, <2>4 DEF ApplyResources
  <2>5. CASE ApplyFails(j)
    BY <1>2, <1>3, <2>1, <2>2, <2>5 DEF ApplyFails
  <2>6. CASE ScheduleCleanup(j)
    BY <1>5, <2>1, <2>2, <2>6 DEF ScheduleCleanup
  <2>7. CASE SaveReady(j)
    BY <1>2, <1>3, <2>1, <2>2, <2>7 DEF SaveReady
  <2> QED BY <1>17, <2>3, <2>4, <2>5, <2>6, <2>7
<1> QED BY <1>6, <1>7, <1>8, <1>9, <1>10, <1>11, <1>12, <1>13, <1>14, <1>15, <1>16, <1>17
     DEF Next, Opened, Synchronize, Closed, Live, DeleteExpired

\* A step that neither forgets a preview nor revives one leaves the premises of the
\* call and of the deployments in place.
LEMMA PremisesKept ==
  ASSUME PreviewInv, ended \subseteq ended',
         \A k \in Ids : /\ (status'[k] = "absent") <=> (status[k] = "absent")
                        /\ Observed(k) => Observed(k)'
                        /\ Alive(k)' => Alive(k) \/ k \in ended
  PROVE  /\ UNCHANGED <<lock, pr>> => Holding'
         /\ UNCHANGED jobVars => Deploying'
<1>1. UNCHANGED <<lock, pr>> => Holding'
  BY DEF PreviewInv, TypeOK, Holding, lock
<1>2. UNCHANGED jobVars => Deploying'
  BY DEF PreviewInv, Deploying, jobVars
<1> QED BY <1>1, <1>2

\* What a call that creates a preview finds, and keeps until it stores the record.
LEMMA BeginCreateKeeps ==
  ASSUME PreviewInv, NEW i \in Ids, NEW p \in PRs, BeginCreate(i, p)
  PROVE  RecordsTell' /\ Holding' /\ Deploying'
<1> USE DEF PreviewInv
<1>1. /\ op = "none" /\ status[i] = "absent" /\ UNCHANGED <<status, expires, jobVars, scheduled, sweeping, history>>
      /\ op' \in {"create", "create blindly"} /\ opId' = i
      /\ pr' = [pr EXCEPT ![i] = p] /\ (op' = "create" => Free(p))
  BY DEF BeginCreate
<1>2. \A k \in Ids : (Observed(k)' <=> Observed(k)) /\ (Alive(k)' <=> Alive(k))
  BY <1>1 DEF Observed, Alive, history
<1>3. \A k \in Ids : k /= i => pr'[k] = pr[k]
  BY <1>1 DEF TypeOK
<1>4. ~ Alive(i)
  BY <1>1 DEF Alive
<1>5. OnePerPR'
  BY <1>1, <1>2, <1>3, <1>4 DEF RecordsTell, OnePerPR, history
<1>6. RecordsTell'
  BY <1>1, <1>2, <1>5 DEF RecordsTell, history
<1>7. Deploying'
  BY <1>1, <1>2 DEF Deploying, jobVars
<1>8. opExp' > 0
  <2>1. \A n \in Nat : n + TTL > 0
    BY TimesAssumption DEF TimesAssumption
  <2>2. opExp' = now + TTL /\ now \in Nat
    BY DEF BeginCreate, TypeOK
  <2> QED BY <2>1, <2>2
<1>9. op' = "create" => \A k \in Ids : pr'[k] = pr'[i] => ~ Alive(k)
  BY <1>1, <1>3, <1>4 DEF Free, Alive, TypeOK
<1>10. Holding'
  BY <1>1, <1>2, <1>8, <1>9 DEF Holding
<1> QED BY <1>6, <1>7, <1>10

\* A deployment that starts has a record to deploy.
LEMMA DeployKeeps ==
  ASSUME TypeOK, Deploying, NEW i \in Ids, NEW e \in Nat, e > 0, Deploy(i, e), status'[i] /= "absent",
         \A k \in Ids : /\ status[k] /= "absent" => status'[k] /= "absent"
                        /\ Observed(k) => Observed(k)'
  PROVE  Deploying'
<1>1. PICK j \in Jobs : /\ pc[j] = "idle" /\ pc' = [pc EXCEPT ![j] = "begin"]
                        /\ job' = [job EXCEPT ![j] = i] /\ copy' = [copy EXCEPT ![j] = e]
  BY DEF Deploy
<1>2. /\ pc'[j] = "begin" /\ job'[j] = i /\ copy'[j] = e
      /\ \A k \in Jobs \ {j} : pc'[k] = pc[k] /\ job'[k] = job[k] /\ copy'[k] = copy[k]
  BY <1>1 DEF TypeOK
<1> QED BY <1>2 DEF Deploying

\* The record of a new preview, or its loss.
LEMMA StoreKeeps ==
  ASSUME PreviewInv, FinishCreate
  PROVE  RecordsTell' /\ Holding' /\ Deploying'
<1> USE DEF PreviewInv
<1>1. Holding'
  BY DEF FinishCreate, Release, Holding
<1>2. /\ op \in {"create", "create blindly"} /\ opId \in Ids /\ opExp > 0 /\ opExp \in Nat
      /\ status[opId] = "absent" /\ UNCHANGED <<pr, scheduled, sweeping, ended, forgotten>>
  BY DEF FinishCreate, Holding, TypeOK
<1>3. \A k \in Ids : Observed(k)' <=> Observed(k)
  BY <1>2 DEF Observed
<1>4. CASE Lost /\ UNCHANGED <<jobVars, blind>>
  BY <1>1, <1>2, <1>3, <1>4 DEF Lost, RecordsTell, OnePerPR, Alive, Deploying, jobVars
<1>5. CASE /\ Put(opId, "pending", opExp) /\ Deploy(opId, opExp)
           /\ blind' = IF op = "create" THEN blind ELSE blind \cup {opId}
  <2>1. /\ status' = [status EXCEPT ![opId] = "pending"] /\ expires' = [expires EXCEPT ![opId] = opExp]
    BY <1>5 DEF Put
  <2>2. \A k \in Ids \ {opId} : status'[k] = status[k] /\ (Alive(k)' <=> Alive(k))
    BY <1>2, <2>1 DEF TypeOK, Alive
  <2>3. opId \in blind' \/ \A k \in Ids : pr[k] = pr[opId] /\ Alive(k) => k \in ended
    BY <1>2, <1>5 DEF Holding
  <2>4. OnePerPR'
    BY <1>2, <1>5, <2>2, <2>3 DEF OnePerPR, RecordsTell
  <2>5. RecordsTell'
    BY <1>2, <1>3, <2>1, <2>4 DEF RecordsTell, TypeOK
  <2>6. Deploying'
    BY <1>2, <1>3, <1>5, <2>1, <2>2, DeployKeeps DEF TypeOK
  <2> QED BY <1>1, <2>5, <2>6
<1> QED BY <1>4, <1>5 DEF FinishCreate

\* A preview that somebody begins to delete is no longer waited for.
LEMMA DeleteKeeps ==
  ASSUME PreviewInv, NEW i \in Ids, NEW S \in SUBSET Ids, BeginDelete(i, S), sweeping \ {i} \subseteq S
  PROVE  RecordsTell' /\ Holding' /\ Deploying'
<1> USE DEF PreviewInv
<1>1. /\ op = "none" /\ status[i] /= "absent" /\ sweeping' = S /\ ended' = ended \cup {i}
      /\ UNCHANGED <<pr, jobVars, scheduled, blind, forgotten>>
  BY DEF BeginDelete
<1>2. \A k \in Ids : Observed(k) => Observed(k)'
  BY <1>1 DEF Observed
<1>3. CASE Lost /\ UNCHANGED lock
  BY <1>1, <1>2, <1>3 DEF Lost, lock, RecordsTell, OnePerPR, Alive, Holding, Deploying, jobVars
<1>4. CASE Put(i, "deleting", expires[i]) /\ op' = "delete" /\ opId' = i /\ opExp' = expires[i]
  <2>1. /\ status' = [status EXCEPT ![i] = "deleting"] /\ expires' = [expires EXCEPT ![i] = expires[i]]
    BY <1>4 DEF Put
  <2>2. /\ status'[i] = "deleting" /\ expires' = expires
        /\ \A k \in Ids \ {i} : status'[k] = status[k]
    BY <2>1 DEF TypeOK
  <2>3. RecordsTell'
    BY <1>1, <1>2, <2>2 DEF RecordsTell, OnePerPR, Alive
  <2>4. Holding'
    BY <1>1, <1>4, <2>2 DEF Holding, RecordsTell
  <2>5. Deploying'
    BY <1>1, <1>2, <2>2 DEF Deploying, jobVars
  <2> QED BY <2>3, <2>4, <2>5
<1> QED BY <1>1, <1>3, <1>4 DEF BeginDelete

\* An extension schedules the cleanup at a time that is not zero.
LEMMA ExtendKeeps ==
  ASSUME PreviewInv, NEW i \in Ids, NEW d \in Extensions, BeginExtend(i, d)
  PROVE  RecordsTell' /\ Holding' /\ Deploying'
<1> USE DEF PreviewInv
<1>1. /\ op = "none" /\ status[i] = "ready" /\ op' = "extend" /\ opId' = i /\ Schedule(i, opExp')
      /\ opExp' = Capped(i, expires[i] + d)
      /\ UNCHANGED <<status, expires, pr, jobVars, sweeping, ended, blind>>
  BY DEF BeginExtend, record
<1>2. opExp' > 0
  <2>1. \A e \in Nat, b \in Nat :
           e > 0 => (IF e + d > b + MaxTTL THEN b + MaxTTL ELSE e + d) > 0
    BY TimesAssumption DEF TimesAssumption
  <2>2. expires[i] \in Nat /\ born[i] \in Nat /\ expires[i] > 0
    BY <1>1 DEF TypeOK, RecordsTell
  <2> QED BY <1>1, <2>1, <2>2 DEF Capped
<1>3. scheduled'[i] /= 0
  BY <1>1, <1>2 DEF Schedule, TypeOK
<1>4. \A k \in Ids : Observed(k) => Observed(k)'
  BY <1>1, <1>3 DEF Observed, Schedule, TypeOK
<1>5. RecordsTell'
  BY <1>1, <1>4 DEF RecordsTell, OnePerPR, Alive
<1>6. Holding'
  BY <1>1, <1>2, <1>3 DEF Holding, Observed
<1>7. Deploying'
  BY <1>1, <1>4 DEF Deploying, jobVars
<1> QED BY <1>5, <1>6, <1>7

\* The steps of a deployment.
LEMMA DeploymentKeeps ==
  ASSUME PreviewInv, NEW j \in Jobs,
         Provision(j) \/ ApplyResources(j) \/ ApplyFails(j) \/ ScheduleCleanup(j) \/ SaveReady(j)
  PROVE  RecordsTell' /\ Holding' /\ Deploying'
<1> USE DEF PreviewInv
<1>1. /\ pc[j] /= "idle" /\ job[j] \in Ids /\ copy[j] \in Nat /\ copy[j] > 0 /\ status[job[j]] /= "absent"
      /\ pc[j] = "save" => Observed(job[j])
      /\ UNCHANGED <<born, pr, lock, sweeping, ended, blind>>
  BY DEF Deploying, TypeOK, Provision, ApplyResources, ApplyFails, ScheduleCleanup, SaveReady, record, history
<1>2. ASSUME \/ Stop(j)
             \/ \E step \in {"apply", "schedule"} : Goto(j, step)
             \/ Goto(j, "save") /\ Observed(job[j])',
             \A k \in Ids : (status'[k] = "absent" <=> status[k] = "absent") /\ (Observed(k) => Observed(k)')
      PROVE  Deploying'
  <2>1. \A k \in Jobs \ {j} : pc'[k] = pc[k] /\ job'[k] = job[k] /\ copy'[k] = copy[k]
    BY <1>2 DEF Stop, Goto, TypeOK
  <2>2. \/ pc'[j] = "idle"
        \/ job'[j] = job[j] /\ copy'[j] = copy[j] /\ (pc'[j] = "save" => Observed(job[j])')
    BY <1>2 DEF Stop, Goto, TypeOK
  <2> QED BY <1>1, <1>2, <2>1, <2>2 DEF Deploying
<1>3. ASSUME NEW s \in {"provisioning", "failed", "ready"}, SaveIgnoring(job[j], s, copy[j]),
             s = "ready" => pc[j] = "save", UNCHANGED <<scheduled, forgotten>>
      PROVE  /\ RecordsTell' /\ Holding'
             /\ \A k \in Ids : (status'[k] = "absent" <=> status[k] = "absent") /\ (Observed(k) => Observed(k)')
  <2>1. s \in Statuses /\ s /= "absent" /\ s /= "deleted"
    BY DEF Statuses
  <2>2. /\ RecordsTell'
        /\ \A k \in Ids :
              /\ (status'[k] = "absent") <=> (status[k] = "absent")
              /\ Observed(k)' <=> Observed(k)
              /\ Alive(k)' => Alive(k) \/ k \in ended
    <3>1. UNCHANGED <<born, pr, scheduled, sweeping, history>>
      BY <1>1, <1>3 DEF history
    <3>2. s = "ready" => Observed(job[j])
      BY <1>1, <1>3
    <3> QED BY <1>1, <1>3, <2>1, <3>1, <3>2, RecordSaved
  <2>3. Holding'
    BY <1>1, <2>2, PremisesKept DEF Observed, Alive
  <2> QED BY <2>2, <2>3
<1>4. CASE Provision(j)
  BY <1>2, <1>3, <1>4 DEF Provision, history
<1>5. CASE ApplyResources(j)
  <2>1. \A k \in Ids : (Observed(k)' <=> Observed(k)) /\ (Alive(k)' <=> Alive(k))
    BY <1>5 DEF ApplyResources, Observed, Alive, record, history
  <2>2. Deploying'
    BY <1>2, <1>5, <2>1 DEF ApplyResources, record
  <2> QED BY <1>1, <1>5, <2>1, <2>2, PremisesKept DEF ApplyResources, RecordsTell, OnePerPR, record, history
<1>6. CASE ApplyFails(j)
  BY <1>2, <1>3, <1>6 DEF ApplyFails, history
<1>7. CASE ScheduleCleanup(j)
  <2>1. scheduled'[job[j]] /= 0
    <3>1. copy[j] /= 0
      BY <1>1
    <3> QED BY <1>1, <1>7, <3>1 DEF ScheduleCleanup, Schedule, TypeOK
  <2>2. \A k \in Ids : (Observed(k) => Observed(k)') /\ (Alive(k)' <=> Alive(k))
    BY <1>1, <1>7, <2>1 DEF ScheduleCleanup, Schedule, Observed, Alive, TypeOK, record
  <2>3. Deploying'
    <3>1. Observed(job[j])'
      BY <1>7, <2>1 DEF Observed, ScheduleCleanup, Goto
    <3>2. Goto(j, "save") /\ UNCHANGED status
      BY <1>7 DEF ScheduleCleanup, record
    <3> QED BY <1>2, <2>2, <3>1, <3>2
  <2> QED BY <1>1, <1>7, <2>2, <2>3, PremisesKept DEF ScheduleCleanup, RecordsTell, OnePerPR, record
<1>8. CASE SaveReady(j)
  BY <1>2, <1>3, <1>8 DEF SaveReady, history
<1> QED BY <1>4, <1>5, <1>6, <1>7, <1>8

\* A call ends with the write of its record, whether the write succeeds or not.
LEMMA FinishKeeps ==
  ASSUME PreviewInv, FinishDelete \/ FinishExtend
  PROVE  RecordsTell' /\ Holding' /\ Deploying'
<1> USE DEF PreviewInv
<1>1. Holding'
  BY DEF FinishDelete, FinishExtend, Release, Holding
<1>2. PICK s \in {"deleted", "ready"} : /\ SaveIgnoring(opId, s, opExp)
                                        /\ op = IF s = "deleted" THEN "delete" ELSE "extend"
  BY DEF FinishDelete, FinishExtend
<1>3. /\ opId \in Ids /\ opExp > 0 /\ opExp \in Nat /\ status[opId] /= "absent"
      /\ s = "deleted" => opId \in ended
      /\ s = "ready" => Observed(opId)
      /\ UNCHANGED <<born, pr, jobVars, scheduled, sweeping, history>>
  BY <1>2 DEF Holding, TypeOK, FinishDelete, FinishExtend
<1>4. s \in Statuses /\ s /= "absent"
  BY DEF Statuses
<1>5. /\ RecordsTell'
      /\ \A k \in Ids :
            /\ (status'[k] = "absent") <=> (status[k] = "absent")
            /\ Observed(k)' <=> Observed(k)
            /\ Alive(k)' => Alive(k) \/ k \in ended
  BY <1>2, <1>3, <1>4, RecordSaved
<1>6. Deploying'
  BY <1>3, <1>5, PremisesKept DEF history, Observed, Alive
<1> QED BY <1>1, <1>5, <1>6

\* The steps that touch no record.
LEMMA OthersKeep ==
  ASSUME PreviewInv, Tick \/ Cleanup \/ Restart \/ (\E i \in Ids : Refresh(i)) \/ UNCHANGED vars
  PROVE  RecordsTell' /\ Holding' /\ Deploying'
<1> USE DEF PreviewInv
<1>1. CASE Restart
  <2>1. \A i \in Ids : status[i] /= "absent" => Observed(i)'
    BY <1>1 DEF Restart, Observed
  <2>2. RecordsTell'
    BY <1>1, <2>1 DEF Restart, RecordsTell, OnePerPR, Alive, record
  <2> QED BY <1>1, <2>2 DEF Restart, Release, Holding, Deploying
<1>2. ASSUME UNCHANGED <<record, ended, blind>>,
             \A k \in Ids : Observed(k) => Observed(k)'
      PROVE  RecordsTell' /\ (UNCHANGED lock => Holding') /\ (UNCHANGED jobVars => Deploying')
  BY <1>2 DEF record, RecordsTell, OnePerPR, Alive, Holding, Deploying, lock, jobVars
<1>3. CASE Cleanup
  <2>1. \A k \in Ids : Observed(k) => Observed(k)'
    BY <1>3 DEF Cleanup, Observed, history
  <2> QED BY <1>2, <1>3, <2>1 DEF Cleanup, history
<1>4. CASE Tick \/ UNCHANGED vars
  <2>1. UNCHANGED <<record, lock, jobVars, scheduled, sweeping, history>>
    BY <1>4 DEF Tick, vars
  <2>2. \A k \in Ids : Observed(k) => Observed(k)'
    BY <2>1 DEF Observed, history
  <2> QED BY <1>2, <2>1, <2>2 DEF history
<1>5. ASSUME NEW i \in Ids, Refresh(i) PROVE RecordsTell' /\ Holding' /\ Deploying'
  <2>1. UNCHANGED <<record, lock, scheduled, sweeping, history>> /\ Deploy(i, expires[i])
    BY <1>5 DEF Refresh
  <2>2. \A k \in Ids : Observed(k) => Observed(k)'
    BY <2>1 DEF Observed, history
  <2>3. status[i] /= "absent" /\ expires[i] \in Nat /\ expires[i] > 0 /\ status' = status
    BY <1>5, <2>1 DEF Refresh, RecordsTell, TypeOK, record
  <2>4. Deploying'
    BY <2>1, <2>2, <2>3, DeployKeeps DEF Observed
  <2> QED BY <1>2, <2>1, <2>2, <2>4 DEF history
<1> QED BY <1>1, <1>3, <1>4, <1>5

LEMMA PreviewsStep == PreviewInv /\ [Next]_vars => PreviewInv'
<1> SUFFICES ASSUME PreviewInv, [Next]_vars PROVE PreviewInv'
  OBVIOUS
<1>1. TypeOK' /\ sweeping \subseteq Ids
  BY PreviewsTyped DEF PreviewInv, TypeOK
<1> SUFFICES RecordsTell' /\ Holding' /\ Deploying'
  BY <1>1 DEF PreviewInv
<1>2. ASSUME NEW i \in Ids, NEW S \in SUBSET Ids, BeginDelete(i, S), sweeping \ {i} \subseteq S
      PROVE  RecordsTell' /\ Holding' /\ Deploying'
  BY <1>2, DeleteKeeps
<1>3. CASE \E p \in PRs : Opened(p) \/ Synchronize(p) \/ Closed(p)
  <2> PICK p \in PRs : Opened(p) \/ Synchronize(p) \/ Closed(p)
    BY <1>3
  <2>1. CASE Opened(p)
    BY <2>1, BeginCreateKeeps DEF Opened
  <2>2. CASE Synchronize(p)
    BY <2>2, BeginCreateKeeps, OthersKeep DEF Synchronize, Opened, Live
  <2>3. CASE Closed(p)
    BY <1>1, <1>2, <2>3 DEF Closed, Live
  <2> QED BY <2>1, <2>2, <2>3
<1>4. CASE \E i \in Ids : \/ BeginDelete(i, sweeping) \/ DeleteExpired(i) \/ Refresh(i)
                         \/ \E d \in Extensions : BeginExtend(i, d)
  <2> PICK i \in Ids : \/ BeginDelete(i, sweeping) \/ DeleteExpired(i) \/ Refresh(i)
                      \/ \E d \in Extensions : BeginExtend(i, d)
    BY <1>4
  <2>1. CASE BeginDelete(i, sweeping)
    BY <1>1, <1>2, <2>1
  <2>2. CASE DeleteExpired(i)
    BY <1>1, <1>2, <2>2 DEF DeleteExpired
  <2> QED BY <2>1, <2>2, OthersKeep, ExtendKeeps
<1> QED BY <1>3, <1>4, StoreKeeps, FinishKeeps, OthersKeep, DeploymentKeeps DEF Next

\* However the calls, the deployments, faults and restarts overlap: two previews of one
\* pull request are alive at once only after a deletion was begun or the list unreadable.
THEOREM OnePreviewPerPR == Spec => []OnePerPR
<1>1. PreviewInv => OnePerPR
  BY DEF PreviewInv, RecordsTell
<1> QED BY <1>1, PreviewsStart, PreviewsStep, PTL DEF Spec

\* A ready preview stays in the schedule or the sweep until somebody begins to delete
\* it or the process goes down, also when a deployment writes over the record.
THEOREM ReadyIsWatched == Spec => []Watched
<1>1. PreviewInv => Watched
  BY DEF PreviewInv, RecordsTell, Observed, Watched
<1> QED BY <1>1, PreviewsStart, PreviewsStep, PTL DEF Spec
=============================================================================
