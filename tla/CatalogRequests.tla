---------------------------- MODULE CatalogRequests ----------------------------
(***************************************************************************)
(* Requests for resources of the catalog (internal/catalog/request.go) of  *)
(* one application and one type of resource: creation against a quota,     *)
(* approval, and the calls of a provisioner outside the lock, by several   *)
(* callers.  The application has a quota of its own or that of its team.   *)
(***************************************************************************)
EXTENDS Integers, FiniteSets, FiniteSetsExt

CONSTANTS
  Requests,   \* what may be asked for: each is asked for once
  Asks,       \* what a request is: whether a policy or its environment gates it, its cost
  Grants,     \* what a quota allows: a number of resources, and a cost or 0 for any
  Callers,
  Threshold,  \* the cost from which a request is costly
  NoRequest, NoQuota

RequestStatuses ==
  {"pending", "pending_approval", "approved", "rejected", "provisioning", "provisioned",
   "failed", "deleting", "deleted"}

ASSUME CatalogAssumption ==
  /\ Asks \subseteq [gated : BOOLEAN, cost : Nat] /\ Grants \subseteq [limit : Nat, costLimit : Nat]
  /\ IsFiniteSet(Requests) /\ Threshold \in Nat /\ NoRequest \notin Requests
  /\ NoRequest \notin [ask : Asks, status : RequestStatuses]
  /\ NoQuota \notin [limit : Nat, costLimit : Nat, used : Int, costUsed : Int]

VARIABLES
  request,   \* what each request is, and its status
  quota,     \* the quota of the application and that of its team
  calling,   \* what each caller has the provisioner do, and for which request
  counted,   \* history: requests whose provisioning succeeded and whose deletion did not
  disturbed  \* history: a quota was set while requests were counted

catalogVars == <<request, quota, calling, counted, disturbed>>

Keys == {"application", "team"}
NotCalling == [doing |-> "nothing", request |-> NoRequest]

CatalogInit ==
  /\ request = [r \in Requests |-> NoRequest]
  /\ quota = [k \in Keys |-> NoQuota]
  /\ calling = [c \in Callers |-> NotCalling]
  /\ counted = {} /\ disturbed = FALSE

\* The quota of the application goes before that of its team.
KeyOf(quotas) == IF quotas["application"] /= NoQuota THEN "application" ELSE "team"
Governing == quota[KeyOf(quota)]

Within(ask) ==
  Governing /= NoQuota =>
    /\ Governing.used < Governing.limit
    /\ (Governing.costLimit > 0 /\ ask.cost > 0) => Governing.costUsed + ask.cost <= Governing.costLimit

RequiresApproval(ask, estimate) == ask.gated \/ estimate > Threshold

\* The approval is asked about before the cost is estimated.
CreateRequest(r, ask) ==
  /\ request[r] = NoRequest /\ Within(ask)
  /\ request' = [request EXCEPT ![r] =
       [ask |-> ask, status |-> IF RequiresApproval(ask, 0) THEN "pending_approval" ELSE "pending"]]
  /\ UNCHANGED <<quota, calling, counted, disturbed>>

StatusIn(r, statuses) == request[r] /= NoRequest /\ request[r].status \in statuses

ApproveRequest(r) ==
  /\ StatusIn(r, {"pending_approval"})
  /\ request' = [request EXCEPT ![r].status = "approved"]
  /\ UNCHANGED <<quota, calling, counted, disturbed>>

RejectRequest(r) ==
  /\ StatusIn(r, {"pending_approval"})
  /\ request' = [request EXCEPT ![r].status = "rejected"]
  /\ UNCHANGED <<quota, calling, counted, disturbed>>

\* Mutant: what somebody else provisions or deletes is taken again.
MayAgain(doing) ==
  IF doing = "provisioning" THEN {"pending", "approved", "provisioning"} ELSE {"provisioned", "deleting"}

May(doing) == IF doing = "provisioning" THEN {"pending", "approved"} ELSE {"provisioned"}

\* ProvisionRequest and DeleteRequest until they unlock.
CallProvisioner(c, r, doing) ==
  /\ calling[c] = NotCalling /\ StatusIn(r, May(doing))
  /\ request' = [request EXCEPT ![r].status = doing]
  /\ calling' = [calling EXCEPT ![c] = [doing |-> doing, request |-> r]]
  /\ UNCHANGED <<quota, counted, disturbed>>

\* The quota is that of the moment, and may go below zero.
Charge(delta, cost) ==
  IF Governing = NoQuota THEN UNCHANGED quota
  ELSE quota' = [quota EXCEPT ![KeyOf(quota)].used = @ + delta,
                              ![KeyOf(quota)].costUsed = @ + delta * cost]

ProvisionerAnswers(c) ==
  LET r == calling[c].request
      provisioned == calling[c].doing = "provisioning" IN
    /\ calling[c] /= NotCalling
    /\ \/ /\ request' = [request EXCEPT ![r].status = "failed"]
          /\ UNCHANGED <<quota, counted>>
       \/ /\ request' = [request EXCEPT ![r].status = IF provisioned THEN "provisioned" ELSE "deleted"]
          /\ Charge(IF provisioned THEN 1 ELSE -1, request[r].ask.cost)
          /\ counted' = IF provisioned THEN counted \cup {r} ELSE counted \ {r}
    /\ calling' = [calling EXCEPT ![c] = NotCalling]
    /\ UNCHANGED disturbed

\* A quota replaces what was there, and begins unused.
SetQuota(k, g) ==
  /\ quota' = [quota EXCEPT ![k] = [limit |-> g.limit, costLimit |-> g.costLimit, used |-> 0, costUsed |-> 0]]
  /\ disturbed' = (disturbed \/ counted /= {})
  /\ UNCHANGED <<request, calling, counted>>

CatalogNext ==
  \/ \E r \in Requests :
       \/ \E ask \in Asks : CreateRequest(r, ask)
       \/ ApproveRequest(r) \/ RejectRequest(r)
       \/ \E c \in Callers, doing \in {"provisioning", "deleting"} : CallProvisioner(c, r, doing)
  \/ \E c \in Callers : ProvisionerAnswers(c)
  \/ \E k \in Keys, g \in Grants : SetQuota(k, g)

CatalogSpec == CatalogInit /\ [][CatalogNext]_catalogVars

-----------------------------------------------------------------------------
(* Properties *)

\* Unless a quota was set over resources that exist, the quota that governs counts
\* each of them once, whoever provisions and deletes at a time; one whose deletion
\* failed stays counted.
UsedIsReal ==
  (~disturbed /\ Governing /= NoQuota) => Governing.used = Cardinality(counted)
=============================================================================
