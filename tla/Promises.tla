-------------------------------- MODULE Promises --------------------------------
(***************************************************************************)
(* One promise and the requests for it (internal/promise/manager.go).  The *)
(* state of a request is read and written without the lock: approvals,     *)
(* rejections and provisioning of one request interleave with one another, *)
(* and with a deletion and the removal of the promise.                     *)
(***************************************************************************)
EXTENDS Naturals, FiniteSets

CONSTANTS
  Requests,   \* names, which a request shares with its instance
  Approvers,  \* callers of Approve, Reject and Delete
  Nothing

\* Of requests and of their instances.
PromiseStates == {"pending", "awaiting", "approved", "rejected", "provisioning", "ready", "failed",
                  "deleting", "deleted"}

ASSUME PromiseAssumption == IsFiniteSet(Approvers) /\ Nothing \notin Requests \cup PromiseStates

VARIABLES
  promised,   \* the promise is registered
  gated,      \* it needs approval
  request,    \* the state of a request, Nothing if there is none
  instance,   \* and of its instance
  call, of,   \* what a caller does next, and to which request
  provisions  \* history: successful provisionings of a request

held == <<promised, gated, request, instance>>
promiseVars == <<held, call, of, provisions>>

PromiseInit ==
  /\ promised = FALSE /\ gated \in BOOLEAN
  /\ request = [r \in Requests |-> Nothing] /\ instance = [r \in Requests |-> Nothing]
  /\ call = [a \in Approvers |-> "idle"] /\ of = [a \in Approvers |-> Nothing]
  /\ provisions = [r \in Requests |-> 0]

Begin(a, c, r) ==
  /\ call[a] = "idle"
  /\ call' = [call EXCEPT ![a] = c] /\ of' = [of EXCEPT ![a] = r]
Turn(a, c) == call' = [call EXCEPT ![a] = c] /\ UNCHANGED of
End(a) == call' = [call EXCEPT ![a] = "idle"] /\ of' = [of EXCEPT ![a] = Nothing]
Doing(a, c) == call[a] = c
Become(r, s) == request' = [request EXCEPT ![r] = s]

RegisterPromise ==
  /\ promised' = TRUE
  /\ UNCHANGED <<gated, request, instance, call, of, provisions>>

Unused == \A r \in Requests : instance[r] \in {Nothing, "deleted"}

UnregisterPromise ==
  /\ promised /\ Unused /\ promised' = FALSE
  /\ UNCHANGED <<gated, request, instance, call, of, provisions>>

\* A name is used once.
Request(a, r) ==
  /\ promised /\ request[r] = Nothing /\ \A o \in Approvers : of[o] /= r
  /\ Begin(a, "request", r)
  /\ UNCHANGED <<held, provisions>>

\* Without a need for approval the caller provisions.
Requested(a) ==
  /\ Doing(a, "request")
  /\ IF gated THEN Become(of[a], "awaiting") /\ End(a)
     ELSE Become(of[a], "pending") /\ Turn(a, "provision")
  /\ UNCHANGED <<promised, gated, instance, provisions>>

\* Mutant: a request can be approved in any state.
MayDecideAnyway(r) == request[r] \notin {Nothing, "pending"}

MayDecide(r) == request[r] = "awaiting"

Approve(a, r) ==
  /\ MayDecide(r) /\ Begin(a, "approve", r)
  /\ UNCHANGED <<held, provisions>>

Approved(a) ==
  /\ Doing(a, "approve")
  /\ IF promised THEN Become(of[a], "approved") /\ Turn(a, "provision")
     ELSE End(a) /\ UNCHANGED request
  /\ UNCHANGED <<promised, gated, instance, provisions>>

Reject(a, r) ==
  /\ MayDecide(r) /\ Begin(a, "reject", r)
  /\ UNCHANGED <<held, provisions>>

Rejected(a) ==
  /\ Doing(a, "reject") /\ Become(of[a], "rejected") /\ End(a)
  /\ UNCHANGED <<promised, gated, instance, provisions>>

Provision(a) ==
  /\ Doing(a, "provision") /\ Become(of[a], "provisioning") /\ Turn(a, "provisioned")
  /\ UNCHANGED <<promised, gated, instance, provisions>>

Provisioned(a) ==
  /\ Doing(a, "provisioned")
  /\ \/ Become(of[a], "failed") /\ End(a) /\ UNCHANGED provisions
     \/ /\ Become(of[a], "ready") /\ Turn(a, "record")
        /\ provisions' = [provisions EXCEPT ![of[a]] = @ + 1]
  /\ UNCHANGED <<promised, gated, instance>>

RecordInstance(a) ==
  /\ Doing(a, "record") /\ instance' = [instance EXCEPT ![of[a]] = "ready"] /\ End(a)
  /\ UNCHANGED <<promised, gated, request, provisions>>

\* An instance in any state, one that was deleted as well.
Delete(a, r) ==
  /\ instance[r] /= Nothing /\ Begin(a, "delete", r)
  /\ instance' = [instance EXCEPT ![r] = "deleting"]
  /\ UNCHANGED <<promised, gated, request, provisions>>

Deleted(a) ==
  /\ Doing(a, "delete") /\ End(a)
  /\ \/ instance' = [instance EXCEPT ![of[a]] = "failed"] /\ UNCHANGED request
     \/ instance' = [instance EXCEPT ![of[a]] = "deleted"] /\ Become(of[a], "deleted")
  /\ UNCHANGED <<promised, gated, provisions>>

PromiseNext ==
  \/ RegisterPromise \/ UnregisterPromise
  \/ \E a \in Approvers :
       \/ \E r \in Requests : Request(a, r) \/ Approve(a, r) \/ Reject(a, r) \/ Delete(a, r)
       \/ Requested(a) \/ Approved(a) \/ Rejected(a) \/ Provision(a) \/ Provisioned(a)
       \/ RecordInstance(a) \/ Deleted(a)

PromiseSpec == PromiseInit /\ [][PromiseNext]_promiseVars

-----------------------------------------------------------------------------
(* Properties *)

PromiseTypeOK ==
  /\ promised \in BOOLEAN /\ gated \in BOOLEAN
  /\ request \in [Requests -> PromiseStates \cup {Nothing}]
  /\ instance \in [Requests -> {Nothing, "ready", "deleting", "deleted", "failed"}]
  /\ call \in [Approvers -> {"idle", "request", "approve", "reject", "provision", "provisioned",
                             "record", "delete"}]
  /\ of \in [Approvers -> Requests \cup {Nothing}]
  /\ provisions \in [Requests -> Nat]

\* A request is provisioned at most once by each of the callers that were at
\* work on it at the same time, however often they decide and delete.
ProvisionedPerCaller ==
  \A r \in Requests : provisions[r] <= Cardinality(Approvers)
=============================================================================
