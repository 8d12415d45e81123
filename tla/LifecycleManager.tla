--------------------------- MODULE LifecycleManager ---------------------------
(***************************************************************************)
(* The life-cycle manager of services (pkg/services/lifecycle.go): starts  *)
(* what is registered in the order of the priorities and stops it in the   *)
(* reverse order, service by service with the lock held.                   *)
(***************************************************************************)
EXTENDS Naturals, Sequences, SequencesExt

CONSTANTS
  Priorities,
  MaxServices   \* bound on the services of a behaviour

ASSUME LifecycleAssumption == Priorities \subseteq Nat /\ MaxServices \in Nat

VARIABLES
  services,  \* the priority of each service, in the order of registration
  doing,     \* what the holder of the lock does
  left,      \* the services it has still to deal with
  began,     \* what the attempt to start has begun to start, in order
  hasStarted, hasStopped,
  told,      \* history: services told to start, and not to stop since
  covered    \* history: the number of services when the last start began

lifecycleVars == <<services, doing, left, began, hasStarted, hasStopped, told, covered>>

LifecycleInit ==
  /\ services = <<>> /\ doing = "nothing" /\ left = <<>> /\ began = <<>>
  /\ hasStarted = FALSE /\ hasStopped = FALSE
  /\ told = {} /\ covered = 0

Registered == 1..Len(services)

Register(p) ==
  /\ doing = "nothing" /\ Len(services) < MaxServices
  /\ services' = Append(services, p)
  /\ UNCHANGED <<doing, left, began, hasStarted, hasStopped, told, covered>>

\* The insertion sort is stable: equals stay in the order of registration.
Rising ==
  {o \in Bijection(Registered, Registered) : \A i, j \in Registered : i < j =>
     services[o[i]] < services[o[j]] \/ (services[o[i]] = services[o[j]] /\ o[i] < o[j])}

\* Mutant: services stop in the order in which they start.
FallingNot == Rising

Falling ==
  {o \in Bijection(Registered, Registered) : \A i, j \in Registered : i < j =>
     services[o[i]] > services[o[j]] \/ (services[o[i]] = services[o[j]] /\ o[i] < o[j])}

BeginStart ==
  /\ doing = "nothing" /\ ~hasStarted
  /\ doing' = "starting" /\ left' \in Rising /\ began' = <<>> /\ covered' = Len(services)
  /\ UNCHANGED <<services, hasStarted, hasStopped, told>>

\* A start that fails undoes all services, the last one first.
StartNext ==
  /\ doing = "starting" /\ left /= <<>>
  /\ began' = Append(began, Head(left))
  /\ told' = told \cup {Head(left)}
  /\ \/ left' = Tail(left) /\ UNCHANGED doing
     \/ doing' = "undoing" /\ left' = Reverse(began \o left)
  /\ UNCHANGED <<services, hasStarted, hasStopped, covered>>

StopNext ==
  /\ doing \in {"undoing", "stopping"} /\ left /= <<>>
  /\ told' = told \ {Head(left)}
  /\ left' = Tail(left)
  /\ UNCHANGED <<services, doing, began, hasStarted, hasStopped, covered>>

BeginStop ==
  /\ doing = "nothing" /\ hasStarted /\ ~hasStopped
  /\ doing' = "stopping" /\ left' \in Falling
  /\ UNCHANGED <<services, began, hasStarted, hasStopped, told, covered>>

Return ==
  /\ doing /= "nothing" /\ left = <<>>
  /\ hasStarted' = (hasStarted \/ doing = "starting") /\ hasStopped' = (hasStopped \/ doing = "stopping")
  /\ doing' = "nothing" /\ began' = <<>>
  /\ UNCHANGED <<services, left, told, covered>>

LifecycleNext ==
  \/ \E p \in Priorities : Register(p)
  \/ BeginStart \/ StartNext \/ BeginStop \/ StopNext \/ Return

LifecycleSpec == LifecycleInit /\ [][LifecycleNext]_lifecycleVars

-----------------------------------------------------------------------------
(* Properties *)

\* While a service is up, those of a lower priority number that were registered
\* when the start began are up too: in a start, in one that fails, and in a stop
\* of a manager that more services were registered with meanwhile.
DependentsFirst ==
  \A t \in told : \A r \in 1..covered :
    (t <= covered /\ services[r] < services[t]) => r \in told
=============================================================================
