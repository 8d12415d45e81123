------------------------- MODULE EphemeralEnvironments -------------------------
(***************************************************************************)
(* Ephemeral environments (internal/environment/ephemeral.go): created for *)
(* a pull request or a branch, extended up to a limit, ended by an event   *)
(* of the pull request, by hand, or by the cleanup loop.  Provisioners     *)
(* hear of each event in a goroutine and report a status when they like.   *)
(***************************************************************************)
EXTENDS Naturals, Sequences

CONSTANTS
  Pulls,       \* the pull requests of one repository
  NoPull,      \* the source of an environment for a branch
  Handlers,    \* calls of HandlePREvent that overlap
  NoHandler,
  TTLs,        \* the times to live and the extensions that callers ask for
  MaxTTL,
  MaxEnvs, MaxNow  \* bounds on a behaviour

ASSUME EphemeralAssumption ==
  NoPull \notin Pulls /\ TTLs \subseteq Nat /\ {MaxTTL, MaxEnvs, MaxNow} \subseteq Nat

VARIABLES
  environments,  \* in the order of their creation
  now,
  handling,      \* the environment each handler has looked up
  tasks,         \* what provisioners have still to report on each environment
  running        \* the cleanup loop

ephemeralVars == <<environments, now, handling, tasks, running>>

Ids == 1..Len(environments)
Capped(ttl) == IF ttl > MaxTTL THEN MaxTTL ELSE ttl

EphemeralInit ==
  /\ environments = <<>> /\ now = 0 /\ running = TRUE
  /\ handling = [h \in Handlers |-> NoHandler]
  /\ tasks = {}

Matching(p) == {i \in Ids : environments[i].pull = p /\ environments[i].status /= "deleted"}

\* CreateForPullRequest, and CreateForBranch, which looks for no other.
Create(p, ttl) ==
  /\ Len(environments) < MaxEnvs
  /\ p /= NoPull => Matching(p) = {}
  /\ environments' = Append(environments,
       [pull |-> p, status |-> "pending", created |-> now, expires |-> now + Capped(ttl)])
  /\ tasks' = tasks \cup {[env |-> Len(environments) + 1, kind |-> "provision"]}
  /\ UNCHANGED <<now, handling, running>>

\* The first half of HandlePREvent; of several environments it finds any.
FindForEvent(h, p) ==
  /\ handling[h] = NoHandler
  /\ \E i \in Matching(p) : handling' = [handling EXCEPT ![h] = i]
  /\ UNCHANGED <<environments, now, tasks, running>>

\* Whatever status the environment has.
MarkDeleting(i) ==
  /\ environments' = [environments EXCEPT ![i].status = "deleting"]
  /\ tasks' = tasks \cup {[env |-> i, kind |-> "delete"]}

EndEvent(h) ==
  /\ handling[h] /= NoHandler
  /\ MarkDeleting(handling[h])
  /\ handling' = [handling EXCEPT ![h] = NoHandler]
  /\ UNCHANGED <<now, running>>

Delete(i) ==
  /\ MarkDeleting(i)
  /\ UNCHANGED <<now, handling, running>>

\* UpdateStatus by the provisioner that a task belongs to.
Report(t, status) ==
  /\ t \in tasks
  /\ status \in IF t.kind = "provision" THEN {"provisioning", "ready", "failed"} ELSE {"deleted"}
  /\ environments' = [environments EXCEPT ![t.env].status = status]
  /\ tasks' = IF status = "provisioning" THEN tasks ELSE tasks \ {t}
  /\ UNCHANGED <<now, handling, running>>

\* Mutant: an extension is limited, and not what extensions come to.
ExtendedEach(e, extension) == e.expires + Capped(extension)

Extended(e, extension) ==
  IF e.expires + extension > e.created + MaxTTL THEN e.created + MaxTTL ELSE e.expires + extension

ExtendTTL(i, extension) ==
  /\ environments' = [environments EXCEPT ![i].expires = Extended(environments[i], extension)]
  /\ UNCHANGED <<now, handling, tasks, running>>

Overdue(e) == e.status \notin {"deleted", "deleting"} /\ now > e.expires

\* Every tick tells the listeners again of what it has marked before.
CleanupExpired ==
  /\ running
  /\ environments' = [i \in Ids |->
       IF Overdue(environments[i]) THEN [environments[i] EXCEPT !.status = "expired"] ELSE environments[i]]
  /\ tasks' = tasks \cup {[env |-> i, kind |-> "delete"] : i \in {j \in Ids : Overdue(environments[j])}}
  /\ UNCHANGED <<now, handling, running>>

StopCleanup == running /\ running' = FALSE /\ UNCHANGED <<environments, now, handling, tasks>>

TimeGoesOn == now < MaxNow /\ now' = now + 1 /\ UNCHANGED <<environments, handling, tasks, running>>

EphemeralNext ==
  \/ \E p \in Pulls \cup {NoPull}, ttl \in TTLs : Create(p, ttl)
  \/ \E h \in Handlers : EndEvent(h) \/ \E p \in Pulls : FindForEvent(h, p)
  \/ \E i \in Ids : Delete(i) \/ \E x \in TTLs : ExtendTTL(i, x)
  \/ \E t \in tasks, s \in {"provisioning", "ready", "failed", "deleted"} : Report(t, s)
  \/ CleanupExpired \/ StopCleanup \/ TimeGoesOn

\* The ticker of the loop goes on ticking.
EphemeralSpec == EphemeralInit /\ [][EphemeralNext]_ephemeralVars /\ WF_ephemeralVars(CleanupExpired)

-----------------------------------------------------------------------------
(* Properties *)

Old(i) == i \in Ids /\ now > environments[i].created + MaxTTL
Ending(i) == i \in Ids /\ environments[i].status \in {"expired", "deleting", "deleted"}

\* While the cleanup runs, an environment that is older than the longest time to
\* live comes to be expired or on its way out, however often it was extended and
\* whatever late provisioners report of it.
TheOldEnd == \A i \in 1..MaxEnvs : Old(i) ~> (Ending(i) \/ ~running)
=============================================================================
