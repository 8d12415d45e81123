------------------------------- MODULE JITAccess -------------------------------
(***************************************************************************)
(* Just-in-time access (internal/rbac/jit.go).  A request is approved or   *)
(* denied under the lock; granting it, starting the timer that ends it and *)
(* the second half of a revocation are later steps, while timers fire, the *)
(* access is extended and the cleanup sweeps.  A request gets one grant at *)
(* most, so a grant goes by its request's name.  Nothing is read back from *)
(* the state backend.                                                      *)
(***************************************************************************)
EXTENDS Naturals

CONSTANTS
  Requests,
  Duration,       \* the requested durations
  Limited,        \* requests that match a policy
  MaxExtensions,  \* of the policies
  Extensions,     \* durations an access may be extended by
  MaxNow,         \* bound on the clock
  MaxCalls        \* bound on the extensions of a request without a policy

ASSUME TimesAssumption ==
  /\ Duration \in [Requests -> Nat] /\ Extensions \subseteq Nat
  /\ MaxExtensions \in Nat /\ MaxNow \in Nat /\ MaxCalls \in Nat

VARIABLES
  now,
  state,      \* of the requests; those the cleanup deleted have one too
  granted,    \* ExpiresAt of the request
  granting,   \* requests approved and not granted yet
  active,     \* activeGrants
  expires,    \* ExpiresAt of the grant
  extended,   \* its ExtendCount
  scheduling, \* calls that will schedule its revocation
  timers,     \* goroutines sleeping until a time
  revoking,   \* calls of RevokeAccess before their second half
  sweep       \* the time the cleanup has read

grantVars == <<granted, granting, expires, extended>>
jitVars == <<now, state, grantVars, active, scheduling, timers, revoking, sweep>>

Decisions == {"approved", "denied"}
RequestStatuses == {"absent", "pending", "revoked", "expired", "deleted"} \cup Decisions

JITInit ==
  /\ now = 0 /\ state = [r \in Requests |-> "absent"]
  /\ granted = [r \in Requests |-> 0] /\ granting = {} /\ active = {}
  /\ expires = [r \in Requests |-> 0] /\ extended = [r \in Requests |-> 0]
  /\ scheduling = [r \in Requests |-> 0] /\ timers = {} /\ revoking = {}
  /\ sweep = 0

Tick ==
  /\ now < MaxNow /\ now' = now + 1
  /\ UNCHANGED <<state, grantVars, active, scheduling, timers, revoking, sweep>>

-----------------------------------------------------------------------------
(* Decisions *)

\* The request stays when persisting it fails.  An automatic approval is one
\* more caller of ApproveAccess.
RequestAccess(r) ==
  /\ state[r] = "absent"
  /\ state' = [state EXCEPT ![r] = "pending"]
  /\ UNCHANGED <<now, grantVars, active, scheduling, timers, revoking, sweep>>

\* Mutant: only a denied request cannot be decided any more.
UndecidedOrNotDenied(r) == state[r] \notin {"absent", "denied"}

Undecided(r) == state[r] = "pending"

ApproveAccess(r) ==
  /\ Undecided(r)
  /\ state' = [state EXCEPT ![r] = "approved"]
  /\ granted' = [granted EXCEPT ![r] = now + Duration[r]]
  /\ granting' = granting \cup {r}
  /\ UNCHANGED <<now, active, expires, extended, scheduling, timers, revoking, sweep>>

DenyAccess(r) ==
  /\ Undecided(r)
  /\ state' = [state EXCEPT ![r] = "denied"]
  /\ UNCHANGED <<now, grantVars, active, scheduling, timers, revoking, sweep>>

-----------------------------------------------------------------------------
(* The grant *)

\* Mutant: the approval forgets to schedule the revocation.
WithoutCall(r) == scheduling

WithCall(r) == [scheduling EXCEPT ![r] = @ + 1]

Grant(r) ==
  /\ r \in granting
  /\ granting' = granting \ {r} /\ active' = active \cup {r}
  /\ expires' = [expires EXCEPT ![r] = granted[r]]
  /\ extended' = [extended EXCEPT ![r] = 0]
  /\ scheduling' = WithCall(r)
  /\ UNCHANGED <<now, state, granted, timers, revoking, sweep>>

\* After the grant or the extension was persisted, logged and notified.  No
\* timer is started if the access has expired by then.
ScheduleRevocation(r) ==
  /\ scheduling[r] > 0
  /\ scheduling' = [scheduling EXCEPT ![r] = @ - 1]
  /\ timers' = IF expires[r] > now THEN timers \cup {<<r, expires[r]>>} ELSE timers
  /\ UNCHANGED <<now, state, grantVars, active, revoking, sweep>>

MostExtensions(r) == IF r \in Limited THEN MaxExtensions ELSE MaxCalls

MayExtend(r) == extended[r] < MostExtensions(r)

\* Timers that sleep until the earlier expiry go on sleeping.
ExtendAccess(r, d) ==
  /\ r \in active /\ MayExtend(r)
  /\ expires' = [expires EXCEPT ![r] = @ + d]
  /\ extended' = [extended EXCEPT ![r] = @ + 1]
  /\ scheduling' = WithCall(r)
  /\ UNCHANGED <<now, state, granted, granting, active, timers, revoking, sweep>>

-----------------------------------------------------------------------------
(* Its end *)

\* Mutant: the goroutine does not sleep.
DueAtOnce(t) == TRUE

Due(t) == t[2] <= now

\* The request keeps its status.
TimerFires(t) ==
  /\ t \in timers /\ Due(t)
  /\ timers' = timers \ {t} /\ active' = active \ {t[1]}
  /\ UNCHANGED <<now, state, grantVars, scheduling, revoking, sweep>>

RevokeAccess(r) ==
  /\ r \in active
  /\ active' = active \ {r} /\ revoking' = revoking \cup {r}
  /\ UNCHANGED <<now, state, grantVars, scheduling, timers, sweep>>

\* A request that the cleanup deleted meanwhile is left alone.
UpdateRevoked(r) ==
  /\ r \in revoking
  /\ revoking' = revoking \ {r}
  /\ state' = [state EXCEPT ![r] = IF @ = "deleted" THEN @ ELSE "revoked"]
  /\ UNCHANGED <<now, grantVars, active, scheduling, timers, sweep>>

\* The cleanup reads the clock before it takes the lock.
BeginCleanup ==
  /\ sweep' = now
  /\ UNCHANGED <<now, state, grantVars, active, scheduling, timers, revoking>>

\* Mutant: the comparison is the wrong way round.
OverdueSwapped(r) == sweep < expires[r]

Overdue(r) == expires[r] < sweep

\* Requests that were not changed for 30 days go; which ones is left open.
Old(S) == S \subseteq {r \in Requests : state[r] \notin {"absent", "pending", "approved"}}

Cleanup(S) ==
  LET expired == {r \in active : Overdue(r)} IN
  /\ Old(S)
  /\ active' = active \ expired
  /\ state' = [r \in Requests |->
       IF r \in expired THEN "expired" ELSE IF r \in S THEN "deleted" ELSE state[r]]
  /\ UNCHANGED <<now, grantVars, scheduling, timers, revoking, sweep>>

-----------------------------------------------------------------------------
Turn(r) == Grant(r) \/ ScheduleRevocation(r)

JITNext ==
  \/ Tick \/ BeginCleanup
  \/ \E r \in Requests :
       \/ RequestAccess(r) \/ ApproveAccess(r) \/ DenyAccess(r)
       \/ Turn(r) \/ RevokeAccess(r) \/ UpdateRevoked(r)
       \/ \E d \in Extensions : ExtendAccess(r, d)
  \/ \E t \in timers : TimerFires(t)
  \/ \E S \in SUBSET Requests : Cleanup(S)

JITSpec == JITInit /\ [][JITNext]_jitVars

\* The callers' goroutines run on, and StartCleanup was called: its ticker
\* sweeps again and again.  Timers need no fairness then.
JITFairSpec ==
  /\ JITSpec
  /\ \A r \in Requests : WF_jitVars(Turn(r))
  /\ WF_jitVars(BeginCleanup) /\ WF_jitVars(\E S \in SUBSET Requests : Cleanup(S))

-----------------------------------------------------------------------------
(* Properties *)

\* Data keeps its shape, and no access is extended more often than its policy
\* allows.
JITTypeOK ==
  /\ now \in Nat /\ sweep \in Nat
  /\ state \in [Requests -> RequestStatuses]
  /\ granted \in [Requests -> Nat] /\ expires \in [Requests -> Nat]
  /\ extended \in [Requests -> Nat] /\ scheduling \in [Requests -> Nat]
  /\ granting \subseteq Requests /\ active \subseteq Requests
  /\ revoking \subseteq Requests /\ timers \subseteq Requests \X Nat
  /\ sweep <= now /\ \A r \in Requests : extended[r] <= MostExtensions(r)

Ended(r) ==
  /\ state[r] \notin {"absent", "pending"}
  /\ r \notin granting /\ r \notin active

\* Access that was denied or has ended, by its timer, the sweep or a
\* revocation, never comes back, whatever calls for the request are under way.
EndedStays == [][\A r \in Requests : Ended(r) => Ended(r)']_jitVars

\* A request has access, or is about to get it, only between its approval and
\* the end of the access: never while it counts as denied, revoked or expired.
AccessIsApproved == \A r \in granting \cup active : state[r] = "approved"

\* Whoever is not revoked keeps the access for the time that was approved.
NotCutShort ==
  [][\A r \in active \ active' : r \in revoking' \/ granted[r] <= now]_jitVars

\* While the end of an access lies ahead, a timer sleeps that will end it by
\* then or a call is about to start one.
Watched ==
  \A r \in active : expires[r] > now =>
    \/ scheduling[r] > 0
    \/ \E t \in timers : t[1] = r /\ t[2] <= expires[r]

\* With the cleanup running, an access past its expiry ends or is extended,
\* also if its timer was never started.
ExpiryHappens ==
  \A r \in Requests :
    (r \in active /\ expires[r] < now) ~> (r \notin active \/ expires[r] >= now)
=============================================================================
