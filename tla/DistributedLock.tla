---------------------------- MODULE DistributedLock ----------------------------
(***************************************************************************)
(* The distributed lock on one key (internal/state/redis_lock.go and       *)
(* dynamo_lock.go).  A client's lock object acquires the key with an       *)
(* expiry and a goroutine, the heartbeat, extends it.  Clients pause and   *)
(* crash at any moment, answers of the server get lost, and an object is   *)
(* used again after its release.                                           *)
(***************************************************************************)
EXTENDS Naturals

CONSTANTS
  Clients,
  None,      \* no client
  Second,    \* ticks of the clock in a second
  TTL,       \* time to live, in ticks
  MaxNow     \* bound on the clock

ASSUME LockAssumption ==
  Second \in Nat \ {0} /\ TTL \in Nat \ {0} /\ MaxNow \in Nat /\ None \notin Clients

VARIABLES
  clock,
  kind,           \* the server: Redis or DynamoDB
  owner, expiry,  \* what it stores; DynamoDB stores whole seconds
  holding,        \* clients whose Acquire succeeded and who did not Release
  beating,        \* those whose heartbeat runs
  closed,         \* objects whose stop channel is closed
  until           \* history: the end of the lease a client knows of

lockVars == <<clock, kind, owner, expiry, holding, beating, closed, until>>

LockInit ==
  /\ clock = 0 /\ kind \in {"redis", "dynamo"}
  /\ owner = None /\ expiry = 0
  /\ holding = {} /\ beating = {} /\ closed = {}
  /\ until = [c \in Clients |-> 0]

ClockTick ==
  /\ clock < MaxNow /\ clock' = clock + 1
  /\ UNCHANGED <<kind, owner, expiry, holding, beating, closed, until>>

Seconds(t) == t \div Second

\* Redis removes the key when it expires; DynamoDB keeps the item.
Owned(c) == owner = c /\ (kind = "redis" => clock < expiry)

\* Mutant: a lock may be taken over in the very second it ends.
FreeInTime ==
  \/ owner = None
  \/ kind = "redis" /\ clock >= expiry
  \/ kind = "dynamo" /\ expiry <= Seconds(clock)

Free ==
  \/ owner = None
  \/ kind = "redis" /\ clock >= expiry
  \/ kind = "dynamo" /\ expiry < Seconds(clock)

\* The goroutine of an object whose stop channel is closed ends at once.
Acquire(c) ==
  /\ c \notin holding /\ Free
  /\ owner' = c
  /\ expiry' = IF kind = "redis" THEN clock + TTL ELSE Seconds(clock + TTL)
  /\ \/ /\ holding' = holding \cup {c} /\ beating' = beating \cup ({c} \ closed)
        /\ until' = [until EXCEPT ![c] = clock + TTL]
     \/ UNCHANGED <<holding, beating, until>>  \* the answer is lost: an error
  /\ UNCHANGED <<clock, kind, closed>>

\* The EXPIRE command takes whole seconds; none at all deletes the key.
Extension == IF kind = "redis" THEN Seconds(TTL) * Second ELSE TTL

Heartbeat(c) ==
  /\ c \in beating /\ Owned(c)
  /\ owner' = IF Extension = 0 THEN None ELSE owner
  /\ expiry' = IF kind = "redis" THEN clock + Extension ELSE Seconds(clock + TTL)
  /\ \/ until' = [until EXCEPT ![c] = clock + Extension] /\ UNCHANGED beating
     \/ \* the answer is lost: the heartbeat stops, and its lease is what it was
        /\ beating' = beating \ {c}
        /\ until' = IF clock + Extension < until[c]
                    THEN [until EXCEPT ![c] = clock + Extension] ELSE until
  /\ UNCHANGED <<clock, kind, holding, closed>>

\* Redis answers 0 for a lost lock, which is no error: the heartbeat goes on.
\* The server of either may be out of reach.
HeartbeatFails(c) ==
  /\ c \in beating
  /\ beating' = IF kind = "redis" /\ ~Owned(c) THEN beating ELSE beating \ {c}
  /\ UNCHANGED <<clock, kind, owner, expiry, holding, closed, until>>

\* The process of the client ends, and the key stays until it expires.  A
\* restarted one has a new object.
Ends(c) ==
  /\ holding' = holding \ {c} /\ beating' = beating \ {c} /\ closed' = closed \ {c}
  /\ UNCHANGED <<clock, kind, owner, expiry, until>>

\* A crash, or a panic: any error that DynamoDB answers to an acquire or a
\* release is one, the type assertion on it has a single result.
LockCrash(c) == Ends(c)

\* The heartbeat ends; a stop channel that is closed already panics.  An object
\* that was never acquired has no heartbeat to stop.
Close(c) ==
  \/ c \in closed /\ Ends(c)
  \/ /\ c \in holding \ closed
     /\ beating' = beating \ {c} /\ closed' = closed \cup {c}
     /\ holding' = holding \ {c}
     /\ UNCHANGED <<clock, kind, owner, expiry, until>>

Without(c) == IF Owned(c) THEN None ELSE owner

Release(c) ==
  \/ c \in closed /\ Ends(c)
  \/ /\ c \notin closed
     /\ kind = "dynamo" => Owned(c)
     /\ holding' = holding \ {c} /\ beating' = beating \ {c}
     /\ closed' = closed \cup (holding \cap {c})
     /\ \/ owner' = Without(c)
        \/ kind = "redis" /\ UNCHANGED owner  \* the server is out of reach
     /\ UNCHANGED <<clock, kind, expiry, until>>

LockNext ==
  \/ ClockTick
  \/ \E c \in Clients :
       \/ Acquire(c) \/ Heartbeat(c) \/ HeartbeatFails(c)
       \/ Release(c) \/ Close(c) \/ LockCrash(c)

LockSpec == LockInit /\ [][LockNext]_lockVars

-----------------------------------------------------------------------------
(* Properties *)

LockTypeOK ==
  /\ clock \in Nat /\ kind \in {"redis", "dynamo"}
  /\ owner \in Clients \cup {None} /\ expiry \in Nat
  /\ beating \subseteq holding /\ holding \subseteq Clients /\ closed \subseteq Clients
  /\ until \in [Clients -> Nat]

\* Whatever the other clients, their heartbeats and the network do, the key is
\* a holder's until the end of the lease it knows of, so two holders never have
\* leases that last.
LeaseKept == \A c \in holding : clock < until[c] => owner = c
=============================================================================
