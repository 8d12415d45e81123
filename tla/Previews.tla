-------------------------------- MODULE Previews --------------------------------
(***************************************************************************)
(* Preview environments of pull requests (internal/preview).  Create,      *)
(* Delete and Extend hold the manager's lock from their first access of    *)
(* the state backend to their last; the goroutines that deploy a preview   *)
(* and Refresh do not take it, and write back the copy of the record they  *)
(* began with.  The schedule of the cleanup worker is kept in memory only. *)
(* Any access of the backend may fail.                                     *)
(***************************************************************************)
EXTENDS Naturals

CONSTANTS
  Ids,        \* ids of previews, used in any order
  None,       \* not an id
  PRs,        \* pull requests
  Jobs,       \* bound on the deployments under way at once
  TTL, MaxTTL,
  Extensions, \* additional times an owner may ask for
  MaxNow,     \* bound on the clock
  MaxCalls,   \* bound on calls of Extend and Refresh
  MaxFaults   \* bound on failing accesses and restarts

ASSUME TimesAssumption ==
  /\ TTL \in Nat \ {0} /\ MaxTTL \in Nat /\ TTL <= MaxTTL
  /\ Extensions \subseteq Nat /\ MaxNow \in Nat /\ MaxFaults \in Nat /\ MaxCalls \in Nat

VARIABLES
  now,
  status, expires, \* the stored record
  born, pr,        \* its CreatedAt and PullRequest
  op, opId, opExp, \* the call that holds the lock, and its copy of the record
  pc, job, copy,   \* the deployments: next step, preview, ExpiresAt of its copy
  scheduled,       \* when the worker will clean up; 0 is never
  calls,           \* of Extend and Refresh so far
  faults,          \* how often the backend failed or the process went down
  sweeping,        \* taken from the schedule and not deleted yet
  ended,           \* history: previews that somebody began to delete
  blind,           \* history: previews created when the list could not be read
  forgotten        \* history: schedules lost with the process

record == <<status, expires, born, pr>>
lock == <<op, opId, opExp>>
jobVars == <<pc, job, copy>>
history == <<ended, blind, forgotten>>
vars == <<now, record, lock, jobVars, scheduled, sweeping, faults, calls, history>>

Statuses == {"absent", "pending", "provisioning", "ready", "failed", "deleting", "deleted"}

Init ==
  /\ now = 0
  /\ status = [i \in Ids |-> "absent"] /\ expires = [i \in Ids |-> 0]
  /\ born = [i \in Ids |-> 0] /\ pr \in [Ids -> PRs]
  /\ op = "none" /\ opId = None /\ opExp = 0
  /\ pc = [j \in Jobs |-> "idle"] /\ job = [j \in Jobs |-> None] /\ copy = [j \in Jobs |-> 0]
  /\ scheduled = [i \in Ids |-> 0] /\ sweeping = {} /\ faults = 0 /\ calls = 0
  /\ ended = {} /\ blind = {} /\ forgotten = {}

Tick ==
  /\ now < MaxNow /\ now' = now + 1
  /\ UNCHANGED <<calls, faults, record, lock, jobVars, scheduled, sweeping, history>>

Counted == calls < MaxCalls /\ calls' = calls + 1

Fault == faults < MaxFaults /\ faults' = faults + 1

Put(i, s, e) ==
  /\ status' = [status EXCEPT ![i] = s]
  /\ expires' = [expires EXCEPT ![i] = e]
  /\ UNCHANGED faults

Lost == Fault /\ UNCHANGED <<status, expires>>

\* A record written where the error of the write is ignored.
SaveIgnoring(i, s, e) == Put(i, s, e) \/ Lost

Release == op' = "none" /\ opId' = None /\ opExp' = 0

\* A deployment starts with a copy of the record.
Deploy(i, e) ==
  \E j \in Jobs :
    /\ pc[j] = "idle"
    /\ pc' = [pc EXCEPT ![j] = "begin"]
    /\ job' = [job EXCEPT ![j] = i] /\ copy' = [copy EXCEPT ![j] = e]

\* Mutant: the deployment of the preview is not scheduled for cleanup.
ScheduleNothing(i, e) == UNCHANGED <<scheduled, forgotten>>

Schedule(i, e) ==
  /\ scheduled' = [scheduled EXCEPT ![i] = e]
  /\ forgotten' = forgotten \ {i}

-----------------------------------------------------------------------------
(* Calls of the manager *)

\* Mutant: a preview that failed does not count.
FreeOrFailed(p) == \A i \in Ids : pr[i] = p => status[i] \in {"absent", "deleted", "failed"}

Free(p) == \A i \in Ids : pr[i] = p => status[i] \in {"absent", "deleted"}

\* An error of the list counts as "no preview".
BeginCreate(i, p) ==
  /\ op = "none" /\ status[i] = "absent"
  /\ \/ Free(p) /\ op' = "create" /\ UNCHANGED faults
     \/ op' = "create blindly" /\ Fault
  /\ opId' = i /\ opExp' = now + TTL
  /\ pr' = [pr EXCEPT ![i] = p] /\ born' = [born EXCEPT ![i] = now]
  /\ UNCHANGED <<now, calls, status, expires, jobVars, scheduled, sweeping, history>>

FinishCreate ==
  /\ op \in {"create", "create blindly"} /\ Release
  /\ \/ /\ Put(opId, "pending", opExp) /\ Deploy(opId, opExp)
        /\ blind' = IF op = "create" THEN blind ELSE blind \cup {opId}
     \/ Lost /\ UNCHANGED <<jobVars, blind>>
  /\ UNCHANGED <<now, calls, born, pr, scheduled, sweeping, ended, forgotten>>

\* The record that was read back has no Resources, so the orchestrator is not
\* asked to delete any: what runs goes on running.
BeginDelete(i, S) ==
  /\ op = "none" /\ status[i] /= "absent"
  /\ \/ Put(i, "deleting", expires[i]) /\ op' = "delete" /\ opId' = i /\ opExp' = expires[i]
     \/ Lost /\ UNCHANGED lock
  /\ sweeping' = S
  /\ ended' = ended \cup {i}
  /\ UNCHANGED <<now, calls, born, pr, jobVars, scheduled, blind, forgotten>>

FinishDelete ==
  /\ op = "delete" /\ SaveIgnoring(opId, "deleted", opExp) /\ Release
  /\ UNCHANGED <<now, calls, born, pr, jobVars, scheduled, sweeping, history>>

Capped(i, e) == IF e > born[i] + MaxTTL THEN born[i] + MaxTTL ELSE e

BeginExtend(i, d) ==
  /\ Counted
  /\ op = "none" /\ status[i] = "ready"
  /\ op' = "extend" /\ opId' = i /\ opExp' = Capped(i, expires[i] + d)
  /\ Schedule(i, opExp')
  /\ UNCHANGED <<now, faults, record, jobVars, sweeping, ended, blind>>

FinishExtend ==
  /\ op = "extend" /\ SaveIgnoring(opId, "ready", opExp) /\ Release
  /\ UNCHANGED <<now, calls, born, pr, jobVars, scheduled, sweeping, history>>

Refresh(i) ==
  /\ Counted
  /\ status[i] \in {"ready", "failed"}
  /\ Deploy(i, expires[i])
  /\ UNCHANGED <<now, faults, record, lock, scheduled, sweeping, history>>

-----------------------------------------------------------------------------
(* deployPreview, in a goroutine *)

Goto(j, step) == pc' = [pc EXCEPT ![j] = step] /\ UNCHANGED <<job, copy>>

Stop(j) ==
  /\ pc' = [pc EXCEPT ![j] = "idle"]
  /\ job' = [job EXCEPT ![j] = None] /\ copy' = [copy EXCEPT ![j] = 0]

Provision(j) ==
  /\ pc[j] = "begin" /\ SaveIgnoring(job[j], "provisioning", copy[j])
  /\ Goto(j, "apply")
  /\ UNCHANGED <<now, calls, born, pr, lock, scheduled, sweeping, history>>

ApplyResources(j) ==
  /\ pc[j] = "apply" /\ Goto(j, "schedule")
  /\ UNCHANGED <<now, calls, faults, record, lock, scheduled, sweeping, history>>

ApplyFails(j) ==
  /\ pc[j] = "apply" /\ Stop(j) /\ SaveIgnoring(job[j], "failed", copy[j])
  /\ UNCHANGED <<now, calls, born, pr, lock, scheduled, sweeping, history>>

ScheduleCleanup(j) ==
  /\ pc[j] = "schedule" /\ Goto(j, "save") /\ Schedule(job[j], copy[j])
  /\ UNCHANGED <<now, calls, faults, record, lock, sweeping, ended, blind>>

SaveReady(j) ==
  /\ pc[j] = "save" /\ Stop(j) /\ SaveIgnoring(job[j], "ready", copy[j])
  /\ UNCHANGED <<now, calls, born, pr, lock, scheduled, sweeping, history>>

-----------------------------------------------------------------------------
(* The webhook handler looks the pull request up, then calls the manager: what
   happens between the two is seen by the call, which checks again. *)

\* Also what a labeled event does.
Opened(p) == \E i \in Ids : BeginCreate(i, p)

Live(p) == {i \in Ids : pr[i] = p /\ status[i] \notin {"absent", "deleted"}}

Synchronize(p) ==
  \/ \E i \in Live(p) : Refresh(i)
  \/ Live(p) = {} /\ Opened(p)

Closed(p) == \E i \in Live(p) : BeginDelete(i, sweeping)

-----------------------------------------------------------------------------
(* The cleanup worker *)

Due(i) == scheduled[i] /= 0 /\ now > scheduled[i]

Cleanup ==
  LET due == {i \in Ids : Due(i)} IN
  /\ sweeping = {} /\ due /= {}
  /\ sweeping' = due
  /\ scheduled' = [i \in Ids |-> IF i \in due THEN 0 ELSE scheduled[i]]
  /\ UNCHANGED <<now, calls, faults, record, lock, jobVars, history>>

DeleteExpired(i) == i \in sweeping /\ BeginDelete(i, sweeping \ {i})

\* Nothing reads the records back into the schedule.
Restart ==
  /\ Fault /\ Release
  /\ pc' = [j \in Jobs |-> "idle"] /\ copy' = [j \in Jobs |-> 0]
  /\ job' = [j \in Jobs |-> None]
  /\ scheduled' = [i \in Ids |-> 0] /\ sweeping' = {}
  /\ forgotten' = {i \in Ids : status[i] /= "absent"}
  /\ UNCHANGED <<now, calls, record, ended, blind>>

Next ==
  \/ Tick \/ Cleanup \/ Restart
  \/ FinishCreate \/ FinishDelete \/ FinishExtend
  \/ \E p \in PRs : Opened(p) \/ Synchronize(p) \/ Closed(p)
  \/ \E i \in Ids :
       \/ BeginDelete(i, sweeping) \/ DeleteExpired(i) \/ Refresh(i)
       \/ \E d \in Extensions : BeginExtend(i, d)
  \/ \E j \in Jobs :
       Provision(j) \/ ApplyResources(j) \/ ApplyFails(j) \/ ScheduleCleanup(j) \/ SaveReady(j)

Spec == Init /\ [][Next]_vars

-----------------------------------------------------------------------------
(* Properties *)

\* Data keeps its shape, and what is stored was given an expiry.
TypeOK ==
  /\ now \in Nat
  /\ status \in [Ids -> Statuses] /\ expires \in [Ids -> Nat]
  /\ born \in [Ids -> Nat] /\ pr \in [Ids -> PRs]
  /\ op \in {"none", "create", "create blindly", "extend", "delete"}
  /\ opId \in Ids \cup {None} /\ opExp \in Nat
  /\ pc \in [Jobs -> {"idle", "begin", "apply", "schedule", "save"}]
  /\ job \in [Jobs -> Ids \cup {None}] /\ copy \in [Jobs -> Nat]
  /\ scheduled \in [Ids -> Nat] /\ sweeping \subseteq Ids
  /\ faults \in 0..MaxFaults /\ calls \in 0..MaxCalls
  /\ ended \subseteq Ids /\ blind \subseteq Ids /\ forgotten \subseteq Ids

Alive(i) == status[i] \notin {"absent", "deleted"}

\* Two previews of one pull request are alive at once only when a deployment
\* wrote its copy over one that was being deleted, or when the list could not
\* be read as the second was created.
OnePerPR ==
  \A i, k \in Ids :
    i /= k /\ pr[i] = pr[k] /\ Alive(i) /\ Alive(k) =>
      i \in ended \cup blind \/ k \in ended \cup blind

\* A preview that is ready and that nobody began to delete will be cleaned up:
\* it is in the schedule or the sweep has it, unless a restart of the process
\* lost the schedule.
Watched ==
  \A i \in Ids :
    status[i] = "ready" /\ i \notin ended =>
      scheduled[i] /= 0 \/ i \in sweeping \/ i \in forgotten
=============================================================================
