------------------------------- MODULE JobQueue -------------------------------
(***************************************************************************)
(* The asynchronous job queue of internal/jobs/job.go: Submit registers a  *)
(* job and sends it to a buffered channel, a fixed set of workers receive  *)
(* and run jobs, Cancel writes a status under the lock after a check made  *)
(* without it, and Stop closes a channel and waits for the workers.        *)
(***************************************************************************)
EXTENDS Naturals, Sequences, FiniteSets

CONSTANTS
  Jobs,     \* jobs that may be submitted
  Workers,  \* goroutines of the pool
  Capacity, \* buffer of workChan
  NoJob,
  MayStop   \* whether somebody calls Stop

ASSUME CapacityAssumption == Capacity \in Nat /\ MayStop \in BOOLEAN
ASSUME NoJobAssumption == NoJob \notin Jobs
ASSUME WorkersAssumption == IsFiniteSet(Workers)

Final == {"completed", "failed", "cancelled"}
Statuses == {"absent", "pending", "running"} \cup Final

VARIABLES
  status,     \* job.Status; "absent" before Submit
  started,    \* jobs with job.StartedAt set
  submitting, \* Submit has registered the job and not sent it yet
  line,       \* workChan and, behind its buffer, the senders that block on it
  at,         \* where a worker is
  holds,      \* the job a worker received
  cancelling, \* calls of Cancel that passed the check
  stopping,   \* stopChan is closed
  stopped     \* Stop has returned

jobVars == <<status, started>>
workerVars == <<at, holds>>
stopVars == <<stopping, stopped>>
vars == <<jobVars, submitting, line, workerVars, cancelling, stopVars>>

-----------------------------------------------------------------------------
Init ==
  /\ status = [j \in Jobs |-> "absent"] /\ started = {}
  /\ submitting = {} /\ line = <<>>
  /\ at = [w \in Workers |-> "idle"] /\ holds = [w \in Workers |-> NoJob]
  /\ cancelling = {}
  /\ stopping = FALSE /\ stopped = FALSE

Submit(j) ==
  /\ status[j] = "absent"
  /\ status' = [status EXCEPT ![j] = "pending"]
  /\ submitting' = submitting \cup {j}
  /\ UNCHANGED <<started, line, workerVars, cancelling, stopVars>>

AfterSend(j) == submitting \ {j}

\* Senders wait in line behind the buffer; nothing looks at stopChan.
Send(j) ==
  /\ j \in submitting
  /\ submitting' = AfterSend(j)
  /\ line' = Append(line, j)
  /\ UNCHANGED <<jobVars, workerVars, cancelling, stopVars>>

\* Submit has not returned: the job is not sent, or its sender blocks.
Blocked(j) == \/ j \in submitting
              \/ \E i \in DOMAIN line : i > Capacity /\ line[i] = j

\* A select between a closed stopChan and a ready workChan picks either.
Take(w) ==
  /\ at[w] = "idle" /\ line # <<>>
  /\ at' = [at EXCEPT ![w] = "taken"]
  /\ holds' = [holds EXCEPT ![w] = Head(line)]
  /\ line' = Tail(line)
  /\ UNCHANGED <<jobVars, submitting, cancelling, stopVars>>

\* executeJob sets running whatever the status is.
Start(w) ==
  /\ at[w] = "taken"
  /\ at' = [at EXCEPT ![w] = "running"]
  /\ status' = [status EXCEPT ![holds[w]] = "running"]
  /\ started' = started \cup {holds[w]}
  /\ UNCHANGED <<submitting, line, holds, cancelling, stopVars>>

\* Mutant: a worker ends with its first job.
AfterJobGone(w) == "gone"

AfterJob(w) == "idle"

\* The function returned: a cancelled status is kept.
Finish(w, outcome) ==
  /\ at[w] = "running"
  /\ at' = [at EXCEPT ![w] = AfterJob(w)]
  /\ holds' = [holds EXCEPT ![w] = NoJob]
  /\ status' = [status EXCEPT ![holds[w]] =
                  IF @ = "cancelled" THEN @ ELSE outcome]
  /\ UNCHANGED <<started, submitting, line, cancelling, stopVars>>

CancelCheck(j) ==
  /\ status[j] \in {"pending", "running"}
  /\ cancelling' = cancelling \cup {j}
  /\ UNCHANGED <<jobVars, submitting, line, workerVars, stopVars>>

CancelApply(j) ==
  /\ j \in cancelling
  /\ cancelling' = cancelling \ {j}
  /\ status' = [status EXCEPT ![j] = "cancelled"]
  /\ UNCHANGED <<started, submitting, line, workerVars, stopVars>>

Stop ==
  /\ MayStop /\ ~stopping
  /\ stopping' = TRUE
  /\ UNCHANGED <<jobVars, submitting, line, workerVars, cancelling, stopped>>

MayExit(w) == at[w] = "idle"

WorkerExit(w) ==
  /\ stopping /\ MayExit(w)
  /\ at' = [at EXCEPT ![w] = "gone"]
  /\ UNCHANGED <<jobVars, submitting, line, holds, cancelling, stopVars>>

\* Mutant: the wait group counts one worker.
PoolEndedOne == \E w \in Workers : at[w] = "gone"

PoolEnded == \A w \in Workers : at[w] = "gone"

StopReturns ==
  /\ stopping /\ ~stopped /\ PoolEnded
  /\ stopped' = TRUE
  /\ UNCHANGED <<jobVars, submitting, line, workerVars, cancelling, stopping>>

Work(w) == \/ Take(w) \/ Start(w)
           \/ \E outcome \in {"completed", "failed"} : Finish(w, outcome)

Next ==
  \/ \E j \in Jobs : Submit(j) \/ Send(j) \/ CancelCheck(j) \/ CancelApply(j)
  \/ \E w \in Workers : Work(w) \/ WorkerExit(w)
  \/ Stop \/ StopReturns

Spec == Init /\ [][Next]_vars

\* Submit goes on to its send, workers receive when they can and job functions
\* return; between a ready job and a stop the select is a coin.
FairSpec ==
  /\ Spec
  /\ \A j \in Jobs : WF_vars(Send(j))
  /\ \A w \in Workers : WF_vars(Work(w)) /\ WF_vars(WorkerExit(w))
  /\ WF_vars(StopReturns)

-----------------------------------------------------------------------------
(* Properties *)

TypeOK ==
  /\ status \in [Jobs -> Statuses] /\ started \subseteq Jobs
  /\ submitting \subseteq Jobs /\ cancelling \subseteq Jobs
  /\ line \in Seq(Jobs)
  /\ at \in [Workers -> {"idle", "taken", "running", "gone"}]
  /\ holds \in [Workers -> Jobs \cup {NoJob}]
  /\ \A w \in Workers : at[w] \in {"taken", "running"} <=> holds[w] # NoJob
  /\ stopping \in BOOLEAN /\ stopped \in BOOLEAN

InLine(j) == \E i \in DOMAIN line : line[i] = j
Held(j, place) == \E w \in Workers : at[w] = place /\ holds[w] = j

\* No job is lost or doubled on its way: one that shows pending is being sent, in
\* line or received, one that shows running has a worker that runs it, and no
\* job is in two of these places.
OnePlace ==
  /\ \A v, w \in Workers : holds[v] = holds[w] /\ holds[v] # NoJob => v = w
  /\ \A i, k \in DOMAIN line : line[i] = line[k] => i = k
  /\ \A j \in Jobs :
       /\ status[j] = "pending" => j \in submitting \/ InLine(j) \/ Held(j, "taken")
       /\ status[j] = "running" => Held(j, "running")
       /\ j \in submitting => ~InLine(j) /\ \A w \in Workers : holds[w] # j
       /\ InLine(j) => \A w \in Workers : holds[w] # j

\* The function of a job is called at most once, even when the job is cancelled
\* while it waits.
RunOnce ==
  [][\A w \in Workers : at[w] = "taken" /\ at'[w] = "running" =>
       holds[w] \notin started]_vars

\* When Stop has returned no job shows running and none will.
StopQuiesces == stopped => \A j \in Jobs : status[j] # "running"

\* The promise of JobPool.
Phase(j) ==
  IF status[j] = "absent" THEN "absent"
  ELSE IF j \notin started THEN "waiting"
  ELSE IF Held(j, "running") THEN "running" ELSE "ended"

Pool == INSTANCE JobPool WITH Size <- Cardinality(Workers), closed <- stopped,
                              phase <- [j \in Jobs |-> Phase(j)]

\* Every call of a queue is one of the promise: at most as many jobs as workers
\* run, each once, and none after Stop.
ImplementsPool == Pool!PoolSpec

\* Unless the queue is stopped every submitted job gets a final status for good
\* and its Submit, which may block on the full channel, returns; it may be
\* cancelled at any time.
JobsEnd ==
  []~stopping =>
    \A j \in Jobs : (status[j] # "absent") ~> [](status[j] \in Final /\ ~Blocked(j))
=============================================================================
