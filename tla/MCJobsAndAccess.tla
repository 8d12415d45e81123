--------------------------- MODULE MCJobsAndAccess ---------------------------
(* The job queue and just-in-time access: goroutines and timers that outlive the
   calls that start them.  The two share nothing, so an execution is one of either. *)
EXTENDS JobQueue, JITAccess, TLC

CONSTANTS r1, r2

MCRequests == {r1, r2}
\* A request for no time at all is accepted.
MCDuration == r1 :> 1 @@ r2 :> 0
MCLimited == {r1}
MCExtensions == {1}

VARIABLE part

JobsAndAccessInit == part \in {"jobs", "access"} /\ Init /\ JITInit

OfJobs(A) == part = "jobs" /\ A /\ UNCHANGED <<part, jitVars>>
OfAccess(A) == part = "access" /\ A /\ UNCHANGED <<part, vars>>

JobsAndAccessNext == OfJobs(Next) \/ OfAccess(JITNext)

everything == <<part, vars, jitVars>>

\* The fairness of FairSpec and of JITFairSpec.
JobsAndAccessSpec ==
  /\ JobsAndAccessInit /\ [][JobsAndAccessNext]_everything
  /\ \A j \in Jobs : WF_everything(OfJobs(Send(j)))
  /\ \A w \in Workers :
       WF_everything(OfJobs(Work(w))) /\ WF_everything(OfJobs(WorkerExit(w)))
  /\ WF_everything(OfJobs(StopReturns))
  /\ \A r \in Requests : WF_everything(OfAccess(Turn(r)))
  /\ WF_everything(OfAccess(BeginCleanup))
  /\ WF_everything(OfAccess(\E S \in SUBSET Requests : Cleanup(S)))
=============================================================================
