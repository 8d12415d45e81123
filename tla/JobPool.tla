-------------------------------- MODULE JobPool --------------------------------
(***************************************************************************)
(* What internal/jobs promises its callers: a job that is submitted is run *)
(* at most once, at most Size jobs run at a time, and once the pool is     *)
(* closed nothing runs.  JobQueue implements it; how a cancellation shows  *)
(* in a job's status is not part of the promise.                           *)
(***************************************************************************)
EXTENDS Naturals, FiniteSets

CONSTANTS Jobs, Size

VARIABLES phase, closed

poolVars == <<phase, closed>>

PoolTypeOK ==
  /\ phase \in [Jobs -> {"absent", "waiting", "running", "ended"}]
  /\ closed \in BOOLEAN

InPhase(p) == {j \in Jobs : phase[j] = p}

PoolInit == phase = [j \in Jobs |-> "absent"] /\ closed = FALSE

Arrive(j) ==
  /\ phase[j] = "absent"
  /\ phase' = [phase EXCEPT ![j] = "waiting"]
  /\ UNCHANGED closed

Begin(j) ==
  /\ phase[j] = "waiting" /\ ~closed
  /\ Cardinality(InPhase("running")) < Size
  /\ phase' = [phase EXCEPT ![j] = "running"]
  /\ UNCHANGED closed

End(j) ==
  /\ phase[j] = "running"
  /\ phase' = [phase EXCEPT ![j] = "ended"]
  /\ UNCHANGED closed

Close ==
  /\ ~closed /\ InPhase("running") = {}
  /\ closed' = TRUE
  /\ UNCHANGED phase

PoolNext == Close \/ \E j \in Jobs : Arrive(j) \/ Begin(j) \/ End(j)

PoolSpec == PoolInit /\ [][PoolNext]_poolVars
=============================================================================
