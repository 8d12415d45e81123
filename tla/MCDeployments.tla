---------------------------- MODULE MCDeployments ----------------------------
(* Two ways to deploy resources, which share nothing: an execution is one of the
   previews, or commands of the orchestrator.  The resources are a chain and a
   cycle. *)
EXTENDS Previews, Orchestrator, TLC

CONSTANTS a, b, c

MCExtensions == {1}
Symmetry == Permutations(Ids) \cup Permutations(Jobs)

MCBatches == {{a, b, c}, {b}}
MCReferences ==
  {a :> {} @@ b :> {a} @@ c :> {a, b}, a :> {b} @@ b :> {a} @@ c :> {}}

VARIABLE part

\* What the other part would begin with makes no difference.
DeploymentsInit ==
  /\ part \in {"previews", "orchestrator"} /\ Init /\ OrchestratorInit
  /\ part = "previews" => references = CHOOSE r \in References : TRUE

DeploymentsNext ==
  \/ part = "previews" /\ Next /\ UNCHANGED <<part, orchestratorVars>>
  \/ part = "orchestrator" /\ OrchestratorNext /\ UNCHANGED <<part, vars>>

DeploymentsSpec == DeploymentsInit /\ [][DeploymentsNext]_<<part, vars, orchestratorVars>>
=============================================================================
