------------------------------- MODULE MCPlatform -------------------------------
(* Seven parts that share nothing: an execution is one of the audit log, the
   deployment sets, the requests of the catalog, the ephemeral and the composed
   environments, the container of services or the manager of their life cycle. *)
EXTENDS AuditLog, DeploymentSets, CatalogRequests, EphemeralEnvironments,
        EnvironmentComposition, ServiceContainer, LifecycleManager, TLC

CONSTANTS x, y, e1, e2

\* One resource, and two that depend on each other one way or the other.
MCPlans == {x :> {}, x :> {y} @@ y :> {}, y :> {x} @@ x :> {}}

\* A request that is gated, one above the threshold, and one of unknown cost.
MCAsks == {[gated |-> TRUE, cost |-> 1], [gated |-> FALSE, cost |-> 3], [gated |-> FALSE, cost |-> 0]}
MCGrants == {[limit |-> 1, costLimit |-> 0], [limit |-> 2, costLimit |-> 4]}

(* One environment of at most two bases and two of at most one, in every way; any of
   them set the key, and one may override it, have a component that is not registered
   or, with an override that this loses, be stored as a map: e1 or e2, as e3 differs
   from e2 by its name alone. *)
MCSpecs ==
  LET One == {<<>>} \cup {<<b>> : b \in Environments}
      Two == One \cup {s \in Environments \X Environments : s[1] /= s[2]}
      Ways == {i \in [Environments -> Two] : \A e \in Environments \ {e1} : i[e] \in One}
      Odd == {<<FALSE, FALSE, FALSE>>, <<FALSE, TRUE, FALSE>>, <<FALSE, FALSE, TRUE>>,
              <<TRUE, TRUE, FALSE>>, <<TRUE, FALSE, TRUE>>}
      As(w, owners, odd, o) ==
        [e \in Environments |->
          [inherits |-> w[e], owns |-> e \in owners, mapped |-> e = odd /\ o[1],
           overrides |-> e = odd /\ o[2], unregistered |-> e = odd /\ o[3]]] IN
    {As(w, owners, odd, o) :
      w \in Ways, owners \in SUBSET Environments, odd \in {e1, e2}, o \in Odd}

AnySpec == CHOOSE s \in Specs : TRUE

VARIABLE part

Parts == {"audit", "sets", "catalog", "ephemeral", "composition", "container", "lifecycle"}

\* What a part begins with makes no difference to the others.
PlatformInit ==
  /\ part \in Parts
  /\ AuditInit /\ SetsInit /\ CatalogInit /\ EphemeralInit /\ CompositionInit
  /\ ContainerInit /\ LifecycleInit
  /\ part /= "composition" => spec = AnySpec

PlatformNext ==
  /\ UNCHANGED part
  /\ \/ part = "audit" /\ AuditNext
     \/ part /= "audit" /\ UNCHANGED auditVars
  /\ \/ part = "sets" /\ SetsNext
     \/ part /= "sets" /\ UNCHANGED setVars
  /\ \/ part = "catalog" /\ CatalogNext
     \/ part /= "catalog" /\ UNCHANGED catalogVars
  /\ \/ part = "ephemeral" /\ EphemeralNext
     \/ part /= "ephemeral" /\ UNCHANGED ephemeralVars
  /\ \/ part = "composition" /\ CompositionNext
     \/ part /= "composition" /\ UNCHANGED compositionVars
  /\ \/ part = "container" /\ ContainerNext
     \/ part /= "container" /\ UNCHANGED containerVars
  /\ \/ part = "lifecycle" /\ LifecycleNext
     \/ part /= "lifecycle" /\ UNCHANGED lifecycleVars

platformVars ==
  <<part, auditVars, setVars, catalogVars, ephemeralVars, compositionVars, containerVars,
    lifecycleVars>>

Sweeps ==
  /\ part = "ephemeral" /\ CleanupExpired
  /\ UNCHANGED <<part, auditVars, setVars, catalogVars, compositionVars, containerVars, lifecycleVars>>

GoesOn ==
  /\ part = "composition" /\ (Descend \/ Ends)
  /\ UNCHANGED <<part, auditVars, setVars, catalogVars, ephemeralVars, containerVars, lifecycleVars>>

\* The ticker of the cleanup of environments goes on ticking, and a resolution of
\* composed ones goes on by itself.
PlatformSpec ==
  /\ PlatformInit /\ [][PlatformNext]_platformVars
  /\ WF_platformVars(Sweeps) /\ WF_platformVars(GoesOn)
=============================================================================
