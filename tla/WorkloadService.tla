--------------------------- MODULE WorkloadService ---------------------------
(***************************************************************************)
(* pf workload apply: the service of internal/orchestrator/service.go, its *)
(* two engines and the terraform and kubernetes plugins behind them.  The  *)
(* kubernetes engine names the infrastructure engine as its dependency and *)
(* the levels know engines by uuid, so both run in one level.  What an     *)
(* engine hands to a plugin is a map of values of a static type, and a     *)
(* plugin reads those of the type it asserts.  A command is a process; the *)
(* state database admits one at a time.                                    *)
(***************************************************************************)
EXTENDS FiniteSets

CONSTANTS
  Commands,     \* processes that apply the workload
  Dependencies, \* what a version of the workload may depend on
  Nobody

\* The parts of a translation that may be nil; a deployment is always there.
Optional == {"service", "hpa", "ingress"}
Translations == [infra : SUBSET Dependencies, parts : SUBSET Optional]

VARIABLES
  translation, \* what a command applies
  stage,       \* of a command
  left,        \* resources its infrastructure engine has still to do
  listed,      \* Resources in the results of its engines
  cluster,     \* where its kubernetes engine is
  owner,       \* the process that has the state database open
  row,         \* the resources in the workload's stored state, Nobody without one
  namespace,   \* the namespace exists
  objects,     \* what the cluster has of the workload
  provisioned  \* and the cloud

world == <<namespace, objects, provisioned>>
command == <<translation, stage, left, listed, cluster>>
workloadVars == <<command, owner, row, world>>

WorkloadInit ==
  /\ translation \in [Commands -> Translations]
  /\ stage = [c \in Commands |-> "none"] /\ cluster = [c \in Commands |-> "none"]
  /\ left = [c \in Commands |-> {}] /\ listed = [c \in Commands |-> {}]
  /\ owner = Nobody /\ row = Nobody
  /\ namespace \in BOOLEAN /\ objects = {} /\ provisioned = {}

-----------------------------------------------------------------------------
(* The engines' specs and the plugins' reading of them *)

MapSlice(S) == [type |-> "[]map[string]interface{}", items |-> S]

\* An assertion of another slice type fails, and the default stays.
ParsedSlice(value) == IF value.type = "[]interface{}" THEN value.items ELSE {}

Manifests(t) == MapSlice({"deployment"} \cup t.parts)

\* Terraform is asked by key for a directory and variables, none of which the spec
\* has: whatever the working directory configures is applied, and of the
\* resource nothing.
ParsedVariables(spec) == IF "variables" \in DOMAIN spec THEN spec.variables ELSE {}

InfraSpec(r) == [region |-> "default", resources |-> MapSlice({r})]

-----------------------------------------------------------------------------
\* Both engines are in the first level; the kubernetes engine is always there.
StartEngines(c) ==
  /\ left' = [left EXCEPT ![c] = translation[c].infra]
  /\ cluster' = [cluster EXCEPT ![c] = "manifests"]

\* The database opens at once or, while another process has it, not within the
\* second this one waits.
OpenState(c) ==
  /\ stage[c] = "none"
  /\ IF owner = Nobody
     THEN /\ owner' = c /\ stage' = [stage EXCEPT ![c] = "level"]
          /\ StartEngines(c)
     ELSE /\ stage' = [stage EXCEPT ![c] = "failed"]
          /\ UNCHANGED <<owner, left, cluster>>
  /\ UNCHANGED <<translation, listed, row, world>>

\* A resource whose provider fails is logged and left out; the engine goes on
\* and never fails.
ProvisionResource(c, r, failed) ==
  /\ stage[c] = "level" /\ r \in left[c]
  /\ left' = [left EXCEPT ![c] = @ \ {r}]
  /\ listed' = [listed EXCEPT ![c] = IF failed THEN @ ELSE @ \cup {r}]
  /\ provisioned' = IF failed THEN provisioned
                    ELSE provisioned \cup ParsedVariables(InfraSpec(r))
  /\ UNCHANGED <<translation, stage, cluster, owner, row, namespace, objects>>

Moves(c, place) == cluster' = [cluster EXCEPT ![c] = place]

\* A nil pointer in the spec is no nil interface: its branch is taken and
\* dereferences it, in a goroutine nobody recovers.
BuildManifests(c) ==
  /\ stage[c] = "level" /\ cluster[c] = "manifests"
  /\ IF translation[c].parts = Optional
     THEN Moves(c, "namespace") /\ UNCHANGED <<stage, owner>>
     ELSE /\ Moves(c, "gone") /\ stage' = [stage EXCEPT ![c] = "crashed"]
          /\ owner' = Nobody
  /\ UNCHANGED <<translation, left, listed, row, world>>

\* Without a configuration or an answer from the cluster the engine fails.
FindNamespace(c, failed) ==
  /\ stage[c] = "level" /\ cluster[c] = "namespace"
  /\ Moves(c, IF failed THEN "failed" ELSE IF namespace THEN "apply" ELSE "create")
  /\ UNCHANGED <<translation, stage, left, listed, owner, row, world>>

\* A namespace that somebody created meanwhile is an error.
CreateNamespace(c, failed) ==
  /\ stage[c] = "level" /\ cluster[c] = "create"
  /\ IF failed \/ namespace
     THEN Moves(c, "failed") /\ UNCHANGED namespace
     ELSE Moves(c, "apply") /\ namespace' = TRUE
  /\ UNCHANGED <<translation, stage, left, listed, owner, row, objects, provisioned>>

ApplyManifests(c) ==
  LET manifests == ParsedSlice(Manifests(translation[c])) IN
  /\ stage[c] = "level" /\ cluster[c] = "apply"
  /\ objects' = objects \cup manifests
  /\ listed' = [listed EXCEPT ![c] = @ \cup manifests]
  /\ Moves(c, "done")
  /\ UNCHANGED <<translation, stage, left, owner, row, namespace, provisioned>>

\* Neither engine has a rollback plan, so the rollback of a failed level does
\* nothing.  A state that cannot be written is only logged.
LevelEnds(c, stored) ==
  /\ stage[c] = "level" /\ left[c] = {} /\ cluster[c] \in {"done", "failed"}
  /\ stage' = [stage EXCEPT ![c] = IF cluster[c] = "done" THEN "applied" ELSE "failed"]
  /\ row' = IF cluster[c] = "done" /\ stored THEN listed[c] ELSE row
  /\ owner' = Nobody
  /\ UNCHANGED <<translation, left, listed, cluster, world>>

\* The state that is read back has no translation, so no engine is registered
\* and the coordinator is never called.
DeleteWorkload ==
  /\ owner = Nobody /\ row /= Nobody
  /\ row' = Nobody
  /\ UNCHANGED <<command, owner, world>>

\* Anybody else with access to the cluster.
SomebodyCreatesNamespace ==
  /\ ~namespace /\ namespace' = TRUE
  /\ UNCHANGED <<command, owner, row, objects, provisioned>>

WorkloadNext ==
  \/ \E c \in Commands :
       \/ OpenState(c) \/ BuildManifests(c) \/ ApplyManifests(c)
       \/ \E outcome \in BOOLEAN :
            \/ FindNamespace(c, outcome) \/ CreateNamespace(c, outcome)
            \/ LevelEnds(c, outcome)
            \/ \E r \in Dependencies : ProvisionResource(c, r, outcome)
  \/ DeleteWorkload \/ SomebodyCreatesNamespace

WorkloadSpec == WorkloadInit /\ [][WorkloadNext]_workloadVars

-----------------------------------------------------------------------------
\* workload.go:95 "Apply a workload specification to provision the application
\* and its dependencies": a command that says the workload was applied leaves
\* its objects in the cluster and its dependencies in the cloud.
AppliedIsProvisioned ==
  \A c \in Commands : stage[c] = "applied" =>
    /\ Manifests(translation[c]).items \subseteq objects
    /\ translation[c].infra \subseteq provisioned
=============================================================================
