----------------------------- MODULE DeploymentSets -----------------------------
(***************************************************************************)
(* Dynamic configuration management (internal/dcm/engine.go): versions of  *)
(* the resources of one application in one environment, deployed by one    *)
(* engine.  The engine's graph keeps what earlier deployments added to it. *)
(***************************************************************************)
EXTENDS Naturals, Sequences, FiniteSets, SequencesExt

CONSTANTS
  Resources,
  Plans,     \* the dependencies of the resources a caller asks for
  Deployers, \* the callers
  MaxSets,   \* bound on the deployment sets of a behaviour
  NoSet

ASSUME SetsAssumption ==
  /\ IsFiniteSet(Resources) /\ MaxSets \in Nat /\ NoSet \notin Nat
  /\ \A p \in Plans : DOMAIN p \subseteq Resources /\ \A r \in DOMAIN p : p[r] \subseteq Resources

VARIABLES
  sets,      \* the deployment sets that were created, in order
  backend,   \* the stored set of each version
  graph,     \* the node of each resource in the graph, by the set that made it
  edges,
  node,      \* the status of each node, by its set and its resource
  deploying  \* what each caller does

setVars == <<sets, backend, graph, edges, node, deploying>>

SetIds == 1..MaxSets
NotDeploying == [at |-> "idle", set |-> NoSet, left |-> <<>>]

SetsInit ==
  /\ sets = <<>>
  /\ backend = [v \in SetIds |-> NoSet]
  /\ graph = [r \in Resources |-> NoSet]
  /\ edges = {}
  /\ node = [n \in SetIds \X Resources |-> "pending"]
  /\ deploying = [d \in Deployers |-> NotDeploying]

Stored == {v \in SetIds : backend[v] /= NoSet}

\* The highest version that is stored and one more.  An error of the list counts
\* as an empty one.
NextVersion(listed) ==
  IF listed /\ Stored /= {} THEN 1 + CHOOSE v \in Stored : \A w \in Stored : w <= v ELSE 1

\* CreateDeploymentSet under the engine's lock: the set is stored by reference,
\* and "nodes" names the set whose nodes it consists of.
CreateSet(d, plan, nodes, rollback) ==
  \E listed \in BOOLEAN :
    LET s == Len(sets) + 1
        v == NextVersion(listed) IN
      /\ s <= MaxSets /\ v \in SetIds
      /\ sets' = Append(sets, [version |-> v, plan |-> plan, status |-> "pending",
                               nodes |-> IF nodes = NoSet THEN s ELSE nodes,
                               rollback |-> rollback])
      /\ backend' = [backend EXCEPT ![v] = s]
      /\ deploying' = [deploying EXCEPT ![d] = [at |-> "created", set |-> s, left |-> <<>>]]
      /\ UNCHANGED <<graph, edges, node>>

CreateNew(d, plan) ==
  deploying[d].at = "idle" /\ CreateSet(d, plan, NoSet, FALSE)

\* Rollback reads the list, and creates the new set under the lock afterwards.
BeginRollback(d, v) ==
  /\ deploying[d].at = "idle" /\ v \in Stored
  /\ deploying' = [deploying EXCEPT ![d] = [at |-> "found", set |-> backend[v], left |-> <<>>]]
  /\ UNCHANGED <<sets, backend, graph, edges, node>>

CreateFromTarget(d) ==
  LET target == sets[deploying[d].set] IN
    deploying[d].at = "found" /\ CreateSet(d, target.plan, target.nodes, TRUE)

Mine(d) == sets[deploying[d].set]
Names(s) == DOMAIN s.plan

\* The nodes and the edges of the set come to those the graph has.
AddToGraph(d) ==
  /\ deploying[d].at = "created"
  /\ sets' = [sets EXCEPT ![deploying[d].set].status = "in_progress"]
  /\ graph' = [r \in Resources |-> IF r \in Names(Mine(d)) THEN Mine(d).nodes ELSE graph[r]]
  /\ edges' = edges \cup UNION {{r} \X Mine(d).plan[r] : r \in Names(Mine(d))}
  /\ deploying' = [deploying EXCEPT ![d].at = "added"]
  /\ UNCHANGED <<backend, node>>

InGraph == {r \in Resources : graph[r] /= NoSet}

\* A cycle: resources each of which depends on one of them.
Cyclic == \E c \in SUBSET Resources : c /= {} /\ \A r \in c : \E t \in c : <<r, t>> \in edges

Sequenced(S) == Bijection(1..Cardinality(S), S)

\* Mutant: the walk begins at the nodes that have edges, not at all nodes.
OrdersOfEdges ==
  {o \in Sequenced({r \in InGraph : \E t \in Resources : {<<r, t>>, <<t, r>>} \cap edges /= {}}) :
     \A i, j \in 1..Len(o) : <<o[i], o[j]>> \in edges => i < j}

\* Each visit puts a node in front of those it depends on, the first node visited
\* being any: of two nodes joined by an edge, the dependent comes first.
Orders ==
  {o \in Sequenced(InGraph) :
     \A i, j \in 1..Len(o) : <<o[i], o[j]>> \in edges => i < j}

Sort(d) ==
  /\ deploying[d].at = "added"
  /\ IF Cyclic
     THEN /\ sets' = [sets EXCEPT ![deploying[d].set].status = "failed"]
          /\ deploying' = [deploying EXCEPT ![d] = NotDeploying]
     ELSE /\ \E o \in Orders :
               deploying' = [deploying EXCEPT ![d].at = "ordered",
                                              ![d].left = [i \in DOMAIN o |-> <<graph[o[i]], o[i]>>]]
          /\ UNCHANGED sets
  /\ UNCHANGED <<backend, graph, edges, node>>

\* Without a driver a node is ready at once; a node that fails to validate keeps
\* its status.
Visit(d) ==
  /\ deploying[d].at = "ordered" /\ deploying[d].left /= <<>>
  /\ LET n == Head(deploying[d].left) IN
       \/ /\ node' = [node EXCEPT ![n] = "provisioning"]
          /\ deploying' = [deploying EXCEPT ![d].at = "provisioning"]
          /\ UNCHANGED sets
       \/ /\ node' = [node EXCEPT ![n] = "ready"]
          /\ deploying' = [deploying EXCEPT ![d].left = Tail(@)]
          /\ UNCHANGED sets
       \/ /\ sets' = [sets EXCEPT ![deploying[d].set].status = "failed"]
          /\ deploying' = [deploying EXCEPT ![d] = NotDeploying]
          /\ UNCHANGED node
  /\ UNCHANGED <<backend, graph, edges>>

\* The driver's answer: outputs, an error, or no outputs of what it provisioned.
Provisioned(d) ==
  /\ deploying[d].at = "provisioning"
  /\ LET n == Head(deploying[d].left) IN
       \/ /\ node' = [node EXCEPT ![n] = "ready"]
          /\ deploying' = [deploying EXCEPT ![d].at = "ordered", ![d].left = Tail(@)]
          /\ UNCHANGED sets
       \/ /\ \E status \in {"failed", node[n]} : node' = [node EXCEPT ![n] = status]
          /\ sets' = [sets EXCEPT ![deploying[d].set].status = "failed"]
          /\ deploying' = [deploying EXCEPT ![d] = NotDeploying]
  /\ UNCHANGED <<backend, graph, edges>>

\* The set is stored again.  If that fails, a rollback returns the error.
FinishDeploy(d) ==
  /\ deploying[d].at = "ordered" /\ deploying[d].left = <<>>
  /\ \E put \in BOOLEAN :
       /\ sets' = [sets EXCEPT ![deploying[d].set].status =
                     IF put /\ Mine(d).rollback THEN "rolled_back" ELSE "succeeded"]
       /\ backend' = IF put THEN [backend EXCEPT ![Mine(d).version] = deploying[d].set] ELSE backend
  /\ deploying' = [deploying EXCEPT ![d] = NotDeploying]
  /\ UNCHANGED <<graph, edges, node>>

SetsNext ==
  \E d \in Deployers :
    \/ \E p \in Plans : CreateNew(d, p)
    \/ \E v \in SetIds : BeginRollback(d, v)
    \/ CreateFromTarget(d) \/ AddToGraph(d) \/ Sort(d) \/ Visit(d) \/ Provisioned(d)
    \/ FinishDeploy(d)

SetsSpec == SetsInit /\ [][SetsNext]_setVars

-----------------------------------------------------------------------------
(* Properties *)

Done == {"succeeded", "rolled_back"}
NodesOf(s) == {sets[s].nodes} \X Names(sets[s])

SetsTypeOK ==
  /\ \A s \in 1..Len(sets) : sets[s].version \in SetIds /\ sets[s].nodes \in 1..s
  /\ \A v \in SetIds : backend[v] \in (1..Len(sets)) \cup {NoSet}
  /\ edges \subseteq Resources \X Resources
  /\ node \in [SetIds \X Resources -> {"pending", "provisioning", "ready", "failed"}]
  /\ \A d \in Deployers : deploying[d].set \in (1..Len(sets)) \cup {NoSet}

\* Of deployments that are made one after another, each succeeds only after every
\* one of its resources is ready, whatever earlier ones left in the graph.
SucceedsWhenReady ==
  [][\A s \in 1..Len(sets) :
       (sets'[s].status \in Done /\ sets[s].status \notin Done) =>
         \A n \in NodesOf(s) : node'[n] = "ready"]_setVars
=============================================================================
