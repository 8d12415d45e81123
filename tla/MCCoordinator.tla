---------------------------- MODULE MCCoordinator ----------------------------
(* Instances of Coordinator: the engines that apply.go and service.go build. *)
EXTENDS Coordinator

\* apply.go: infrastructure, orchestrator and devex, which wait by name.  The
\* uuids are u1.. and the specs are found by category.
StackEngines == {"u1", "u2", "u3"}
StackNames == {"infrastructure", "orchestrator", "devex"}
StackNameOf == [u1 |-> "infrastructure", u2 |-> "orchestrator", u3 |-> "devex"]
StackDependsOn == [u1 |-> {}, u2 |-> {"infrastructure"},
                   u3 |-> {"infrastructure", "orchestrator"}]
StackWaits == {"u2", "u3"}

\* Dependencies by uuid, as in coordinator_test.go: a chain of three engines,
\* of which the last waits as well, and one that depends on itself.
ChainEngines == {"u1", "u2", "u3", "u4"}
ChainNames == {"a", "b", "c", "d"}
ChainNameOf == [u1 |-> "a", u2 |-> "b", u3 |-> "c", u4 |-> "d"]
ChainCategoryOf == [u1 |-> "x", u2 |-> "x", u3 |-> "c", u4 |-> "d"]
ChainDependsOn == [u1 |-> {}, u2 |-> {"u1"}, u3 |-> {"u2", "a"}, u4 |-> {"u4"}]
ChainWaits == {"u3"}

\* service.go: the infrastructure and Kubernetes engines of a workload; neither
\* waits, plans a rollback or reports a state.
WorkloadEngines == {"u1", "u2"}
WorkloadNames == {"infra-engine", "k8s-engine"}
WorkloadNameOf == [u1 |-> "infra-engine", u2 |-> "k8s-engine"]
WorkloadDependsOn == [u1 |-> {}, u2 |-> {"infra-engine"}]
NoEngines == {}
=============================================================================
