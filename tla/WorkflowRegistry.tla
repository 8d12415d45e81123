---------------------------- MODULE WorkflowRegistry ----------------------------
(***************************************************************************)
(* The workflows of the runtime (internal/workflow/runtime.go): each is in *)
(* the store and in a cache, which are written one after the other and     *)
(* under different locks, and a restart reads the cache from the store.    *)
(***************************************************************************)
EXTENDS Naturals

CONSTANTS
  Workflows,    \* names
  Definitions,
  Callers,      \* of ApplyWorkflow and DeleteWorkflow
  NoWorkflow

ASSUME RegistryAssumption == NoWorkflow \notin Definitions \cup Workflows

VARIABLES
  inStore, cached,       \* the definition under each name
  applying, applied,    \* the name a caller has stored under and has yet to cache, and what
  mixed                 \* history: calls for a name overlapped, and none succeeded alone since

registryVars == <<inStore, cached, applying, applied, mixed>>

RegistryInit ==
  /\ inStore \in [Workflows -> Definitions \cup {NoWorkflow}] /\ cached = inStore
  /\ applying = [c \in Callers |-> NoWorkflow] /\ applied = [c \in Callers |-> NoWorkflow]
  /\ mixed = [n \in Workflows |-> FALSE]

\* The transaction of the store.  An error of it ends the call.
Store(c, n, d) ==
  /\ applying[c] = NoWorkflow
  /\ inStore' = [inStore EXCEPT ![n] = d]
  /\ applying' = [applying EXCEPT ![c] = n] /\ applied' = [applied EXCEPT ![c] = d]
  /\ mixed' = [mixed EXCEPT ![n] = \E o \in Callers : applying[o] = n]
  /\ UNCHANGED cached

ApplyWorkflow(c, n, d) == Store(c, n, d)

\* Mutant: a deletion leaves the cache alone.
KeepsDeleted(c) ==
  IF applied[c] = NoWorkflow THEN cached
  ELSE [cached EXCEPT ![applying[c]] = applied[c]]

\* A name the store does not have is an error, though the cache may have it.
DeleteWorkflow(c, n) == inStore[n] /= NoWorkflow /\ Store(c, n, NoWorkflow)

Cached(c) == [cached EXCEPT ![applying[c]] = applied[c]]

UpdateCache(c) ==
  /\ applying[c] /= NoWorkflow /\ cached' = Cached(c)
  /\ applying' = [applying EXCEPT ![c] = NoWorkflow]
  /\ applied' = [applied EXCEPT ![c] = NoWorkflow]
  /\ UNCHANGED <<inStore, mixed>>

\* The process ends anywhere, and the next one loads the store.
Restart ==
  /\ cached' = inStore
  /\ applying' = [c \in Callers |-> NoWorkflow] /\ applied' = [c \in Callers |-> NoWorkflow]
  /\ mixed' = [n \in Workflows |-> FALSE]
  /\ UNCHANGED inStore

RegistryNext ==
  \/ \E c \in Callers :
       \/ \E n \in Workflows : DeleteWorkflow(c, n) \/ \E d \in Definitions : ApplyWorkflow(c, n, d)
       \/ UpdateCache(c)
  \/ Restart

RegistrySpec == RegistryInit /\ [][RegistryNext]_registryVars

\* What a lookup finds: the cache first, and then the store.
GetWorkflow(n) == IF cached[n] /= NoWorkflow THEN cached[n] ELSE inStore[n]

-----------------------------------------------------------------------------
(* Properties *)

RegistryTypeOK ==
  /\ inStore \in [Workflows -> Definitions \cup {NoWorkflow}]
  /\ cached \in [Workflows -> Definitions \cup {NoWorkflow}]
  /\ applying \in [Callers -> Workflows \cup {NoWorkflow}]
  /\ applied \in [Callers -> Definitions \cup {NoWorkflow}]
  /\ mixed \in [Workflows -> BOOLEAN]

\* What a lookup finds is what the store holds and a restart will load, while
\* no call for the name is under way: after calls that overlapped, from the
\* next one on that succeeds alone.
LookupFindsStored ==
  \A n \in Workflows :
    mixed[n] \/ (\E c \in Callers : applying[c] = n) \/ GetWorkflow(n) = inStore[n]
=============================================================================
