------------------------------- MODULE MCManagers -------------------------------
(* Nine parts that share nothing: an execution is one of the quotas, a
   deployment intent, a promise, the workflow registry, the scaling engine, the
   distributed lock, the SQL backend, a file store or the backups. *)
EXTENDS Quota, DeploymentIntents, Promises, WorkflowRegistry, Scaling,
        DistributedLock, StateBackend, FileStores, Backups, TLC

CONSTANTS q1, q2, k1, k2, k3

MCLimit == q1 :> 2 @@ q2 :> 3
MCCovers == k1 :> {q1, q2} @@ k2 :> {q1, q2} @@ k3 :> {q2}

\* Steps that route by a header, pause at a gate and end with all the traffic,
\* and a canary and a rolling update whose steps do not.  Only the rollback may be manual.
Step(w, h, g) == [weight |-> w, header |-> h, gate |-> g]
Strategy(k, steps, f, auto) == [kind |-> k, steps |-> steps, onFailure |-> f, automatic |-> auto]
MCStrategies ==
  LET Twice == <<Step(25, TRUE, TRUE), Step(100, FALSE, FALSE)>> IN
    {Strategy(k, Twice, f, TRUE) : k \in Kinds, f \in {"rollback", "pause", "abort"}}
      \cup {Strategy("rolling", <<Step(50, FALSE, FALSE)>>, "rollback", TRUE)}
      \cup {Strategy("canary", <<Step(50, FALSE, FALSE)>>, "rollback", auto) : auto \in BOOLEAN}

VARIABLE part

Parts == {"quota", "intent", "promise", "registry", "scaling", "lock", "backend",
          "files", "backups"}

\* What a part begins with makes no difference to the others.
ManagersInit ==
  /\ part \in Parts
  /\ QuotaInit /\ IntentInit /\ PromiseInit /\ RegistryInit /\ ScalingInit
  /\ LockInit /\ BackendInit /\ FilesInit /\ BackupInit
  /\ part /= "quota" => registered = {} /\ enforcing
  /\ part /= "intent" => strategy = CHOOSE s \in Strategies : TRUE
  /\ part /= "promise" => gated
  /\ part /= "registry" => \A n \in Workflows : inStore[n] = NoWorkflow
  /\ part /= "scaling" => replicas = 0
  /\ part /= "lock" => kind = "redis"
  /\ part /= "files" => ~encrypted

ManagersNext ==
  /\ UNCHANGED part
  /\ \/ part = "quota" /\ QuotaNext
     \/ part /= "quota" /\ UNCHANGED quotaVars
  /\ \/ part = "intent" /\ IntentNext
     \/ part /= "intent" /\ UNCHANGED intentVars
  /\ \/ part = "promise" /\ PromiseNext
     \/ part /= "promise" /\ UNCHANGED promiseVars
  /\ \/ part = "registry" /\ RegistryNext
     \/ part /= "registry" /\ UNCHANGED registryVars
  /\ \/ part = "scaling" /\ ScalingNext
     \/ part /= "scaling" /\ UNCHANGED scalingVars
  /\ \/ part = "lock" /\ LockNext
     \/ part /= "lock" /\ UNCHANGED lockVars
  /\ \/ part = "backend" /\ BackendNext
     \/ part /= "backend" /\ UNCHANGED backendVars
  /\ \/ part = "files" /\ FilesNext
     \/ part /= "files" /\ UNCHANGED fileVars
  /\ \/ part = "backups" /\ BackupNext
     \/ part /= "backups" /\ UNCHANGED backupVars

managerVars ==
  <<part, quotaVars, intentVars, promiseVars, registryVars, scalingVars, lockVars, backendVars,
    fileVars, backupVars>>

ManagersSpec == ManagersInit /\ [][ManagersNext]_managerVars
=============================================================================
