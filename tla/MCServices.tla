----------------------------- MODULE MCServices -------------------------------
(* Three pools of goroutines behind a limit: an execution is one of the DAG
   executor, of the event bus or of the webhooks, which share nothing.  The graphs
   of the executor are all on three nodes, a diamond, and a dependency that is no
   node. *)
EXTENDS DagExecutor, EventBus, WebhookDelivery, TLC

CONSTANTS s1, s2, s3, s4, e1, e2, f1, h1

MCGraphs ==
  [{s1, s2, s3} -> SUBSET {s1, s2, s3}]
    \cup {s1 :> {} @@ s2 :> {s1} @@ s3 :> {s1} @@ s4 :> {s2, s3},
          s1 :> {s4} @@ s2 :> {s1, s4}}

MCAttempts == s1 :> 2 @@ s2 :> 1 @@ s3 :> 2 @@ s4 :> 0

MCWants == f1 :> {e1, e2} @@ h1 :> {e1}

VARIABLE part

Parts == {"dag", "bus", "webhooks"}

\* What a part begins with makes no difference to the others.
ServicesInit ==
  /\ part \in Parts /\ Init /\ BusInit /\ WebhooksInit
  /\ part /= "dag" => graph = (CHOOSE g \in Graphs : TRUE) /\ lenient
  /\ part /= "webhooks" => hooked = {}

Dag(A) == part = "dag" /\ A /\ UNCHANGED <<part, busVars, webhookVars>>
OfBus(A) == part = "bus" /\ A /\ UNCHANGED <<part, vars, webhookVars>>
OfWebhooks(A) == part = "webhooks" /\ A /\ UNCHANGED <<part, vars, busVars>>

ServicesNext == Dag(Next) \/ OfBus(BusNext) \/ OfWebhooks(WebhooksNext)

everything == <<part, vars, busVars, webhookVars>>

\* The fairness of each of them.
ServicesSpec ==
  /\ ServicesInit /\ [][ServicesNext]_everything
  /\ WF_everything(Dag(Execute)) /\ WF_everything(Dag(\E n \in Ids : ExecuteLevel(n)))
  /\ \A n \in Ids : WF_everything(Dag(ExecuteStep(n)))
  /\ \A w \in Workers : WF_everything(OfBus(WorkerStep(w)))
  /\ WF_everything(OfBus(CloseQueue \/ Stopped))
  /\ \A w \in Posters : WF_everything(OfWebhooks(Post(w)))
  /\ \A n \in Notices : WF_everything(OfWebhooks(OfferDelivery(n)))
  /\ \A d \in Deliveries : WF_everything(OfWebhooks(RetryReturns(d)))

\* Settles, of the executions of the executor: it returns, and every goroutine
\* it started ends, those of a level it left as well.
ExecutionSettles == part = "dag" => Settles
=============================================================================
