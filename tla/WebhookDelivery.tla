----------------------------- MODULE WebhookDelivery -----------------------------
(***************************************************************************)
(* Webhook delivery (internal/webhooks).  Dispatch reads the subscriptions *)
(* under the lock and then offers one delivery after the other to a        *)
(* bounded queue, dropping what finds it full.  Workers post them; a       *)
(* delivery that failed sleeps in a goroutine of its own and is offered    *)
(* again, until it has failed MaxRetries times.                            *)
(***************************************************************************)
EXTENDS Naturals, Sequences, FiniteSets

CONSTANTS
  Hooks,          \* subscriptions
  Notices,        \* events, each dispatched once
  Matching,       \* the events a subscription asks for
  Posters,        \* the workers
  DeliveryQueue,  \* capacity of the queue
  MaxRetries,     \* attempts of a delivery
  NoDelivery

ASSUME WebhooksAssumption ==
  /\ Matching \in [Hooks -> SUBSET Notices] /\ IsFiniteSet(Hooks \X Notices)
  /\ DeliveryQueue \in Nat \ {0} /\ MaxRetries \in Nat \ {0}

VARIABLES
  hooked,        \* the subscriptions in force
  announced,     \* events that were dispatched
  offers,        \* of an event: the subscriptions its Dispatch has yet to queue
  deliveryQueue,
  posting,       \* what a worker delivers
  exited,        \* workers that ended
  sleeping,      \* deliveries that wait for their next attempt
  halted,        \* Stop was called
  ending         \* history: how the delivery of an event to a subscription ended

webhookVars ==
  <<hooked, announced, offers, deliveryQueue, posting, exited, sleeping, halted, ending>>

Delivery(h, n, k) == [hook |-> h, notice |-> n, attempt |-> k]
Deliveries == [hook : Hooks, notice : Notices, attempt : 1..MaxRetries]

WebhooksInit ==
  /\ hooked \in SUBSET Hooks /\ announced = {} /\ offers = [n \in Notices |-> {}]
  /\ deliveryQueue = <<>> /\ posting = [w \in Posters |-> NoDelivery]
  /\ exited = {} /\ sleeping = {} /\ halted = FALSE
  /\ ending = [h \in Hooks, n \in Notices |-> "open"]

\* Subscribe, Unsubscribe and a change of the flag Enabled.  Deliveries that are
\* under way hold the subscription and go on.
ChangeHooks(h) ==
  /\ hooked' = IF h \in hooked THEN hooked \ {h} ELSE hooked \cup {h}
  /\ UNCHANGED <<announced, offers, deliveryQueue, posting, exited, sleeping, halted, ending>>

Dispatch(n) ==
  /\ n \notin announced /\ announced' = announced \cup {n}
  /\ offers' = [offers EXCEPT ![n] = {h \in hooked : n \in Matching[h]}]
  /\ UNCHANGED <<hooked, deliveryQueue, posting, exited, sleeping, halted, ending>>

\* A send that never blocks: who finds the queue full gives the delivery up.
TrySend(d) ==
  IF Len(deliveryQueue) < DeliveryQueue
  THEN deliveryQueue' = Append(deliveryQueue, d) /\ UNCHANGED ending
  ELSE ending' = [ending EXCEPT ![d.hook, d.notice] = "dropped"] /\ UNCHANGED deliveryQueue

OfferDelivery(n) ==
  /\ \E h \in offers[n] :
       /\ TrySend(Delivery(h, n, 1))
       /\ offers' = [offers EXCEPT ![n] = @ \ {h}]
  /\ UNCHANGED <<hooked, announced, posting, exited, sleeping, halted>>

\* A worker's select: the queue, or once Stop was called either of the two.
TakeDelivery(w) ==
  /\ w \notin exited /\ posting[w] = NoDelivery /\ deliveryQueue /= <<>>
  /\ posting' = [posting EXCEPT ![w] = Head(deliveryQueue)]
  /\ deliveryQueue' = Tail(deliveryQueue)
  /\ UNCHANGED <<hooked, announced, offers, exited, sleeping, halted, ending>>

PosterExits(w) ==
  /\ halted /\ w \notin exited /\ posting[w] = NoDelivery
  /\ exited' = exited \cup {w}
  /\ UNCHANGED <<hooked, announced, offers, deliveryQueue, posting, sleeping, halted, ending>>

EndsAs(d, how) == ending' = [ending EXCEPT ![d.hook, d.notice] = how]

\* The endpoint accepts it, or the request cannot even be made, which is not retried.
Posted(w) ==
  /\ posting[w] /= NoDelivery
  /\ EndsAs(posting[w], "accepted") \/ EndsAs(posting[w], "impossible")
  /\ posting' = [posting EXCEPT ![w] = NoDelivery]
  /\ UNCHANGED <<hooked, announced, offers, deliveryQueue, exited, sleeping, halted>>

\* Mutant: a retry is the same attempt again.
RetriedAlike(d) == d

Retried(d) == [d EXCEPT !.attempt = @ + 1]

PostFails(w) ==
  /\ posting[w] /= NoDelivery
  /\ LET d == posting[w] IN
     IF d.attempt >= MaxRetries
     THEN EndsAs(d, "exhausted") /\ UNCHANGED sleeping
     ELSE sleeping' = sleeping \cup {Retried(d)} /\ UNCHANGED ending
  /\ posting' = [posting EXCEPT ![w] = NoDelivery]
  /\ UNCHANGED <<hooked, announced, offers, deliveryQueue, exited, halted>>

\* The goroutine wakes up whether or not the engine was stopped meanwhile.
RetryReturns(d) ==
  /\ d \in sleeping /\ sleeping' = sleeping \ {d} /\ TrySend(d)
  /\ UNCHANGED <<hooked, announced, offers, posting, exited, halted>>

StopWebhooks ==
  /\ ~halted /\ halted' = TRUE
  /\ UNCHANGED <<hooked, announced, offers, deliveryQueue, posting, exited, sleeping, ending>>

Post(w) == TakeDelivery(w) \/ Posted(w) \/ PostFails(w)

WebhooksNext ==
  \/ \E h \in Hooks : ChangeHooks(h)
  \/ \E n \in Notices : Dispatch(n) \/ OfferDelivery(n)
  \/ \E w \in Posters : Post(w) \/ PosterExits(w)
  \/ \E d \in Deliveries : RetryReturns(d)
  \/ StopWebhooks

\* Workers, the callers of Dispatch and sleeping goroutines are scheduled, and a
\* post ends by its timeout.
WebhooksSpec ==
  /\ WebhooksInit /\ [][WebhooksNext]_webhookVars
  /\ \A w \in Posters : WF_webhookVars(Post(w))
  /\ \A n \in Notices : WF_webhookVars(OfferDelivery(n))
  /\ \A d \in Deliveries : WF_webhookVars(RetryReturns(d))

-----------------------------------------------------------------------------
(* Properties *)

\* Data keeps its shape.
WebhooksTypeOK ==
  /\ hooked \subseteq Hooks /\ announced \subseteq Notices
  /\ offers \in [Notices -> SUBSET Hooks]
  /\ deliveryQueue \in Seq(Deliveries) /\ Len(deliveryQueue) <= DeliveryQueue
  /\ posting \in [Posters -> Deliveries \cup {NoDelivery}]
  /\ exited \subseteq Posters /\ sleeping \subseteq Deliveries /\ halted \in BOOLEAN
  /\ ending \in [Hooks \X Notices -> {"open", "accepted", "impossible", "dropped", "exhausted"}]

\* Unless the engine is stopped, each delivery that a Dispatch decided on ends
\* for good: accepted, given up after MaxRetries failures, or dropped where the
\* queue was full, however many retries come back at once.
DeliveryEnds ==
  []~halted =>
    \A h \in Hooks, n \in Notices :
      (h \in offers[n]) ~> [](ending[h, n] /= "open" /\ h \notin offers[n])
=============================================================================
