-------------------------------- MODULE EventBus --------------------------------
(***************************************************************************)
(* The central event bus (internal/events/bus.go): publishers put events   *)
(* into a bounded queue, workers take them out and deliver them to the     *)
(* subscribers with retries, and Stop cancels, closes the queue and waits. *)
(***************************************************************************)
EXTENDS Naturals, Sequences, SequencesExt

CONSTANTS
  Events,
  Subscribers,
  Webhooks,       \* the subscribers that are a URL, the others are functions
  Wants,          \* the events each filter matches
  Workers,
  Publishers,     \* callers of PublishSync, which deliver themselves
  QueueSize,
  RetryAttempts,
  MaxSubscribed,  \* bound on the list of subscriptions
  NoEvent

ASSUME EventBusAssumption ==
  /\ Webhooks \subseteq Subscribers /\ Wants \in [Subscribers -> SUBSET Events]
  /\ QueueSize \in Nat \ {0} /\ RetryAttempts \in Nat \ {0}
  /\ NoEvent \notin Events /\ Workers \cap Publishers = {}

Deliverers == Workers \cup Publishers

VARIABLES
  queue,
  submitted,   \* the events somebody has published, each once
  subscribed,  \* subscriptions, in order
  phase,       \* of Stop: "running", "cancelled", "closed", "stopped"
  panicked,
  duty,       \* of a deliverer: "idle", "taken", "delivering", "exited"
  event, receivers, tries,  \* what it delivers, to whom, and how often it tried
  offered      \* history: the calls of a subscriber with an event

busVars == <<queue, submitted, subscribed, phase, panicked, duty, event, receivers, tries, offered>>

BusInit ==
  /\ queue = <<>> /\ submitted = {} /\ subscribed = <<>>
  /\ phase = "running" /\ panicked = FALSE
  /\ duty = [d \in Deliverers |-> "idle"] /\ event = [d \in Deliverers |-> NoEvent]
  /\ receivers = [d \in Deliverers |-> <<>>] /\ tries = [d \in Deliverers |-> 0]
  /\ offered = {}

\* A webhook may be subscribed twice, a function not.
Subscribe(s) ==
  /\ ~panicked /\ Len(subscribed) < MaxSubscribed
  /\ s \in Webhooks \/ s \notin ToSet(subscribed)
  /\ subscribed' = Append(subscribed, s)
  /\ UNCHANGED <<queue, submitted, phase, panicked, duty, event, receivers, tries, offered>>

Unsubscribe(s) ==
  /\ ~panicked /\ s \in ToSet(subscribed)
  /\ subscribed' = SelectSeq(subscribed, LAMBDA t : t /= s)
  /\ UNCHANGED <<queue, submitted, phase, panicked, duty, event, receivers, tries, offered>>

\* An event for which there is no room is dropped, and after the cancellation
\* the select takes either of the branches that are ready: a send on the
\* closed queue is ready, and panics.
Publish(e) ==
  /\ ~panicked /\ e \notin submitted /\ submitted' = submitted \cup {e}
  /\ \/ /\ phase \in {"running", "cancelled"} /\ Len(queue) < QueueSize
        /\ queue' = Append(queue, e) /\ UNCHANGED panicked
     \/ /\ phase /= "running" \/ Len(queue) = QueueSize
        /\ UNCHANGED <<queue, panicked>>
     \/ /\ phase \in {"closed", "stopped"}
        /\ panicked' = TRUE /\ UNCHANGED queue
  /\ UNCHANGED <<subscribed, phase, duty, event, receivers, tries, offered>>

PublishSync(p, e) ==
  /\ ~panicked /\ duty[p] = "idle" /\ e \notin submitted
  /\ submitted' = submitted \cup {e}
  /\ duty' = [duty EXCEPT ![p] = "taken"] /\ event' = [event EXCEPT ![p] = e]
  /\ UNCHANGED <<queue, subscribed, phase, panicked, receivers, tries, offered>>

Take(w) ==
  /\ ~panicked /\ duty[w] = "idle" /\ queue /= <<>>
  /\ event' = [event EXCEPT ![w] = Head(queue)] /\ queue' = Tail(queue)
  /\ duty' = [duty EXCEPT ![w] = "taken"]
  /\ UNCHANGED <<submitted, subscribed, phase, panicked, receivers, tries, offered>>

\* The subscribers of this moment, under the read lock.
Collect(d) ==
  /\ ~panicked /\ duty[d] = "taken"
  /\ receivers' = [receivers EXCEPT ![d] = SelectSeq(subscribed, LAMBDA s : event[d] \in Wants[s])]
  /\ duty' = [duty EXCEPT ![d] = "delivering"]
  /\ UNCHANGED <<queue, submitted, subscribed, phase, panicked, event, tries, offered>>

NextSubscriber(d) ==
  receivers' = [receivers EXCEPT ![d] = Tail(@)] /\ tries' = [tries EXCEPT ![d] = 0]

\* A call of the first that is left.  A webhook that is inactive, or out of
\* reach, is not called, and one that refuses is not tried again.
Offer(d) ==
  /\ ~panicked /\ duty[d] = "delivering" /\ receivers[d] /= <<>> /\ tries[d] < RetryAttempts
  /\ LET s == Head(receivers[d]) IN
       offered' \in {offered \cup {<<event[d], s>>}} \cup (IF s \in Webhooks THEN {offered} ELSE {})
  /\ \/ NextSubscriber(d)
     \/ tries' = [tries EXCEPT ![d] = @ + 1] /\ UNCHANGED receivers
  /\ UNCHANGED <<queue, submitted, subscribed, phase, panicked, duty, event>>

\* A delivery ends with its attempts, or as its context is cancelled while it
\* waits for the next one: that of a worker by Stop, the caller's at any time.
SkipReceiver(d) ==
  /\ ~panicked /\ tries[d] > 0
  /\ tries[d] = RetryAttempts \/ phase /= "running" \/ d \in Publishers
  /\ NextSubscriber(d)
  /\ UNCHANGED <<queue, submitted, subscribed, phase, panicked, duty, event, offered>>

DeliveryDone(d) ==
  /\ ~panicked /\ duty[d] = "delivering" /\ receivers[d] = <<>>
  /\ duty' = [duty EXCEPT ![d] = "idle"] /\ event' = [event EXCEPT ![d] = NoEvent]
  /\ UNCHANGED <<queue, submitted, subscribed, phase, panicked, receivers, tries, offered>>

\* Mutant: a worker looks at the context first and leaves the rest in the queue.
ExitsEarly(w) == duty[w] = "idle" /\ phase /= "running"

\* A worker reads the closed queue to its end.
Exits(w) == duty[w] = "idle" /\ queue = <<>> /\ phase = "closed"

WorkerExits(w) ==
  /\ ~panicked /\ Exits(w) /\ duty' = [duty EXCEPT ![w] = "exited"]
  /\ UNCHANGED <<queue, submitted, subscribed, phase, panicked, event, receivers, tries, offered>>

StopBus ==
  /\ ~panicked /\ phase = "running" /\ phase' = "cancelled"
  /\ UNCHANGED <<queue, submitted, subscribed, panicked, duty, event, receivers, tries, offered>>

CloseQueue ==
  /\ ~panicked /\ phase = "cancelled" /\ phase' = "closed"
  /\ UNCHANGED <<queue, submitted, subscribed, panicked, duty, event, receivers, tries, offered>>

Stopped ==
  /\ ~panicked /\ phase = "closed" /\ \A w \in Workers : duty[w] = "exited"
  /\ phase' = "stopped"
  /\ UNCHANGED <<queue, submitted, subscribed, panicked, duty, event, receivers, tries, offered>>

DeliveryStep(d) == Collect(d) \/ Offer(d) \/ SkipReceiver(d) \/ DeliveryDone(d)
WorkerStep(w) == Take(w) \/ DeliveryStep(w) \/ WorkerExits(w)

BusNext ==
  \/ \E s \in Subscribers : Subscribe(s) \/ Unsubscribe(s)
  \/ \E e \in Events : Publish(e) \/ \E p \in Publishers : PublishSync(p, e)
  \/ \E w \in Workers : WorkerStep(w)
  \/ \E p \in Publishers : DeliveryStep(p)
  \/ StopBus \/ CloseQueue \/ Stopped

\* The workers run, a subscriber that is called returns, and Stop goes on.
BusSpec ==
  /\ BusInit /\ [][BusNext]_busVars
  /\ \A w \in Workers : WF_busVars(WorkerStep(w))
  /\ WF_busVars(CloseQueue \/ Stopped)

-----------------------------------------------------------------------------
(* Properties *)

BusTypeOK ==
  /\ queue \in Seq(Events) /\ Len(queue) <= QueueSize
  /\ submitted \subseteq Events /\ subscribed \in Seq(Subscribers)
  /\ phase \in {"running", "cancelled", "closed", "stopped"} /\ panicked \in BOOLEAN
  /\ duty \in [Deliverers -> {"idle", "taken", "delivering", "exited"}]
  /\ event \in [Deliverers -> Events \cup {NoEvent}]
  /\ receivers \in [Deliverers -> Seq(Subscribers)]
  /\ tries \in [Deliverers -> 0..RetryAttempts]
  /\ offered \subseteq Events \X Subscribers

\* An event that is in the queue is given to each function subscribed to it,
\* though the bus is stopped meanwhile, unless that is unsubscribed or a
\* publisher panics.
Delivered ==
  \A e \in Events, s \in Subscribers \ Webhooks :
    e \in ToSet(queue) /\ s \in ToSet(subscribed) /\ e \in Wants[s]
      ~> <<e, s>> \in offered \/ s \notin ToSet(subscribed) \/ panicked
=============================================================================
