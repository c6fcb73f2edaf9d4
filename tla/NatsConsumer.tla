---------------------------- MODULE NatsConsumer ----------------------------
(***************************************************************************)
(* The consuming side of packages/events-nats/src/NatsAdapter.ts: one      *)
(* durable consumer and one consume loop per pattern, subscribe() with its *)
(* rollback, unsubscribe().  JetStream (external) keeps, for each durable  *)
(* consumer, the events that wait and those whose reply it waits for; it   *)
(* delivers an event again when the reply does not come within ack_wait,   *)
(* at most max_deliver times.  Deliver policy "new".                       *)
(***************************************************************************)
EXTENDS EventDelivery

CONSTANTS
  MaxDeliver,  \* consumerOptions.maxDeliver
  Patterns,    \* the patterns of the subscription, in order
  PatternOf    \* PatternOf[e]: the pattern event e matches

ASSUME MaxDeliverAssumption == MaxDeliver \in Nat \ {0}
ASSUME PatternAssumption == Patterns \in Seq(STRING) /\ PatternOf \in [Event -> {Patterns[i] : i \in DOMAIN Patterns}]

VARIABLES
  natsSub,     \* natsSub[p]: where the calls subscribe() and unsubscribe() of p are
  created,     \* created[p]: createdDurables
  iterators,   \* iterators[p]: the patterns with an open message iterator
  durables,    \* JetStream: the patterns with a durable consumer
  waiting,     \* JetStream: the events to deliver
  awaiting,    \* JetStream: the events delivered whose reply it waits for
  deliveries,  \* deliveries[e]: how often e was delivered
  rolledBack   \* history: the patterns whose durable consumers a failed subscribe() deleted

natsJetStream == <<durables, waiting, awaiting, deliveries>>
natsVars == <<natsSub, created, iterators, natsJetStream, rolledBack>>

NatsInit ==
  /\ natsSub = [p \in Process |-> "none"]
  /\ created = [p \in Process |-> {}]
  /\ iterators = [p \in Process |-> {}]
  /\ durables = {} /\ waiting = {} /\ awaiting = {}
  /\ deliveries = [e \in Event |-> 0]
  /\ rolledBack = {}

PatternEvents(S) == {e \in Event : PatternOf[e] \in S}

\* JetStream stores the event for the durable consumers there are.
NatsPublish ==
  /\ Published
  /\ waiting' = waiting \cup {e \in {published'} : PatternOf[e] \in durables}
  /\ UNCHANGED <<adapter, autoGroup, deliveryVars, brokerVars, natsSub, created, iterators, durables, awaiting,
                 deliveries, rolledBack>>

\* subscribe() begins.
NatsSubscribe(p) ==
  /\ p \in Members /\ natsSub[p] = "none"
  /\ natsSub' = [natsSub EXCEPT ![p] = "subscribing"]
  /\ UNCHANGED <<sharedVars, created, iterators, natsJetStream, rolledBack>>

\* One pattern: ensure the durable consumer, open the iterator, start the loop.
NatsPattern(p) ==
  LET pattern == Patterns[Cardinality(created[p]) + 1] IN
  /\ natsSub[p] = "subscribing"
  /\ durables' = durables \cup {pattern}
  /\ created' = [created EXCEPT ![p] = @ \cup {pattern}]
  /\ iterators' = [iterators EXCEPT ![p] = @ \cup {pattern}]
  /\ natsSub' = [natsSub EXCEPT ![p] = IF Cardinality(created'[p]) = Len(Patterns) THEN "subscribed" ELSE @]
  /\ UNCHANGED <<sharedVars, waiting, awaiting, deliveries, rolledBack>>

\* A pattern fails, before or after its durable consumer was created.
NatsPatternFails(p) ==
  LET pattern == Patterns[Cardinality(created[p]) + 1] IN
  /\ natsSub[p] = "subscribing"
  /\ \E D \in SUBSET {pattern} :
       /\ durables' = durables \cup D
       /\ created' = [created EXCEPT ![p] = @ \cup D]
  /\ natsSub' = [natsSub EXCEPT ![p] = "rollback"]
  /\ UNCHANGED <<sharedVars, iterators, waiting, awaiting, deliveries, rolledBack>>

\* JetStream forgets the events of the durable consumers that are deleted.
DeleteDurables(p) ==
  LET dropped == PatternEvents(created[p]) \cap (waiting \cup awaiting) IN
  /\ durables' = durables \ created[p]
  /\ waiting' = waiting \ dropped /\ awaiting' = awaiting \ dropped
  /\ gone' = gone \cup dropped /\ forgotten' = forgotten \cup dropped

\* The rollback closes the iterators, then deletes the durable consumers, those of a
\* named group that other processes consume from too.
NatsRollback(p) ==
  /\ natsSub[p] = "rollback"
  /\ iterators' = [iterators EXCEPT ![p] = {}]
  /\ natsSub' = [natsSub EXCEPT ![p] = "deleting"]
  /\ UNCHANGED <<sharedVars, created, natsJetStream, rolledBack>>

NatsRolledBack(p) ==
  /\ natsSub[p] = "deleting"
  /\ DeleteDurables(p)
  /\ natsSub' = [natsSub EXCEPT ![p] = "closed"]
  /\ rolledBack' = rolledBack \cup created[p]
  /\ UNCHANGED <<adapter, autoGroup, published, deliveryVars, created, iterators, deliveries>>

\* The loop of a pattern takes the next message and waits for its callback.
NatsDeliver(p, e) ==
  /\ e \in waiting /\ PatternOf[e] \in iterators[p]
  /\ \A d \in Running(p) : PatternOf[d.event] # PatternOf[e]
  /\ waiting' = waiting \ {e} /\ awaiting' = awaiting \cup {e}
  /\ deliveries' = [deliveries EXCEPT ![e] = @ + 1]
  /\ StartCallback(NewDelivery(p, e, PatternOf[e]))
  /\ UNCHANGED <<adapter, autoGroup, published, brokerVars, natsSub, created, iterators, durables, rolledBack>>

\* An event to be delivered again, unless max_deliver is reached.
Redeliver(e) ==
  /\ awaiting' = awaiting \ {e}
  /\ waiting' = IF deliveries[e] < MaxDeliver THEN waiting \cup {e} ELSE waiting
  /\ gone' = IF deliveries[e] < MaxDeliver THEN gone ELSE gone \cup {e}

AckWaitEnds(e) ==
  /\ e \in awaiting
  /\ Redeliver(e)
  /\ UNCHANGED <<adapter, autoGroup, published, deliveryVars, forgotten, natsSub, created, iterators, durables,
                 deliveries, rolledBack>>

\* ack(), term() and nak() send a reply, which may be lost.
NatsReply(e, what) ==
  \/ UNCHANGED <<waiting, awaiting, gone>>
  \/ /\ what \in {"ack", "drop"} /\ e \in waiting \cup awaiting
     /\ waiting' = waiting \ {e} /\ awaiting' = awaiting \ {e} /\ gone' = gone \cup {e}
  \/ what = "requeue" /\ e \in awaiting /\ Redeliver(e)

NatsCallbackSettles(d, what) ==
  /\ CallbackSettles(d, what)
  /\ NatsReply(d.event, what)
  /\ UNCHANGED <<adapter, autoGroup, published, forgotten, natsSub, created, iterators, durables, deliveries, rolledBack>>

\* The loop naks a message whose callback rejects; a second reply to a message is
\* ignored by the client.
NatsCallbackEnds(d, resolves) ==
  /\ CallbackEnds(d, resolves)
  /\ NatsReply(d.event, IF ~ resolves /\ d.settled = "no" THEN "requeue" ELSE AtEnd(d, resolves))
  /\ UNCHANGED <<adapter, autoGroup, published, forgotten, natsSub, created, iterators, durables, deliveries, rolledBack>>

\* Variation: unsubscribe() deletes the durable consumers of a named group too.
NatsUnsubscribeDeleting(p) ==
  /\ natsSub[p] = "subscribed"
  /\ iterators' = [iterators EXCEPT ![p] = {}]
  /\ natsSub' = [natsSub EXCEPT ![p] = "closed"]
  /\ DeleteDurables(p)
  /\ UNCHANGED <<adapter, autoGroup, published, deliveryVars, created, deliveries, rolledBack>>

\* unsubscribe(): closes the iterators, without waiting for the callbacks, and
\* deletes the durable consumers of a generated group.
NatsUnsubscribe(p) ==
  /\ natsSub[p] = "subscribed"
  /\ iterators' = [iterators EXCEPT ![p] = {}]
  /\ natsSub' = [natsSub EXCEPT ![p] = "closed"]
  /\ IF autoGroup THEN DeleteDurables(p) ELSE UNCHANGED <<durables, waiting, awaiting, brokerVars>>
  /\ UNCHANGED <<adapter, autoGroup, published, deliveryVars, created, deliveries, rolledBack>>

NatsCrash(p) ==
  /\ natsSub[p] \notin {"none", "crashed"}
  /\ natsSub' = [natsSub EXCEPT ![p] = "crashed"]
  /\ iterators' = [iterators EXCEPT ![p] = {}]
  /\ CallbacksDie(p)
  /\ UNCHANGED <<adapter, autoGroup, published, brokerVars, created, natsJetStream, rolledBack>>

NatsNext ==
  \/ NatsPublish
  \/ \E p \in Process :
       \/ NatsSubscribe(p) \/ NatsPattern(p) \/ NatsPatternFails(p) \/ NatsRollback(p) \/ NatsRolledBack(p)
       \/ NatsUnsubscribe(p) \/ NatsCrash(p)
       \/ \E e \in Event : NatsDeliver(p, e)
  \/ \E e \in Event : AckWaitEnds(e)
  \/ \E d \in running, what \in Settlement : NatsCallbackSettles(d, what)
  \/ \E d \in running, resolves \in BOOLEAN : NatsCallbackEnds(d, resolves)
=============================================================================
