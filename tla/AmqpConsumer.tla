---------------------------- MODULE AmqpConsumer ----------------------------
(***************************************************************************)
(* The delivery callback of packages/events-amqp/src/AmqpAdapter.ts, and   *)
(* what unsubscribe() and a lost connection mean for the deliveries under  *)
(* way.  The broker (external) delivers up to prefetch events on a channel,*)
(* requeues those that are unsettled when the channel closes, and closes   *)
(* the channel itself when a delivery is settled a second time.  How       *)
(* subscriptions are replayed is the subject of AmqpAdapter.               *)
(***************************************************************************)
EXTENDS EventDelivery, FiniteSetsExt

CONSTANTS
  Prefetch,    \* consumerOptions.prefetch
  MaxChannels  \* bound: consumer channels opened by all processes

ASSUME PrefetchAssumption == Prefetch \in Nat \ {0}
ASSUME MaxChannelsAssumption == MaxChannels \in Nat \ {0}

VARIABLES
  consumer,   \* consumer[p]: the state of the subscription of p
  channel,    \* channel[p]: the number of its latest channel
  queue,      \* broker: does the group's queue exist?
  ready,      \* broker: the events in the queue
  unacked     \* unacked[p]: the unsettled events on the current channel of p

amqpVars == <<consumer, channel, queue, ready, unacked>>

AmqpInit ==
  /\ consumer = [p \in Process |-> "none"]
  /\ channel = [p \in Process |-> 0]
  /\ queue = FALSE
  /\ ready = {}
  /\ unacked = [p \in Process |-> {}]

AmqpPublish ==
  /\ Published
  /\ ready' = IF queue THEN ready \cup {published'} ELSE ready
  /\ UNCHANGED <<adapter, autoGroup, deliveryVars, brokerVars, consumer, channel, queue, unacked>>

\* startConsumer(), from subscribe() or when a recovered connection is set up.  A
\* generated group has a queue of its own.
AmqpConsume(p) ==
  /\ consumer[p] \in {"none", "lost"} /\ MapThenSumSet(LAMBDA q : channel[q], Process) < MaxChannels
  /\ p \in Members
  /\ consumer' = [consumer EXCEPT ![p] = "consuming"]
  /\ channel' = [channel EXCEPT ![p] = @ + 1]
  /\ queue' = TRUE
  /\ UNCHANGED <<sharedVars, ready, unacked>>

AmqpDeliver(p, e) ==
  /\ consumer[p] = "consuming" /\ e \in ready /\ Cardinality(unacked[p]) < Prefetch
  /\ ready' = ready \ {e}
  /\ unacked' = [unacked EXCEPT ![p] = @ \cup {e}]
  /\ StartCallback(NewDelivery(p, e, channel[p]))
  /\ UNCHANGED <<adapter, autoGroup, published, brokerVars, consumer, channel, queue>>

\* A payload that cannot be decoded is rejected without requeue.
AmqpUndecodable(p, e) ==
  /\ consumer[p] = "consuming" /\ e \in ready
  /\ ready' = ready \ {e}
  /\ gone' = gone \cup {e}
  /\ finished' = finished \cup {e}
  /\ UNCHANGED <<adapter, autoGroup, published, running, forgotten, consumer, channel, queue, unacked>>

\* Is the channel the delivery came on still open?
ChannelOpen(d) == consumer[d.process] \in {"consuming", "cancelled"} /\ channel[d.process] = d.via

\* ch.ack() and ch.nack(): on a closed channel they throw, and nothing is sent.
AmqpSettle(d, what) ==
  IF ChannelOpen(d) /\ what # "none"
  THEN /\ unacked' = [unacked EXCEPT ![d.process] = @ \ {d.event}]
       /\ ready' = IF what = "requeue" THEN ready \cup {d.event} ELSE ready
       /\ gone' = IF what = "requeue" THEN gone ELSE gone \cup {d.event}
  ELSE UNCHANGED <<ready, unacked, gone>>

AmqpCallbackSettles(d, what) ==
  /\ CallbackSettles(d, what)
  /\ AmqpSettle(d, what)
  /\ UNCHANGED <<adapter, autoGroup, published, forgotten, consumer, channel, queue>>

AmqpCallbackResolves(d) ==
  /\ CallbackEnds(d, TRUE)
  /\ AmqpSettle(d, AtEnd(d, TRUE))
  /\ UNCHANGED <<adapter, autoGroup, published, forgotten, consumer, channel, queue>>

\* The callback rejects: its delivery is requeued.
AmqpCallbackRejects(d) ==
  /\ d.settled = "no" /\ ChannelOpen(d)
  /\ CallbackEnds(d, FALSE)
  /\ AmqpSettle(d, "requeue")
  /\ UNCHANGED <<adapter, autoGroup, published, forgotten, consumer, channel, queue>>

\* The channel's unsettled events go back to the queue.  A queue of a generated
\* group ends with its only consumer.
ChannelCloses(p) ==
  /\ unacked' = [unacked EXCEPT ![p] = {}]
  /\ IF autoGroup
     THEN /\ queue' = FALSE /\ ready' = {}
          /\ gone' = gone \cup ready \cup unacked[p]
          /\ forgotten' = forgotten \cup ready \cup unacked[p]
     ELSE /\ ready' = ready \cup unacked[p]
          /\ UNCHANGED <<queue, brokerVars>>

\* It rejects after it has settled: the second settlement makes the broker close
\* the channel, and the subscription has no consumer any more.
AmqpSettledTwice(d) ==
  /\ d.settled # "no" /\ ChannelOpen(d)
  /\ CallbackEnds(d, FALSE)
  /\ ChannelCloses(d.process)
  /\ consumer' = [consumer EXCEPT ![d.process] = "dead"]
  /\ UNCHANGED <<adapter, autoGroup, published, channel>>

\* It rejects when the channel is closed: nack() throws in the catch handler, a
\* rejection nobody handles, which by default ends a Node process.
AmqpRejectsLate(d) ==
  /\ ~ ChannelOpen(d)
  /\ CallbackEnds(d, FALSE)
  /\ UNCHANGED <<adapter, autoGroup, published, brokerVars, amqpVars>>

\* The connection is lost.
AmqpLost(p) ==
  /\ consumer[p] = "consuming"
  /\ consumer' = [consumer EXCEPT ![p] = "lost"]
  /\ ChannelCloses(p)
  /\ UNCHANGED <<adapter, autoGroup, published, deliveryVars, channel>>

\* unsubscribe(): cancels the consumer, then closes the channel (and deletes the
\* queue of a generated group), without waiting for the callbacks.
AmqpCancel(p) ==
  /\ consumer[p] = "consuming"
  /\ consumer' = [consumer EXCEPT ![p] = "cancelled"]
  /\ UNCHANGED <<sharedVars, channel, queue, ready, unacked>>

AmqpUnsubscribed(p) ==
  /\ consumer[p] = "cancelled"
  /\ consumer' = [consumer EXCEPT ![p] = "closed"]
  /\ ChannelCloses(p)
  /\ UNCHANGED <<adapter, autoGroup, published, deliveryVars, channel>>

AmqpCrash(p) ==
  /\ consumer[p] \notin {"none", "crashed"}
  /\ consumer' = [consumer EXCEPT ![p] = "crashed"]
  /\ CallbacksDie(p)
  /\ ChannelCloses(p)
  /\ UNCHANGED <<adapter, autoGroup, published, channel>>

AmqpNext ==
  \/ AmqpPublish
  \/ \E p \in Process :
       \/ AmqpConsume(p) \/ AmqpLost(p) \/ AmqpCancel(p) \/ AmqpUnsubscribed(p) \/ AmqpCrash(p)
       \/ \E e \in Event : AmqpDeliver(p, e) \/ AmqpUndecodable(p, e)
  \/ \E d \in running, what \in Settlement : AmqpCallbackSettles(d, what)
  \/ \E d \in running :
       AmqpCallbackResolves(d) \/ AmqpCallbackRejects(d) \/ AmqpSettledTwice(d) \/ AmqpRejectsLate(d)
=============================================================================
