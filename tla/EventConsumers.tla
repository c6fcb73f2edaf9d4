--------------------------- MODULE EventConsumers ---------------------------
(***************************************************************************)
(* A group of processes that consume through one of the broker adapters,   *)
(* and what each adapter promises the event bus.                           *)
(***************************************************************************)
EXTENDS RedisConsumer, NatsConsumer, KafkaConsumer, AmqpConsumer

CONSTANT Adapters  \* the adapters to consider

ASSUME AdaptersAssumption == Adapters \subseteq {"redis", "nats", "kafka", "amqp"}

vars == <<sharedVars, redisVars, natsVars, kafkaVars, amqpVars>>

Init ==
  /\ adapter \in Adapters
  /\ DeliveryInit
  /\ RedisInit /\ NatsInit /\ KafkaInit /\ AmqpInit

Next ==
  \/ adapter = "redis" /\ RedisNext /\ UNCHANGED <<natsVars, kafkaVars, amqpVars>>
  \/ adapter = "nats" /\ NatsNext /\ UNCHANGED <<redisVars, kafkaVars, amqpVars>>
  \/ adapter = "kafka" /\ KafkaNext /\ UNCHANGED <<redisVars, natsVars, amqpVars>>
  \/ adapter = "amqp" /\ AmqpNext /\ UNCHANGED <<redisVars, natsVars, kafkaVars>>

Spec == Init /\ [][Next]_vars

-----------------------------------------------------------------------------
(* Properties *)

\* The events that are not the group's any more without an acknowledgement: Kafka
\* begins at the end of the log until an offset is committed, and goes behind a
\* message that failed to the end of its batch; JetStream gives an event up after
\* max_deliver deliveries.
GivenUp == 1..start \cup abandoned \cup {e \in Event : deliveries[e] = MaxDeliver}

\* An event leaves the group only after a callback has acked it or given it up, or
\* when the broker gives it up as above: crashes, failing acks, lost replies,
\* rebalances, reclaims and channels closed under a callback lose nothing.  Events
\* are dropped only with the consumers of a generated group, and by a subscribe()
\* that fails half way only those of the patterns it deleted the consumers of.
AtLeastOnce ==
  /\ gone \subseteq finished \cup forgotten \cup GivenUp
  /\ autoGroup \/ forgotten \subseteq PatternEvents(rolledBack)

\* Kafka: while a message is in the callback, each message before it is finished,
\* or failed, or was behind a failed one in a batch: nothing but the end of a batch
\* that a failure has stopped goes past an unfinished message, also across
\* rebalances and crashes.
OnlyFailedOvertaken ==
  adapter = "kafka" => \A d \in running : (start + 1 .. d.event - 1) \subseteq finished \cup abandoned

\* "Stop processing, retry from this offset" (KafkaAdapter.ts): while a message is in
\* the callback, all messages before it are finished.  Violated: a message that was
\* nacked, or whose callback failed, is overtaken.
PartitionOrder ==
  adapter = "kafka" => \A d \in running : (start + 1 .. d.event - 1) \subseteq finished

\* Redis: when unsubscribe() has resolved, no callback of the subscription runs or
\* will run.
QuietWhenUnsubscribed ==
  \A p \in Process : unsubscribed[p] = "done" => Running(p) = {} /\ batch[p] = {}
=============================================================================
