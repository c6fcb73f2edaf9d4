--------------------------- MODULE KafkaConsumer ---------------------------
(***************************************************************************)
(* The consuming side of packages/events-kafka/src/KafkaAdapter.ts for one *)
(* partition: eachBatch with its acks and nacks.  KafkaJS (external)       *)
(* fetches batches from the position it has resolved, the broker gives the *)
(* partition to one member of the group at a time, which starts from the   *)
(* committed offset, or from the end without one (fromBeginning unset).    *)
(* When eachBatch returns without an error KafkaJS resolves the whole      *)
(* batch: the adapter leaves its option eachBatchAutoResolve at true.      *)
(***************************************************************************)
EXTENDS EventDelivery

CONSTANT MaxBatch  \* bound: messages per batch

ASSUME MaxBatchAssumption == MaxBatch \in Nat \ {0}

VARIABLES
  owner,      \* broker: the members that own the partition, one or none
  committed,  \* broker: the committed offset, NoOffset without one
  start,      \* history: the end of the log at the last assignment without an offset
  abandoned,  \* history: of each batch that a failure has stopped, the messages from it on
  resolved,   \* resolved[p]: the last message KafkaJS has resolved in p
  messages    \* messages[p]: the messages of the batch eachBatch has not got to

kafkaVars == <<owner, committed, start, abandoned, resolved, messages>>

NoOffset == MaxEvents + 1

KafkaInit ==
  /\ owner = {}
  /\ committed = NoOffset
  /\ start = 0 /\ abandoned = {}
  /\ resolved = [p \in Process |-> 0]
  /\ messages = [p \in Process |-> <<>>]

KafkaPublish == Published /\ UNCHANGED <<adapter, autoGroup, deliveryVars, brokerVars, kafkaVars>>

\* A process joins, or gets the partition in a rebalance.  Until the group has
\* committed an offset each assignment is at the end of the log.
KafkaAssign(p) ==
  /\ p \in Members /\ owner = {} /\ messages[p] = <<>> /\ Running(p) = {}
  /\ owner' = {p}
  /\ resolved' = [resolved EXCEPT ![p] = IF committed = NoOffset THEN published ELSE committed]
  /\ start' = IF committed = NoOffset THEN published ELSE start
  /\ gone' = IF committed = NoOffset THEN gone \cup 1..published ELSE gone
  /\ UNCHANGED <<adapter, autoGroup, published, deliveryVars, forgotten, committed, abandoned, messages>>

\* The member leaves, or its session ends while it is still working on a batch.
KafkaRevoke(p) ==
  /\ p \in owner
  /\ owner' = {}
  /\ UNCHANGED <<sharedVars, committed, start, abandoned, resolved, messages>>

KafkaFetch(p) ==
  /\ p \in owner /\ messages[p] = <<>> /\ Running(p) = {}
  /\ \E n \in 1..MaxBatch :
       /\ resolved[p] + n <= published
       /\ messages' = [messages EXCEPT ![p] = [i \in 1..n |-> resolved[p] + i]]
  /\ UNCHANGED <<sharedVars, owner, committed, start, abandoned, resolved>>

\* eachBatch hands the next message to the callback and waits for it.
EachMessage(p) ==
  /\ messages[p] # <<>> /\ Running(p) = {}
  /\ StartCallback(NewDelivery(p, Head(messages[p]), messages[p][Len(messages[p])]))
  /\ messages' = [messages EXCEPT ![p] = Tail(@)]
  /\ UNCHANGED <<adapter, autoGroup, published, brokerVars, owner, committed, start, abandoned,
                 resolved>>

\* commitOffsetsIfNecessary(): commits what is resolved, if KafkaJS finds it
\* necessary and the process still owns the partition.
Commit(p) ==
  \/ UNCHANGED <<committed, gone>>
  \/ /\ p \in owner
     /\ committed' = resolved'[p]
     /\ gone' = gone \cup (start + 1 .. resolved'[p])

\* ack() and nack(false) resolve the message; nack(true) only stops the batch.
KafkaSettle(d, what) ==
  IF what \in {"ack", "drop"}
  THEN resolved' = [resolved EXCEPT ![d.process] = d.event] /\ Commit(d.process)
  ELSE UNCHANGED <<resolved, committed, gone>>

KafkaCallbackSettles(d, what) ==
  /\ CallbackSettles(d, what)
  /\ KafkaSettle(d, what)
  /\ UNCHANGED <<adapter, autoGroup, published, forgotten, owner, start, abandoned, messages>>

\* Variation: a nacked message does not stop the batch.
StopsBatchOnError(d, resolves) == ~ resolves

\* A callback that rejects, or has nacked its message, stops the batch.
StopsBatch(d, resolves) == ~ resolves \/ d.settled = "requeued"

\* The end of a callback; eachBatch returns at a stop or after the last message, and
\* KafkaJS then resolves the batch to its end, whatever stopped it.
KafkaCallbackEnds(d, resolves) ==
  LET p == d.process
      ends == StopsBatch(d, resolves) \/ messages[p] = <<>>
      acked == AtEnd(d, resolves) = "ack"
  IN
  /\ CallbackEnds(d, resolves)
  /\ resolved' = [resolved EXCEPT ![p] = IF ends THEN d.via ELSE IF acked THEN d.event ELSE @]
  /\ IF acked THEN Commit(p) ELSE UNCHANGED <<committed, gone>>
  /\ messages' = [messages EXCEPT ![p] = IF ends THEN <<>> ELSE @]
  /\ abandoned' = IF StopsBatch(d, resolves) THEN abandoned \cup d.event..d.via ELSE abandoned
  /\ UNCHANGED <<adapter, autoGroup, published, forgotten, owner, start>>

\* heartbeat() throws after a rebalance, and with it eachBatch.
HeartbeatFails(p) ==
  /\ p \notin owner /\ messages[p] # <<>> /\ Running(p) = {}
  /\ messages' = [messages EXCEPT ![p] = <<>>]
  /\ UNCHANGED <<sharedVars, owner, committed, start, abandoned, resolved>>

KafkaCrash(p) ==
  /\ p \in owner \/ messages[p] # <<>> \/ Running(p) # {}
  /\ owner' = owner \ {p}
  /\ messages' = [messages EXCEPT ![p] = <<>>]
  /\ CallbacksDie(p)
  /\ UNCHANGED <<adapter, autoGroup, published, brokerVars, committed, start, abandoned, resolved>>

KafkaNext ==
  \/ KafkaPublish
  \/ \E p \in Process :
       KafkaAssign(p) \/ KafkaRevoke(p) \/ KafkaFetch(p) \/ EachMessage(p) \/ HeartbeatFails(p) \/ KafkaCrash(p)
  \/ \E d \in running, what \in Settlement : KafkaCallbackSettles(d, what)
  \/ \E d \in running, resolves \in BOOLEAN : KafkaCallbackEnds(d, resolves)
=============================================================================
