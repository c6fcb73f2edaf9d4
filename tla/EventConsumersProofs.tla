------------------------ MODULE EventConsumersProofs ------------------------
(***************************************************************************)
(* Proofs about EventConsumers, for every set of processes, any number of  *)
(* events and every limit of the adapters: nothing is lost between the     *)
(* broker and the callbacks, Kafka's partitions keep their order, and      *)
(* Redis's unsubscribe() leaves nothing behind.                            *)
(***************************************************************************)
EXTENDS EventConsumers, TLAPS

-----------------------------------------------------------------------------
(* The inductive invariant *)

Shape(d) == d = [process |-> d.process, event |-> d.event, via |-> d.via, settled |-> d.settled]

\* The loop of a process has one callback at a time.
OneAtATime == \A c, d \in running : c.process = d.process => c = d

\* Redis: only a loop that processes entries has entries and callbacks.
RedisMeaning ==
  /\ OneAtATime
  /\ DOMAIN loop = Process /\ DOMAIN batch = Process /\ DOMAIN unsubscribed = Process
  /\ \A d \in running : d.process \in Process
  /\ \A p \in Process : loop[p] \notin {"fresh", "reclaimed"} => Running(p) = {} /\ batch[p] = {}
  /\ \A p \in Process : unsubscribed[p] = "done" => loop[p] \in {"ended", "crashed"}

\* NATS: what JetStream will deliver was not delivered max_deliver times.
NatsMeaning ==
  /\ published \in Nat
  /\ deliveries \in [Event -> Nat]
  /\ \A e \in Event : deliveries[e] <= MaxDeliver /\ (e > published => deliveries[e] = 0)
  /\ \A e \in waiting : e \in Event /\ e <= published /\ deliveries[e] < MaxDeliver
  /\ \A e \in awaiting : e \in Event /\ e <= published

Between(s, e) == s + 1 .. e - 1

\* The messages a position of Kafka may be behind.
Passed == finished \cup abandoned

KafkaTyped ==
  /\ OneAtATime
  /\ published \in Nat /\ start \in 0..published /\ committed \in Nat
  /\ resolved \in [Process -> Nat] /\ messages \in [Process -> Seq(Nat)]
  /\ \A d \in running : /\ d.process \in Process /\ d.event \in Nat /\ d.via \in Nat
                        /\ d.settled \in {"no", "finished", "requeued"}

\* Everything up to the committed offset, and to the positions of the processes,
\* is finished, or failed or behind a failure in its batch.
PositionsFinished ==
  /\ committed # NoOffset => Between(start, committed + 1) \subseteq Passed
  /\ \A p \in Process : Between(start, resolved[p] + 1) \subseteq Passed

\* A batch has no gaps, goes on behind the message in the callback, and ends at the
\* position KafkaJS resolves.
BatchesInOrder ==
  /\ \A p \in Process : \A i \in 1..Len(messages[p]) : messages[p][i] = messages[p][1] + i - 1
  /\ \A p \in Process : messages[p] # <<>> /\ Running(p) = {} => Between(start, messages[p][1]) \subseteq Passed
  /\ \A d \in running : messages[d.process] # <<>> => messages[d.process][1] = d.event + 1
  /\ \A d \in running : messages[d.process] = <<>> => d.via = d.event

\* So is everything before the message in a callback.
CallbacksInOrder ==
  \A d \in running : /\ Between(start, d.event) \subseteq Passed
                     /\ d.settled = "finished" => d.event \in finished

KafkaMeaning == KafkaTyped /\ PositionsFinished /\ BatchesInOrder /\ CallbacksInOrder

ConsumersIInv ==
  /\ AtLeastOnce
  /\ \A d \in running : Shape(d)
  /\ adapter = "redis" => RedisMeaning
  /\ adapter # "redis" => \A p \in Process : unsubscribed[p] = "no"
  /\ adapter = "nats" => NatsMeaning
  /\ adapter = "kafka" => KafkaMeaning

-----------------------------------------------------------------------------
(* What the callbacks do *)

LEMMA ConsumersInit == Init => ConsumersIInv
  <1> SUFFICES ASSUME Init PROVE ConsumersIInv
    OBVIOUS
  <1> USE DEF Init, DeliveryInit, RedisInit, NatsInit, KafkaInit
  <1>1. AtLeastOnce /\ \A d \in running : Shape(d)
    BY DEF AtLeastOnce
  <1>2. RedisMeaning /\ \A p \in Process : unsubscribed[p] = "no"
    BY DEF RedisMeaning, OneAtATime, Running
  <1>3. NatsMeaning
    BY MaxDeliverAssumption DEF NatsMeaning, Event
  <1>4. KafkaMeaning
    <2>1. MaxEvents + 1 \in Nat
      BY MaxEventsAssumption
    <2> QED BY <2>1 DEF KafkaMeaning, KafkaTyped, PositionsFinished, BatchesInOrder, CallbacksInOrder,
                       OneAtATime, Between, NoOffset, Passed
  <1> QED BY <1>1, <1>2, <1>3, <1>4 DEF ConsumersIInv

\* A step that drops from the group only what is finished, forgotten or given up.
LEMMA NothingLost ==
  ASSUME AtLeastOnce,
         finished \subseteq finished', forgotten \subseteq forgotten',
         UNCHANGED <<deliveries, start, abandoned>>,
         gone' \subseteq gone \cup finished' \cup forgotten',
         forgotten' = forgotten \/ autoGroup' \/ forgotten' \subseteq forgotten \cup PatternEvents(rolledBack'),
         autoGroup' = autoGroup, rolledBack \subseteq rolledBack'
  PROVE  AtLeastOnce'
  BY DEF AtLeastOnce, GivenUp, PatternEvents

\* A new delivery has its fields.
LEMMA NewIsShaped ==
  ASSUME NEW p, NEW e, NEW v
  PROVE  LET d == NewDelivery(p, e, v) IN
         Shape(d) /\ d.process = p /\ d.event = e /\ d.via = v /\ d.settled = "no"
  BY DEF NewDelivery, Shape

\* ack() and nack() change the settlement of one delivery, and finish its event
\* unless they requeue it.
LEMMA SettlesEffect ==
  ASSUME NEW d, NEW what \in Settlement, CallbackSettles(d, what), \A c \in running : Shape(c)
  PROVE  \E n :
           /\ d \in running /\ d.settled = "no"
           /\ running' = (running \ {d}) \cup {n}
           /\ Shape(n) /\ n.process = d.process /\ n.event = d.event /\ n.via = d.via
           /\ n.settled = Outcome(what)
           /\ finished' = (IF what = "requeue" THEN finished ELSE finished \cup {d.event})
           /\ \A c \in running' : Shape(c)
  <1> DEFINE n == [d EXCEPT !.settled = Outcome(what)]
  <1>1. /\ d \in running /\ d.settled = "no" /\ running' = (running \ {d}) \cup {n}
        /\ finished' = IF what = "requeue" THEN finished ELSE finished \cup {d.event}
    BY DEF CallbackSettles, Finish, Settlement
  <1>2. n = [process |-> d.process, event |-> d.event, via |-> d.via, settled |-> Outcome(what)]
    BY <1>1 DEF Shape
  <1> HIDE DEF n
  <1>3. Shape(n) /\ n.process = d.process /\ n.event = d.event /\ n.via = d.via /\ n.settled = Outcome(what)
    BY <1>2 DEF Shape
  <1> QED BY <1>1, <1>3

\* The end of a callback takes its delivery away, and finishes its event if it is
\* acked at the end.
LEMMA EndsEffect ==
  ASSUME NEW d, NEW resolves \in BOOLEAN, CallbackEnds(d, resolves)
  PROVE  /\ d \in running /\ running' = running \ {d}
         /\ AtEnd(d, resolves) \in {"ack", "none"}
         /\ finished' = IF AtEnd(d, resolves) = "ack" THEN finished \cup {d.event} ELSE finished
  BY DEF CallbackEnds, AtEnd, Finish

LEMMA DieEffect ==
  ASSUME NEW p, CallbacksDie(p)
  PROVE  running' \subseteq running /\ finished' = finished /\ \A d \in running' : d.process # p
  BY DEF CallbacksDie, Running

-----------------------------------------------------------------------------
(* Redis *)

LEMMA RedisStep ==
  ASSUME ConsumersIInv, adapter = "redis", RedisNext, UNCHANGED <<natsVars, kafkaVars, amqpVars>>
  PROVE  ConsumersIInv'
  <1>0. /\ AtLeastOnce /\ RedisMeaning /\ \A d \in running : Shape(d)
        /\ UNCHANGED <<deliveries, rolledBack, start, abandoned>>
    BY DEF ConsumersIInv, natsVars, natsJetStream, kafkaVars
  <1> SUFFICES /\ AtLeastOnce' /\ RedisMeaning' /\ \A d \in running' : Shape(d)
               /\ adapter' = "redis"
    BY DEF ConsumersIInv
  \* The steps that leave the callbacks and what is known of them alone.
  <1> DEFINE Still == UNCHANGED <<adapter, autoGroup, running, finished, gone, forgotten>>
  <1>1. ASSUME Still PROVE AtLeastOnce' /\ (\A d \in running' : Shape(d)) /\ adapter' = "redis"
    BY <1>0, <1>1, NothingLost
  <1>2. ASSUME Still, UNCHANGED <<loop, batch, unsubscribed>> PROVE RedisMeaning'
    BY <1>0, <1>2 DEF RedisMeaning, OneAtATime, Running
  <1>3. CASE RedisPublish
    BY <1>1, <1>2, <1>3 DEF RedisPublish, deliveryVars, brokerVars, redisVars, loopVars
  <1>4. ASSUME NEW p \in Process, RedisSubscribe(p) \/ RedisLoop(p) \/ RedisUnsubscribe(p) \/ RedisUnsubscribed(p)
        PROVE  AtLeastOnce' /\ RedisMeaning' /\ (\A d \in running' : Shape(d)) /\ adapter' = "redis"
    <2>1. CASE RedisSubscribe(p)
      <3>1. Still /\ UNCHANGED <<batch, unsubscribed>> /\ loop' = [loop EXCEPT ![p] = "top"] /\ loop[p] = "none"
        BY <2>1 DEF RedisSubscribe, sharedVars, Goto
      <3>2. RedisMeaning'
        BY <1>0, <3>1 DEF RedisMeaning, OneAtATime, Running
      <3> QED BY <1>1, <3>1, <3>2
    <2>2. CASE LoopTop(p) \/ ReclaimFails(p) \/ ReadReplyLost(p) \/ ReadNothing(p)
      <3>1. /\ Still /\ UNCHANGED <<batch, unsubscribed>>
            /\ loop[p] \in {"top", "reclaim", "read"}
            /\ \E label \in {"reclaim", "read", "top", "ended"} : loop' = [loop EXCEPT ![p] = label]
        BY <2>2 DEF LoopTop, ReclaimFails, ReadReplyLost, ReadNothing, sharedVars, Goto
      <3>2. RedisMeaning'
        BY <1>0, <3>1 DEF RedisMeaning, OneAtATime, Running
      <3> QED BY <1>1, <3>1, <3>2
    <2>3. CASE Reclaim(p) \/ Read(p)
      <3>1. /\ Still /\ UNCHANGED unsubscribed
            /\ loop[p] \in {"reclaim", "read"}
            /\ \E new : batch' = [batch EXCEPT ![p] = new]
            /\ \E label \in {"reclaimed", "read", "fresh"} :
                 loop' = [loop EXCEPT ![p] = label] /\ (label = "read" => batch'[p] = {})
        <4>1. CASE Reclaim(p)
          <5>1. PICK idle \in SUBSET pel : Claim(p, idle)
            BY <4>1 DEF Reclaim
          <5> QED BY <5>1 DEF Claim, sharedVars, Goto
        <4>2. CASE Read(p)
          BY <4>2 DEF Read, sharedVars, Goto
        <4> QED BY <2>3, <4>1, <4>2
      <3>2. RedisMeaning'
        BY <1>0, <3>1 DEF RedisMeaning, OneAtATime, Running
      <3> QED BY <1>1, <3>1, <3>2
    <2>4. CASE ProcessEntry(p)
      <3>1. /\ UNCHANGED <<adapter, autoGroup, gone, forgotten, unsubscribed>>
            /\ loop[p] \in {"fresh", "reclaimed"} /\ Running(p) = {}
        BY <2>4 DEF ProcessEntry, brokerVars
      <3>2. CASE loop[p] = "reclaimed" /\ ~ subscriptionRunning[p]
        <4>1. UNCHANGED <<running, finished>> /\ batch' = [batch EXCEPT ![p] = {}] /\ loop' = [loop EXCEPT ![p] = "read"]
          BY <2>4, <3>2 DEF ProcessEntry, Goto, deliveryVars
        <4>2. RedisMeaning'
          BY <1>0, <3>1, <4>1 DEF RedisMeaning, OneAtATime, Running
        <4> QED BY <1>1, <3>1, <4>1, <4>2
      <3>3. CASE ~ (loop[p] = "reclaimed" /\ ~ subscriptionRunning[p])
        <4> DEFINE d == NewDelivery(p, First(batch[p]), loop[p])
        <4>1. running' = running \cup {d} /\ finished' = finished /\ loop' = loop
              /\ \E rest : batch' = [batch EXCEPT ![p] = rest]
          BY <2>4, <3>3 DEF ProcessEntry, StartCallback
        <4>2. Shape(d) /\ d.process = p
          BY NewIsShaped
        <4> HIDE DEF d
        <4>3. AtLeastOnce'
          BY <1>0, <3>1, <4>1, NothingLost
        <4>4. \A c \in running : c.process # p
          BY <3>1 DEF Running
        <4>5. OneAtATime'
          BY <1>0, <4>1, <4>2, <4>4 DEF RedisMeaning, OneAtATime
        <4>6. RedisMeaning'
          BY <1>0, <3>1, <4>1, <4>2, <4>5 DEF RedisMeaning, Running
        <4> QED BY <1>0, <3>1, <4>1, <4>2, <4>3, <4>6
      <3> QED BY <3>2, <3>3
    <2>5. CASE RedisUnsubscribe(p)
      <3>1. Still /\ UNCHANGED <<loop, batch>> /\ unsubscribed' = [unsubscribed EXCEPT ![p] = "waiting"]
        BY <2>5 DEF RedisUnsubscribe, sharedVars
      <3>2. RedisMeaning'
        BY <1>0, <3>1 DEF RedisMeaning, OneAtATime, Running
      <3> QED BY <1>1, <3>1, <3>2
    <2>6. CASE RedisUnsubscribed(p)
      <3>1. Still /\ UNCHANGED <<loop, batch>> /\ unsubscribed' = [unsubscribed EXCEPT ![p] = "done"] /\ loop[p] = "ended"
        BY <2>6 DEF RedisUnsubscribed, sharedVars
      <3>2. RedisMeaning'
        BY <1>0, <3>1 DEF RedisMeaning, OneAtATime, Running
      <3> QED BY <1>1, <3>1, <3>2
    <2> QED BY <1>4, <2>1, <2>2, <2>3, <2>4, <2>5, <2>6 DEF RedisLoop
  <1>5. ASSUME NEW p \in Process, RedisCrash(p)
        PROVE  AtLeastOnce' /\ RedisMeaning' /\ (\A d \in running' : Shape(d)) /\ adapter' = "redis"
    <2>1. /\ UNCHANGED <<adapter, autoGroup, gone, forgotten, unsubscribed>>
          /\ loop' = [loop EXCEPT ![p] = "crashed"] /\ batch' = [batch EXCEPT ![p] = {}]
      BY <1>5 DEF RedisCrash, brokerVars, Goto
    <2>2. running' \subseteq running /\ finished' = finished /\ \A d \in running' : d.process # p
      BY <1>5, DieEffect DEF RedisCrash
    <2>3. AtLeastOnce'
      BY <1>0, <2>1, <2>2, NothingLost
    <2>4. RedisMeaning'
      BY <1>0, <2>1, <2>2 DEF RedisMeaning, OneAtATime, Running
    <2> QED BY <1>0, <2>1, <2>2, <2>3, <2>4
  <1>6. ASSUME NEW d \in running, NEW what \in Settlement, RedisCallbackSettles(d, what)
        PROVE  AtLeastOnce' /\ RedisMeaning' /\ (\A c \in running' : Shape(c)) /\ adapter' = "redis"
    <2>1. UNCHANGED <<adapter, autoGroup, forgotten, loop, batch, unsubscribed>>
      BY <1>6 DEF RedisCallbackSettles, loopVars
    <2>2. CallbackSettles(d, what)
      BY <1>6 DEF RedisCallbackSettles
    <2>3. PICK n :
           /\ d \in running /\ d.settled = "no"
           /\ running' = (running \ {d}) \cup {n}
           /\ Shape(n) /\ n.process = d.process /\ n.event = d.event /\ n.via = d.via
           /\ n.settled = Outcome(what)
           /\ finished' = (IF what = "requeue" THEN finished ELSE finished \cup {d.event})
           /\ \A c \in running' : Shape(c)
      BY <1>0, <2>2, SettlesEffect
    <2>4. gone' \subseteq gone \cup finished'
      BY <1>6, <2>3 DEF RedisCallbackSettles, RedisSettle
    <2>5. AtLeastOnce'
      BY <1>0, <2>1, <2>3, <2>4, NothingLost
    <2>6. RedisMeaning'
      BY <1>0, <2>1, <2>3 DEF RedisMeaning, OneAtATime, Running
    <2> QED BY <2>1, <2>3, <2>5, <2>6
  <1>7. ASSUME NEW d \in running, NEW resolves \in BOOLEAN, RedisCallbackEnds(d, resolves)
        PROVE  AtLeastOnce' /\ RedisMeaning' /\ (\A c \in running' : Shape(c)) /\ adapter' = "redis"
    <2> DEFINE p == d.process
    <2>1. UNCHANGED <<adapter, autoGroup, forgotten, unsubscribed>>
      BY <1>7 DEF RedisCallbackEnds
    <2>2. /\ running' = running \ {d}
          /\ finished' = IF AtEnd(d, resolves) = "ack" THEN finished \cup {d.event} ELSE finished
          /\ AtEnd(d, resolves) \in {"ack", "none"}
      BY <1>7, EndsEffect DEF RedisCallbackEnds
    <2>3. gone' \subseteq gone \cup finished'
      BY <1>7, <2>2 DEF RedisCallbackEnds, RedisSettle
    <2>4. AtLeastOnce'
      BY <1>0, <2>1, <2>2, <2>3, NothingLost
    <2>5. p \in Process /\ loop[p] \in {"fresh", "reclaimed"} /\ unsubscribed[p] # "done"
      BY <1>0 DEF RedisMeaning, Running
    <2>6. /\ \E rest : batch' = [batch EXCEPT ![p] = rest]
          /\ \E label \in {"read", "top", "fresh", "reclaimed"} :
               loop' = [loop EXCEPT ![p] = label] /\ (label \in {"read", "top"} => batch'[p] = {})
      <3> DEFINE label == IF batch'[p] # {} THEN loop[p] ELSE IF d.via = "reclaimed" THEN "read" ELSE "top"
      <3>1. \E rest : batch' = [batch EXCEPT ![p] = rest]
        BY <1>7 DEF RedisCallbackEnds
      <3>2. loop' = [loop EXCEPT ![p] = label]
        BY <1>7 DEF RedisCallbackEnds, Goto
      <3>3. label \in {"read", "top", "fresh", "reclaimed"} /\ (label \in {"read", "top"} => batch'[p] = {})
        BY <2>5
      <3> HIDE DEF label
      <3> QED BY <3>1, <3>2, <3>3
    <2>7. \A c \in running' : c.process # p
      BY <1>0, <2>2 DEF RedisMeaning, OneAtATime
    <2>8. RedisMeaning'
      <3>1. OneAtATime' /\ \A c \in running' : c.process \in Process
        BY <1>0, <2>2 DEF RedisMeaning, OneAtATime
      <3>2. DOMAIN loop' = Process /\ DOMAIN batch' = Process /\ DOMAIN unsubscribed' = Process
        BY <1>0, <2>1, <2>6 DEF RedisMeaning
      <3>3. ASSUME NEW q \in Process, loop'[q] \notin {"fresh", "reclaimed"}
            PROVE  Running(q)' = {} /\ batch'[q] = {}
        <4>1. CASE q = p
          BY <1>0, <2>5, <2>6, <2>7, <3>3, <4>1 DEF RedisMeaning, Running
        <4>2. CASE q # p
          <5>1. loop'[q] = loop[q] /\ batch'[q] = batch[q]
            BY <1>0, <2>6, <4>2 DEF RedisMeaning
          <5> QED BY <1>0, <2>2, <3>3, <5>1 DEF RedisMeaning, Running
        <4> QED BY <4>1, <4>2
      <3>4. ASSUME NEW q \in Process, unsubscribed'[q] = "done" PROVE loop'[q] \in {"ended", "crashed"}
        BY <1>0, <2>1, <2>5, <2>6, <3>4 DEF RedisMeaning
      <3> QED BY <3>1, <3>2, <3>3, <3>4 DEF RedisMeaning
    <2> QED BY <1>0, <2>1, <2>2, <2>4, <2>8
  <1> QED BY <1>3, <1>4, <1>5, <1>6, <1>7 DEF RedisNext

-----------------------------------------------------------------------------
(* NATS *)

\* An event is delivered again, or it was delivered max_deliver times.
LEMMA RedeliverKeeps ==
  ASSUME NatsMeaning, NEW e \in awaiting, Redeliver(e)
  PROVE  /\ e \in Event /\ e <= published
         /\ waiting' \subseteq waiting \cup {e} /\ awaiting' \subseteq awaiting
         /\ e \in waiting' => e \in waiting \/ deliveries[e] < MaxDeliver
         /\ gone' \subseteq gone \cup {x \in Event : deliveries[x] = MaxDeliver}
  <1>1. e \in Event /\ e <= published /\ deliveries[e] \in Nat /\ deliveries[e] <= MaxDeliver
    BY DEF NatsMeaning
  <1>2. ~ (deliveries[e] < MaxDeliver) => deliveries[e] = MaxDeliver
    BY <1>1, MaxDeliverAssumption
  <1> QED BY <1>1, <1>2 DEF Redeliver

\* A reply takes only a finished event away, and a nak may deliver it again.
LEMMA ReplyKeeps ==
  ASSUME NatsMeaning, NEW e, NEW what, NatsReply(e, what)
  PROVE  /\ waiting' \subseteq waiting \cup awaiting /\ awaiting' \subseteq awaiting
         /\ \A x \in waiting' : x \in waiting \/ deliveries[x] < MaxDeliver
         /\ gone' \subseteq gone \cup {x \in Event : deliveries[x] = MaxDeliver} \cup
                              (IF what \in {"ack", "drop"} THEN {e} ELSE {})
  <1>1. CASE UNCHANGED <<waiting, awaiting, gone>>
    BY <1>1
  <1>2. CASE /\ what \in {"ack", "drop"} /\ e \in waiting \cup awaiting
             /\ waiting' = waiting \ {e} /\ awaiting' = awaiting \ {e} /\ gone' = gone \cup {e}
    BY <1>2
  <1>3. CASE what = "requeue" /\ e \in awaiting /\ Redeliver(e)
    BY <1>3, RedeliverKeeps
  <1> QED BY <1>1, <1>2, <1>3 DEF NatsReply

\* The steps that deliver nothing new.
LEMMA NatsKeeps ==
  ASSUME NatsMeaning, UNCHANGED <<published, deliveries>>,
         waiting' \subseteq waiting \cup awaiting, awaiting' \subseteq awaiting,
         \A x \in waiting' : x \in waiting \/ deliveries[x] < MaxDeliver
  PROVE  NatsMeaning'
  BY DEF NatsMeaning, Event

LEMMA NatsNothingLost ==
  ASSUME AtLeastOnce, finished \subseteq finished',
         UNCHANGED <<forgotten, deliveries, start, abandoned, autoGroup, rolledBack>>,
         gone' \subseteq gone \cup finished' \cup {x \in Event : deliveries[x] = MaxDeliver}
  PROVE  AtLeastOnce'
  BY DEF AtLeastOnce, GivenUp, Event

LEMMA NatsStep ==
  ASSUME ConsumersIInv, adapter = "nats", NatsNext, UNCHANGED <<redisVars, kafkaVars, amqpVars>>
  PROVE  ConsumersIInv'
  <1>0. /\ AtLeastOnce /\ NatsMeaning /\ (\A d \in running : Shape(d))
        /\ UNCHANGED <<unsubscribed, start, abandoned>> /\ \A p \in Process : unsubscribed[p] = "no"
    BY DEF ConsumersIInv, redisVars, loopVars, kafkaVars
  <1> SUFFICES /\ AtLeastOnce' /\ NatsMeaning' /\ \A d \in running' : Shape(d)
               /\ adapter' = "nats"
    BY <1>0 DEF ConsumersIInv
  <1> DEFINE Still == UNCHANGED <<adapter, autoGroup, published, running, finished, deliveries>>
  <1>1. CASE NatsPublish
    <2>1. UNCHANGED <<adapter, autoGroup, running, finished, gone, forgotten, deliveries, awaiting, rolledBack>>
      BY <1>1 DEF NatsPublish, deliveryVars, brokerVars
    <2>2. /\ published \in Nat /\ published < MaxEvents /\ published' = published + 1
          /\ waiting' \subseteq waiting \cup {published + 1}
      BY <1>0, <1>1 DEF NatsPublish, Published, NatsMeaning
    <2>3. AtLeastOnce'
      BY <1>0, <2>1, NothingLost
    <2>4. published + 1 \in Event /\ deliveries[published + 1] = 0 /\ 0 < MaxDeliver
      BY <1>0, <2>2, MaxEventsAssumption, MaxDeliverAssumption DEF NatsMeaning, Event
    <2>5. \A e \in Event : e \in Nat
      BY MaxEventsAssumption DEF Event
    <2>6. NatsMeaning'
      BY <1>0, <2>1, <2>2, <2>4, <2>5 DEF NatsMeaning, Event
    <2> QED BY <1>0, <2>1, <2>3, <2>6
  <1>2. ASSUME NEW p \in Process, NatsSubscribe(p) \/ NatsPattern(p) \/ NatsPatternFails(p) \/ NatsRollback(p)
        PROVE  AtLeastOnce' /\ NatsMeaning' /\ (\A d \in running' : Shape(d)) /\ adapter' = "nats"
    <2>1. Still /\ UNCHANGED <<gone, forgotten, waiting, awaiting, rolledBack>>
      BY <1>2 DEF NatsSubscribe, NatsPattern, NatsPatternFails, NatsRollback, sharedVars, natsJetStream
    <2>2. AtLeastOnce' /\ NatsMeaning'
      BY <1>0, <2>1, NothingLost, NatsKeeps
    <2> QED BY <1>0, <2>1, <2>2
  <1>3. ASSUME NEW p \in Process, NatsRolledBack(p) \/ NatsUnsubscribe(p)
        PROVE  AtLeastOnce' /\ NatsMeaning' /\ (\A d \in running' : Shape(d)) /\ adapter' = "nats"
    <2>1. Still
      BY <1>3 DEF NatsRolledBack, NatsUnsubscribe, deliveryVars
    <2>2. CASE DeleteDurables(p) /\ (autoGroup' \/ created[p] \subseteq rolledBack') /\ rolledBack \subseteq rolledBack'
      <3>1. /\ waiting' \subseteq waiting /\ awaiting' \subseteq awaiting
            /\ forgotten \subseteq forgotten' /\ gone' \subseteq gone \cup forgotten'
            /\ forgotten' \subseteq forgotten \cup PatternEvents(created[p])
        BY <2>2 DEF DeleteDurables
      <3>3. autoGroup' \/ forgotten' \subseteq forgotten \cup PatternEvents(rolledBack')
        BY <2>2, <3>1 DEF PatternEvents
      <3>2. AtLeastOnce' /\ NatsMeaning'
        BY <1>0, <2>1, <2>2, <3>1, <3>3, NothingLost, NatsKeeps
      <3> QED BY <1>0, <2>1, <3>2
    <2>3. CASE UNCHANGED <<gone, forgotten, waiting, awaiting, rolledBack>>
      <3>1. AtLeastOnce' /\ NatsMeaning'
        BY <1>0, <2>1, <2>3, NothingLost, NatsKeeps
      <3> QED BY <1>0, <2>1, <3>1
    <2> QED BY <1>3, <2>2, <2>3 DEF NatsRolledBack, NatsUnsubscribe, brokerVars
  <1>4. ASSUME NEW p \in Process, NatsCrash(p)
        PROVE  AtLeastOnce' /\ NatsMeaning' /\ (\A d \in running' : Shape(d)) /\ adapter' = "nats"
    <2>1. UNCHANGED <<adapter, autoGroup, published, gone, forgotten, waiting, awaiting, deliveries, rolledBack>>
      BY <1>4 DEF NatsCrash, brokerVars, natsJetStream
    <2>2. running' \subseteq running /\ finished' = finished
      BY <1>4, DieEffect DEF NatsCrash
    <2>3. AtLeastOnce' /\ NatsMeaning'
      BY <1>0, <2>1, <2>2, NothingLost, NatsKeeps
    <2> QED BY <1>0, <2>1, <2>2, <2>3
  <1>5. ASSUME NEW p \in Process, NEW e \in Event, NatsDeliver(p, e)
        PROVE  AtLeastOnce' /\ NatsMeaning' /\ (\A d \in running' : Shape(d)) /\ adapter' = "nats"
    <2> DEFINE d == NewDelivery(p, e, PatternOf[e])
    <2>1. /\ UNCHANGED <<adapter, autoGroup, published, gone, forgotten, rolledBack>>
          /\ e \in waiting /\ waiting' = waiting \ {e} /\ awaiting' = awaiting \cup {e}
          /\ deliveries' = [deliveries EXCEPT ![e] = @ + 1]
          /\ running' = running \cup {d} /\ finished' = finished
      BY <1>5 DEF NatsDeliver, brokerVars, StartCallback
    <2>2. Shape(d)
      BY NewIsShaped
    <2> HIDE DEF d
    <2>3. e <= published /\ deliveries[e] < MaxDeliver /\ deliveries[e] \in Nat /\ MaxDeliver \in Nat
      BY <1>0, <2>1, MaxDeliverAssumption DEF NatsMeaning
    <2>4. deliveries' \in [Event -> Nat] /\ deliveries'[e] = deliveries[e] + 1
          /\ \A x \in Event : x # e => deliveries'[x] = deliveries[x]
      BY <1>0, <2>1, <2>3 DEF NatsMeaning
    <2>5. AtLeastOnce'
      BY <1>0, <2>1, <2>3, <2>4 DEF AtLeastOnce, GivenUp
    <2>6. \A x \in Event : x \in Nat
      BY MaxEventsAssumption DEF Event
    <2>7. NatsMeaning'
      <3>1. published' \in Nat /\ \A x \in Event : deliveries'[x] <= MaxDeliver /\ (x > published' => deliveries'[x] = 0)
        BY <1>0, <2>1, <2>3, <2>4, <2>6 DEF NatsMeaning
      <3>2. \A x \in waiting' : x \in Event /\ x <= published' /\ deliveries'[x] < MaxDeliver
        BY <1>0, <2>1, <2>4 DEF NatsMeaning
      <3>3. \A x \in awaiting' : x \in Event /\ x <= published'
        BY <1>0, <2>1, <2>3 DEF NatsMeaning
      <3> QED BY <2>4, <3>1, <3>2, <3>3 DEF NatsMeaning, Event
    <2> QED BY <1>0, <2>1, <2>2, <2>5, <2>7
  <1>6. ASSUME NEW e \in Event, AckWaitEnds(e)
        PROVE  AtLeastOnce' /\ NatsMeaning' /\ (\A d \in running' : Shape(d)) /\ adapter' = "nats"
    <2>1. Still /\ UNCHANGED <<forgotten, rolledBack>> /\ e \in awaiting /\ Redeliver(e)
      BY <1>6 DEF AckWaitEnds, deliveryVars
    <2>2. /\ waiting' \subseteq waiting \cup awaiting /\ awaiting' \subseteq awaiting
          /\ \A x \in waiting' : x \in waiting \/ deliveries[x] < MaxDeliver
          /\ gone' \subseteq gone \cup {x \in Event : deliveries[x] = MaxDeliver}
      BY <1>0, <2>1, RedeliverKeeps
    <2>3. AtLeastOnce' /\ NatsMeaning'
      BY <1>0, <2>1, <2>2, NatsNothingLost, NatsKeeps
    <2> QED BY <1>0, <2>1, <2>3
  <1>7. ASSUME NEW d \in running, NEW what \in Settlement, NatsCallbackSettles(d, what)
        PROVE  AtLeastOnce' /\ NatsMeaning' /\ (\A c \in running' : Shape(c)) /\ adapter' = "nats"
    <2>1. /\ UNCHANGED <<adapter, autoGroup, published, forgotten, deliveries, rolledBack>>
          /\ CallbackSettles(d, what) /\ NatsReply(d.event, what)
      BY <1>7 DEF NatsCallbackSettles
    <2>2. /\ finished' = (IF what = "requeue" THEN finished ELSE finished \cup {d.event})
          /\ \A c \in running' : Shape(c)
      BY <1>0, <2>1, SettlesEffect
    <2>3. /\ waiting' \subseteq waiting \cup awaiting /\ awaiting' \subseteq awaiting
          /\ \A x \in waiting' : x \in waiting \/ deliveries[x] < MaxDeliver
          /\ gone' \subseteq gone \cup {x \in Event : deliveries[x] = MaxDeliver} \cup
                               (IF what \in {"ack", "drop"} THEN {d.event} ELSE {})
      BY <1>0, <2>1, ReplyKeeps
    <2>4. gone' \subseteq gone \cup finished' \cup {x \in Event : deliveries[x] = MaxDeliver}
          /\ finished \subseteq finished'
      BY <2>2, <2>3
    <2>5. AtLeastOnce' /\ NatsMeaning'
      BY <1>0, <2>1, <2>3, <2>4, NatsNothingLost, NatsKeeps
    <2> QED BY <1>0, <2>1, <2>2, <2>5
  <1>8. ASSUME NEW d \in running, NEW resolves \in BOOLEAN, NatsCallbackEnds(d, resolves)
        PROVE  AtLeastOnce' /\ NatsMeaning' /\ (\A c \in running' : Shape(c)) /\ adapter' = "nats"
    <2> DEFINE what == IF ~ resolves /\ d.settled = "no" THEN "requeue" ELSE AtEnd(d, resolves)
    <2>1. /\ UNCHANGED <<adapter, autoGroup, published, forgotten, deliveries, rolledBack>>
          /\ CallbackEnds(d, resolves) /\ NatsReply(d.event, what)
      BY <1>8 DEF NatsCallbackEnds
    <2>2. /\ running' = running \ {d}
          /\ finished' = IF AtEnd(d, resolves) = "ack" THEN finished \cup {d.event} ELSE finished
          /\ AtEnd(d, resolves) \in {"ack", "none"}
      BY <2>1, EndsEffect
    <2>3. what \in {"ack", "drop"} => AtEnd(d, resolves) = "ack"
      BY <2>2
    <2> HIDE DEF what
    <2>4. /\ waiting' \subseteq waiting \cup awaiting /\ awaiting' \subseteq awaiting
          /\ \A x \in waiting' : x \in waiting \/ deliveries[x] < MaxDeliver
          /\ gone' \subseteq gone \cup {x \in Event : deliveries[x] = MaxDeliver} \cup
                               (IF what \in {"ack", "drop"} THEN {d.event} ELSE {})
      BY <1>0, <2>1, ReplyKeeps
    <2>5. gone' \subseteq gone \cup finished' \cup {x \in Event : deliveries[x] = MaxDeliver}
          /\ finished \subseteq finished'
      BY <2>2, <2>3, <2>4
    <2>6. AtLeastOnce' /\ NatsMeaning'
      BY <1>0, <2>1, <2>4, <2>5, NatsNothingLost, NatsKeeps
    <2> QED BY <1>0, <2>1, <2>2, <2>6
  <1> QED BY <1>1, <1>2, <1>3, <1>4, <1>5, <1>6, <1>7, <1>8 DEF NatsNext

-----------------------------------------------------------------------------
(* AMQP *)

\* A channel that closes gives its events back, or ends with its queue.
LEMMA ChannelClosesKeeps ==
  ASSUME AtLeastOnce, NEW p, ChannelCloses(p), finished' = finished,
         UNCHANGED <<deliveries, start, abandoned, autoGroup, rolledBack>>
  PROVE  AtLeastOnce'
  <1>1. /\ forgotten \subseteq forgotten' /\ gone' \subseteq gone \cup forgotten'
        /\ forgotten' = forgotten \/ autoGroup'
    BY DEF ChannelCloses, brokerVars
  <1> QED BY <1>1, NothingLost

LEMMA AmqpStep ==
  ASSUME ConsumersIInv, adapter = "amqp", AmqpNext, UNCHANGED <<redisVars, natsVars, kafkaVars>>
  PROVE  ConsumersIInv'
  <1>0. /\ AtLeastOnce /\ (\A d \in running : Shape(d)) /\ UNCHANGED <<deliveries, start, abandoned, rolledBack, unsubscribed>>
        /\ \A p \in Process : unsubscribed[p] = "no"
    BY DEF ConsumersIInv, redisVars, loopVars, natsVars, natsJetStream, kafkaVars
  <1> SUFFICES AtLeastOnce' /\ (\A d \in running' : Shape(d)) /\ adapter' = "amqp"
    BY <1>0 DEF ConsumersIInv
  <1>1. CASE AmqpPublish
    <2>1. UNCHANGED <<adapter, autoGroup, running, finished, gone, forgotten>>
      BY <1>1 DEF AmqpPublish, deliveryVars, brokerVars
    <2> QED BY <1>0, <2>1, NothingLost
  <1>2. ASSUME NEW p \in Process, AmqpConsume(p) \/ AmqpCancel(p)
        PROVE  AtLeastOnce' /\ (\A d \in running' : Shape(d)) /\ adapter' = "amqp"
    <2>1. UNCHANGED <<adapter, autoGroup, running, finished, gone, forgotten>>
      BY <1>2 DEF AmqpConsume, AmqpCancel, sharedVars
    <2> QED BY <1>0, <2>1, NothingLost
  <1>3. ASSUME NEW p \in Process, AmqpLost(p) \/ AmqpUnsubscribed(p)
        PROVE  AtLeastOnce' /\ (\A d \in running' : Shape(d)) /\ adapter' = "amqp"
    <2>1. UNCHANGED <<adapter, autoGroup, running, finished>> /\ ChannelCloses(p)
      BY <1>3 DEF AmqpLost, AmqpUnsubscribed, deliveryVars
    <2> QED BY <1>0, <2>1, ChannelClosesKeeps
  <1>4. ASSUME NEW p \in Process, AmqpCrash(p)
        PROVE  AtLeastOnce' /\ (\A d \in running' : Shape(d)) /\ adapter' = "amqp"
    <2>1. UNCHANGED <<adapter, autoGroup>> /\ ChannelCloses(p) /\ CallbacksDie(p)
      BY <1>4 DEF AmqpCrash
    <2>2. running' \subseteq running /\ finished' = finished
      BY <2>1, DieEffect
    <2> QED BY <1>0, <2>1, <2>2, ChannelClosesKeeps
  <1>5. ASSUME NEW p \in Process, NEW e \in Event, AmqpDeliver(p, e)
        PROVE  AtLeastOnce' /\ (\A d \in running' : Shape(d)) /\ adapter' = "amqp"
    <2> DEFINE d == NewDelivery(p, e, channel[p])
    <2>1. UNCHANGED <<adapter, autoGroup, finished, gone, forgotten>> /\ running' = running \cup {d}
      BY <1>5 DEF AmqpDeliver, StartCallback, brokerVars
    <2>2. Shape(d)
      BY NewIsShaped
    <2> HIDE DEF d
    <2> QED BY <1>0, <2>1, <2>2, NothingLost
  <1>6. ASSUME NEW p \in Process, NEW e \in Event, AmqpUndecodable(p, e)
        PROVE  AtLeastOnce' /\ (\A d \in running' : Shape(d)) /\ adapter' = "amqp"
    <2>1. UNCHANGED <<adapter, autoGroup, running, forgotten>> /\ gone' = gone \cup {e} /\ finished' = finished \cup {e}
      BY <1>6 DEF AmqpUndecodable
    <2> QED BY <1>0, <2>1, NothingLost
  <1>7. ASSUME NEW d \in running, NEW what \in Settlement, AmqpCallbackSettles(d, what)
        PROVE  AtLeastOnce' /\ (\A c \in running' : Shape(c)) /\ adapter' = "amqp"
    <2>1. UNCHANGED <<adapter, autoGroup, forgotten>> /\ CallbackSettles(d, what) /\ AmqpSettle(d, what)
      BY <1>7 DEF AmqpCallbackSettles
    <2>2. /\ finished' = (IF what = "requeue" THEN finished ELSE finished \cup {d.event})
          /\ \A c \in running' : Shape(c)
      BY <1>0, <2>1, SettlesEffect
    <2>3. gone' \subseteq gone \cup finished' /\ finished \subseteq finished'
      BY <2>1, <2>2 DEF AmqpSettle
    <2> QED BY <1>0, <2>1, <2>2, <2>3, NothingLost
  <1>8. ASSUME NEW d \in running, AmqpCallbackResolves(d)
        PROVE  AtLeastOnce' /\ (\A c \in running' : Shape(c)) /\ adapter' = "amqp"
    <2>1. UNCHANGED <<adapter, autoGroup, forgotten>> /\ CallbackEnds(d, TRUE) /\ AmqpSettle(d, AtEnd(d, TRUE))
      BY <1>8 DEF AmqpCallbackResolves
    <2>2. /\ running' = running \ {d} /\ AtEnd(d, TRUE) \in {"ack", "none"}
          /\ finished' = IF AtEnd(d, TRUE) = "ack" THEN finished \cup {d.event} ELSE finished
      BY <2>1, EndsEffect
    <2>3. gone' \subseteq gone \cup finished' /\ finished \subseteq finished'
      BY <2>1, <2>2 DEF AmqpSettle
    <2> QED BY <1>0, <2>1, <2>2, <2>3, NothingLost
  <1>9. ASSUME NEW d \in running, AmqpCallbackRejects(d) \/ AmqpSettledTwice(d) \/ AmqpRejectsLate(d)
        PROVE  AtLeastOnce' /\ (\A c \in running' : Shape(c)) /\ adapter' = "amqp"
    <2>1. UNCHANGED <<adapter, autoGroup>> /\ CallbackEnds(d, FALSE)
      BY <1>9 DEF AmqpCallbackRejects, AmqpSettledTwice, AmqpRejectsLate
    <2>2. running' = running \ {d} /\ finished' = finished
      BY <2>1 DEF CallbackEnds, AtEnd, Finish
    <2>3. (gone' = gone /\ forgotten' = forgotten) \/ ChannelCloses(d.process)
      BY <1>9 DEF AmqpCallbackRejects, AmqpSettledTwice, AmqpRejectsLate, AmqpSettle, brokerVars
    <2> QED BY <1>0, <2>1, <2>2, <2>3, NothingLost, ChannelClosesKeeps
  <1> QED BY <1>1, <1>2, <1>3, <1>4, <1>5, <1>6, <1>7, <1>8, <1>9 DEF AmqpNext

-----------------------------------------------------------------------------
(* Kafka *)

LEMMA BetweenShrinks ==
  ASSUME NEW s \in Nat, NEW t \in Nat, s <= t, NEW e \in Nat
  PROVE  Between(t, e) \subseteq Between(s, e)
  <1> SUFFICES ASSUME NEW x \in Between(t, e) PROVE x \in Between(s, e)
    OBVIOUS
  <1>1. x \in Int /\ t + 1 <= x /\ x <= e - 1
    BY DEF Between
  <1>2. s + 1 <= x
    BY <1>1
  <1> QED BY <1>1, <1>2 DEF Between

\* The events before the one after e are e and those before it.
LEMMA BeforeNext ==
  ASSUME KafkaTyped, NEW e \in Nat, NEW F, Between(start, e) \subseteq F, e \in F
  PROVE  Between(start, e + 1) \subseteq F /\ start + 1 .. e \subseteq F
  BY DEF KafkaTyped, Between

\* A message that is finished, at the position of its process: what is committed
\* then is finished.
LEMMA CommitKeeps ==
  ASSUME KafkaTyped, PositionsFinished, NEW p \in Process, NEW e \in Nat, start' = start,
         resolved' = [resolved EXCEPT ![p] = e], Commit(p),
         Between(start, e + 1) \subseteq Passed', Passed \subseteq Passed'
  PROVE  /\ committed' \in Nat /\ resolved' \in [Process -> Nat]
         /\ PositionsFinished' /\ gone' \subseteq gone \cup Passed'
  <1>1. resolved'[p] = e /\ resolved' \in [Process -> Nat]
    BY DEF KafkaTyped
  <1>2. \A q \in Process : Between(start, resolved'[q] + 1) \subseteq Passed'
    BY <1>1 DEF PositionsFinished, KafkaTyped
  <1>3. start + 1 .. e = Between(start, e + 1)
    BY DEF Between, KafkaTyped
  <1>4. CASE UNCHANGED <<committed, gone>>
    BY <1>1, <1>2, <1>4 DEF PositionsFinished, Between, KafkaTyped
  <1>5. CASE committed' = resolved'[p] /\ gone' = gone \cup (start + 1 .. resolved'[p])
    BY <1>1, <1>2, <1>3, <1>5 DEF PositionsFinished, Between
  <1> QED BY <1>4, <1>5 DEF Commit

\* A step that drops from the group only what a position may be behind, or what the
\* group begins behind.
LEMMA KafkaNothingLost ==
  ASSUME AtLeastOnce, finished \subseteq finished', UNCHANGED <<deliveries, forgotten, autoGroup, rolledBack>>,
         1..start \subseteq 1..start', abandoned \subseteq abandoned',
         gone' \subseteq gone \cup Passed' \cup 1..start'
  PROVE  AtLeastOnce'
  BY DEF AtLeastOnce, GivenUp, Passed

LEMMA KafkaStep ==
  ASSUME ConsumersIInv, adapter = "kafka", KafkaNext, UNCHANGED <<redisVars, natsVars, amqpVars>>
  PROVE  ConsumersIInv'
  <1>0. /\ AtLeastOnce /\ (\A d \in running : Shape(d)) /\ UNCHANGED <<deliveries, rolledBack, unsubscribed>>
        /\ \A p \in Process : unsubscribed[p] = "no"
        /\ KafkaTyped /\ PositionsFinished /\ BatchesInOrder /\ CallbacksInOrder
    BY DEF ConsumersIInv, KafkaMeaning, redisVars, loopVars, natsVars, natsJetStream
  <1> USE DEF Passed
  <1> DEFINE Goal == AtLeastOnce' /\ KafkaMeaning' /\ (\A d \in running' : Shape(d)) /\ adapter' = "kafka"
  <1> SUFFICES Goal
    BY <1>0 DEF ConsumersIInv
  <1> DEFINE Still == UNCHANGED <<adapter, autoGroup, running, finished, abandoned, forgotten>>
  <1>1. CASE KafkaPublish
    <2>1. Still /\ UNCHANGED <<gone, committed, start, resolved, messages>> /\ published' = published + 1
      BY <1>1 DEF KafkaPublish, Published, deliveryVars, brokerVars, kafkaVars
    <2>2. AtLeastOnce'
      BY <1>0, <2>1, KafkaNothingLost
    <2>3. KafkaTyped'
      BY <1>0, <2>1 DEF KafkaTyped, OneAtATime
    <2>4. PositionsFinished' /\ BatchesInOrder' /\ CallbacksInOrder'
      BY <1>0, <2>1 DEF PositionsFinished, BatchesInOrder, CallbacksInOrder, Between, Running
    <2> QED BY <1>0, <2>1, <2>2, <2>3, <2>4 DEF KafkaMeaning
  <1>2. ASSUME NEW p \in Process, KafkaAssign(p) PROVE Goal
    <2>1. Still /\ UNCHANGED <<published, committed, messages>>
      BY <1>2 DEF KafkaAssign, deliveryVars
    <2>3. /\ resolved' = [resolved EXCEPT ![p] = IF committed = NoOffset THEN published ELSE committed]
          /\ start' = IF committed = NoOffset THEN published ELSE start
          /\ gone' = IF committed = NoOffset THEN gone \cup 1..published ELSE gone
      BY <1>2 DEF KafkaAssign
    <2>4. start \in Nat /\ start' \in Nat /\ start <= start' /\ published \in Nat /\ start' \in 0..published /\ committed \in Nat
      BY <1>0, <2>3 DEF KafkaTyped
    <2>2. AtLeastOnce'
      <3>1. 1..start \subseteq 1..start'
        BY <2>4
      <3>2. gone' \subseteq gone \cup 1..start'
        BY <2>3
      <3> QED BY <1>0, <2>1, <3>1, <3>2, KafkaNothingLost
    <2>5. KafkaTyped'
      BY <1>0, <2>1, <2>3, <2>4 DEF KafkaTyped, OneAtATime
    <2>6. ASSUME NEW e \in Nat PROVE Between(start', e) \subseteq Between(start, e)
      BY <2>4, BetweenShrinks
    <2>7. PositionsFinished'
      <3>1. \A q \in Process : resolved[q] \in Nat /\ resolved[q] + 1 \in Nat /\ committed + 1 \in Nat
        BY <1>0, <2>4 DEF KafkaTyped
      <3>2. committed' # NoOffset => Between(start', committed' + 1) \subseteq Passed'
        BY <1>0, <2>1, <2>6, <3>1 DEF PositionsFinished, Between
      <3>3. ASSUME NEW q \in Process PROVE Between(start', resolved'[q] + 1) \subseteq Passed'
        <4>1. CASE q # p
          <5>1. resolved'[q] = resolved[q]
            BY <1>0, <2>3, <4>1 DEF KafkaTyped
          <5> QED BY <1>0, <2>1, <2>6, <3>1, <5>1 DEF PositionsFinished, Between
        <4>2. CASE q = p /\ committed = NoOffset
          <5>1. resolved'[q] = published /\ start' = published
            BY <1>0, <2>3, <4>2 DEF KafkaTyped
          <5> QED BY <2>4, <5>1 DEF Between
        <4>3. CASE q = p /\ committed # NoOffset
          <5>1. resolved'[q] = committed /\ start' = start
            BY <1>0, <2>3, <4>3 DEF KafkaTyped
          <5> QED BY <1>0, <2>1, <4>3, <5>1 DEF PositionsFinished, Between
        <4> QED BY <4>1, <4>2, <4>3
      <3> QED BY <2>1, <3>2, <3>3 DEF PositionsFinished, NoOffset, Between
    <2>8. BatchesInOrder'
      <3>1. \A q \in Process : messages[q] # <<>> => messages[q][1] \in Nat
        BY <1>0 DEF KafkaTyped
      <3>2. \A q \in Process : messages'[q] # <<>> /\ Running(q)' = {} => Between(start', messages'[q][1]) \subseteq Passed'
        BY <1>0, <2>1, <2>6, <3>1 DEF BatchesInOrder, Running, Between
      <3> QED BY <1>0, <2>1, <3>2 DEF BatchesInOrder, Running, Between
    <2>9. CallbacksInOrder'
      <3>1. \A d \in running : d.event \in Nat
        BY <1>0 DEF KafkaTyped
      <3> QED BY <1>0, <2>1, <2>6, <3>1 DEF CallbacksInOrder, Between
    <2> QED BY <1>0, <2>1, <2>2, <2>5, <2>7, <2>8, <2>9 DEF KafkaMeaning
  <1>3. ASSUME NEW p \in Process, KafkaRevoke(p) PROVE Goal
    <2>1. Still /\ UNCHANGED <<gone, published, committed, start, resolved, messages>>
      BY <1>3 DEF KafkaRevoke, sharedVars
    <2>2. AtLeastOnce'
      BY <1>0, <2>1, KafkaNothingLost
    <2>3. KafkaTyped'
      BY <1>0, <2>1 DEF KafkaTyped, OneAtATime
    <2>4. PositionsFinished' /\ BatchesInOrder' /\ CallbacksInOrder'
      BY <1>0, <2>1 DEF PositionsFinished, BatchesInOrder, CallbacksInOrder, Between, Running
    <2> QED BY <1>0, <2>1, <2>2, <2>3, <2>4 DEF KafkaMeaning
  <1>4. ASSUME NEW p \in Process, KafkaFetch(p) PROVE Goal
    <2>1. Still /\ UNCHANGED <<gone, published, committed, start, resolved>> /\ Running(p) = {}
      BY <1>4 DEF KafkaFetch, sharedVars
    <2>2. PICK n \in 1..MaxBatch : messages' = [messages EXCEPT ![p] = [i \in 1..n |-> resolved[p] + i]]
      BY <1>4 DEF KafkaFetch
    <2> DEFINE new == [i \in 1..n |-> resolved[p] + i]
    <2>3. n \in Nat /\ n > 0 /\ resolved[p] \in Nat
      BY <1>0, MaxBatchAssumption DEF KafkaTyped
    <2>4. new \in Seq(Nat) /\ Len(new) = n /\ new # <<>> /\ \A i \in 1..n : new[i] = resolved[p] + i
      BY <2>3
    <2> HIDE DEF new
    <2>5. messages' = [messages EXCEPT ![p] = new]
      BY <2>2 DEF new
    <2>6. AtLeastOnce'
      BY <1>0, <2>1, KafkaNothingLost
    <2>7. KafkaTyped'
      BY <1>0, <2>1, <2>4, <2>5 DEF KafkaTyped, OneAtATime
    <2>8. PositionsFinished' /\ CallbacksInOrder'
      BY <1>0, <2>1 DEF PositionsFinished, CallbacksInOrder, Between
    <2>9. messages'[p] = new /\ \A q \in Process : q # p => messages'[q] = messages[q]
      BY <1>0, <2>5 DEF KafkaTyped
    <2>10. BatchesInOrder'
      <3>1. ASSUME NEW q \in Process, NEW i \in 1..Len(messages'[q])
            PROVE  messages'[q][i] = messages'[q][1] + i - 1
        <4>1. CASE q = p
          <5>1. i \in 1..n /\ 1 \in 1..n /\ messages'[q][i] = resolved[p] + i /\ messages'[q][1] = resolved[p] + 1
            BY <2>3, <2>4, <2>9, <3>1, <4>1
          <5>2. \A k, m \in Int : k + m = (k + 1) + m - 1
            OBVIOUS
          <5>3. resolved[p] \in Int /\ i \in Int
            BY <2>3, <5>1
          <5>4. resolved[p] + i = (resolved[p] + 1) + i - 1
            BY <5>2, <5>3, Zenon
          <5> QED BY <5>1, <5>4
        <4>2. CASE q # p
          BY <1>0, <2>9, <4>2 DEF BatchesInOrder
        <4> QED BY <4>1, <4>2
      <3>2. ASSUME NEW q \in Process, messages'[q] # <<>>, Running(q)' = {}
            PROVE  Between(start', messages'[q][1]) \subseteq Passed'
        <4>1. CASE q = p
          <5>1. messages'[q][1] = resolved[p] + 1
            BY <2>3, <2>4, <2>9, <4>1
          <5> QED BY <1>0, <2>1, <5>1 DEF PositionsFinished, Between
        <4>2. CASE q # p
          BY <1>0, <2>1, <2>9, <3>2, <4>2 DEF BatchesInOrder, Running, Between
        <4> QED BY <4>1, <4>2
      <3>3. ASSUME NEW d \in running', messages'[d.process] # <<>> PROVE messages'[d.process][1] = d.event + 1
        <4>1. d \in running /\ d.process \in Process /\ d.process # p
          BY <1>0, <2>1 DEF KafkaTyped, Running
        <4> QED BY <1>0, <2>9, <3>3, <4>1 DEF BatchesInOrder
      <3>4. ASSUME NEW d \in running', messages'[d.process] = <<>> PROVE d.via = d.event
        <4>1. d \in running /\ d.process \in Process /\ d.process # p
          BY <1>0, <2>1 DEF KafkaTyped, Running
        <4> QED BY <1>0, <2>9, <3>4, <4>1 DEF BatchesInOrder
      <3> QED BY <3>1, <3>2, <3>3, <3>4 DEF BatchesInOrder
    <2> QED BY <1>0, <2>1, <2>6, <2>7, <2>8, <2>10 DEF KafkaMeaning
  <1>5. ASSUME NEW p \in Process, EachMessage(p) PROVE Goal
    <2> DEFINE e == messages[p][1]
               d == NewDelivery(p, e, messages[p][Len(messages[p])])
    <2>1. UNCHANGED <<adapter, autoGroup, published, abandoned, gone, forgotten, committed, start, resolved>>
      BY <1>5 DEF EachMessage, brokerVars
    <2>2. /\ messages[p] # <<>> /\ Running(p) = {} /\ messages[p] \in Seq(Nat)
          /\ messages' = [messages EXCEPT ![p] = Tail(messages[p])]
          /\ running' = running \cup {d} /\ finished' = finished
      BY <1>0, <1>5 DEF EachMessage, StartCallback, KafkaTyped
    <2>3. /\ Shape(d) /\ d.process = p /\ d.event = e /\ d.settled = "no"
          /\ d.via = messages[p][Len(messages[p])]
      BY NewIsShaped
    <2> HIDE DEF d
    <2>4. /\ e \in Nat /\ Between(start, e) \subseteq Passed
          /\ \A i \in 1..Len(messages[p]) : messages[p][i] = e + i - 1
      BY <1>0, <2>2 DEF BatchesInOrder
    <2> HIDE DEF e
    <2>5. AtLeastOnce'
      BY <1>0, <2>1, <2>2, KafkaNothingLost
    <2>6. \A c \in running : c.process # p
      BY <2>2 DEF Running
    <2>7. OneAtATime'
      BY <1>0, <2>2, <2>3, <2>6 DEF KafkaTyped, OneAtATime
    <2>8. messages' \in [Process -> Seq(Nat)] /\ messages'[p] = Tail(messages[p])
          /\ \A q \in Process : q # p => messages'[q] = messages[q]
      BY <1>0, <2>2 DEF KafkaTyped
    <2>13. /\ d.via \in Nat
           /\ Tail(messages[p]) = <<>> => d.via = d.event
      BY <2>2, <2>3, <2>4
    <2>9. KafkaTyped'
      BY <1>0, <2>1, <2>2, <2>3, <2>4, <2>7, <2>8, <2>13 DEF KafkaTyped
    <2>10. PositionsFinished' /\ CallbacksInOrder'
      BY <1>0, <2>1, <2>2, <2>3, <2>4 DEF PositionsFinished, CallbacksInOrder
    <2>11. \A i \in 1..Len(Tail(messages[p])) : Tail(messages[p])[i] = e + i
      BY <2>2, <2>4
    <2>12. BatchesInOrder'
      <3>1. ASSUME NEW q \in Process, NEW i \in 1..Len(messages'[q])
            PROVE  messages'[q][i] = messages'[q][1] + i - 1
        <4>1. CASE q = p
          <5>1. 1 \in 1..Len(Tail(messages[p])) /\ i \in 1..Len(Tail(messages[p]))
            BY <2>2, <2>8, <3>1, <4>1
          <5>2. messages'[q][i] = e + i /\ messages'[q][1] = e + 1
            BY <2>8, <2>11, <4>1, <5>1
          <5> QED BY <2>4, <5>2
        <4>2. CASE q # p
          BY <1>0, <2>8, <4>2 DEF BatchesInOrder
        <4> QED BY <4>1, <4>2
      <3>2. ASSUME NEW q \in Process, messages'[q] # <<>>, Running(q)' = {}
            PROVE  Between(start', messages'[q][1]) \subseteq Passed'
        <4>1. q # p
          BY <2>2, <2>3, <3>2 DEF Running
        <4>2. Running(q) = {}
          BY <2>2, <3>2 DEF Running
        <4> QED BY <1>0, <2>1, <2>2, <2>8, <3>2, <4>1, <4>2 DEF BatchesInOrder
      <3>3. ASSUME NEW c \in running', messages'[c.process] # <<>> PROVE messages'[c.process][1] = c.event + 1
        <4>1. CASE c = d
          <5>1. 1 \in 1..Len(Tail(messages[p]))
            BY <2>2, <2>3, <2>8, <3>3, <4>1
          <5> QED BY <2>3, <2>8, <2>11, <4>1, <5>1
        <4>2. CASE c \in running
          <5>1. c.process \in Process /\ c.process # p
            BY <1>0, <2>6, <4>2 DEF KafkaTyped
          <5> QED BY <1>0, <2>8, <3>3, <4>2, <5>1 DEF BatchesInOrder
        <4> QED BY <2>2, <4>1, <4>2
      <3>4. ASSUME NEW c \in running', messages'[c.process] = <<>> PROVE c.via = c.event
        <4>1. CASE c = d
          BY <2>3, <2>8, <2>13, <3>4, <4>1
        <4>2. CASE c \in running
          <5>1. c.process \in Process /\ c.process # p
            BY <1>0, <2>6, <4>2 DEF KafkaTyped
          <5> QED BY <1>0, <2>8, <3>4, <4>2, <5>1 DEF BatchesInOrder
        <4> QED BY <2>2, <4>1, <4>2
      <3> QED BY <3>1, <3>2, <3>3, <3>4 DEF BatchesInOrder
    <2> QED BY <1>0, <2>1, <2>2, <2>3, <2>5, <2>9, <2>10, <2>12 DEF KafkaMeaning
  <1>6. ASSUME NEW p \in Process, HeartbeatFails(p) \/ KafkaCrash(p) PROVE Goal
    <2>1. /\ UNCHANGED <<adapter, autoGroup, published, abandoned, gone, forgotten, committed, start, resolved>>
          /\ messages' = [messages EXCEPT ![p] = <<>>]
      BY <1>6 DEF HeartbeatFails, KafkaCrash, brokerVars, sharedVars
    <2>2. /\ running' \subseteq running /\ finished' = finished
          /\ \A d \in running : d.process # p => d \in running'
          /\ \A d \in running' : d.process # p
      BY <1>6 DEF HeartbeatFails, KafkaCrash, sharedVars, CallbacksDie, Running
    <2>3. AtLeastOnce'
      BY <1>0, <2>1, <2>2, KafkaNothingLost
    <2>4. messages' \in [Process -> Seq(Nat)] /\ messages'[p] = <<>>
          /\ \A q \in Process : q # p => messages'[q] = messages[q]
      BY <1>0, <2>1 DEF KafkaTyped
    <2>5. KafkaTyped'
      BY <1>0, <2>1, <2>2, <2>4 DEF KafkaTyped, OneAtATime
    <2>6. PositionsFinished' /\ CallbacksInOrder'
      BY <1>0, <2>1, <2>2 DEF PositionsFinished, CallbacksInOrder
    <2>7. BatchesInOrder'
      <3>1. ASSUME NEW q \in Process, NEW i \in 1..Len(messages'[q])
            PROVE  messages'[q][i] = messages'[q][1] + i - 1
        <4>1. q # p
          BY <2>4, <3>1
        <4> QED BY <1>0, <2>4, <3>1, <4>1 DEF BatchesInOrder
      <3>2. ASSUME NEW q \in Process, messages'[q] # <<>>, Running(q)' = {}
            PROVE  Between(start', messages'[q][1]) \subseteq Passed'
        <4>1. q # p /\ Running(q) = {}
          BY <2>2, <2>4, <3>2 DEF Running
        <4> QED BY <1>0, <2>1, <2>2, <2>4, <3>2, <4>1 DEF BatchesInOrder
      <3>3. ASSUME NEW c \in running', messages'[c.process] # <<>> PROVE messages'[c.process][1] = c.event + 1
        <4>1. c \in running /\ c.process \in Process /\ c.process # p
          BY <1>0, <2>2, <2>4, <3>3 DEF KafkaTyped
        <4> QED BY <1>0, <2>4, <3>3, <4>1 DEF BatchesInOrder
      <3>4. ASSUME NEW c \in running', messages'[c.process] = <<>> PROVE c.via = c.event
        <4>1. c \in running /\ c.process \in Process /\ c.process # p
          BY <1>0, <2>2 DEF KafkaTyped
        <4> QED BY <1>0, <2>4, <3>4, <4>1 DEF BatchesInOrder
      <3> QED BY <3>1, <3>2, <3>3, <3>4 DEF BatchesInOrder
    <2> QED BY <1>0, <2>1, <2>2, <2>3, <2>5, <2>6, <2>7 DEF KafkaMeaning
  <1>7. ASSUME NEW d \in running, NEW what \in Settlement, KafkaCallbackSettles(d, what) PROVE Goal
    <2> DEFINE p == d.process
    <2>1. /\ UNCHANGED <<adapter, autoGroup, published, abandoned, forgotten, start, messages>>
          /\ CallbackSettles(d, what) /\ KafkaSettle(d, what)
      BY <1>7 DEF KafkaCallbackSettles
    <2>2. PICK n :
           /\ d \in running /\ d.settled = "no"
           /\ running' = (running \ {d}) \cup {n}
           /\ Shape(n) /\ n.process = d.process /\ n.event = d.event /\ n.via = d.via
           /\ n.settled = Outcome(what)
           /\ finished' = (IF what = "requeue" THEN finished ELSE finished \cup {d.event})
           /\ \A c \in running' : Shape(c)
      BY <1>0, <2>1, SettlesEffect
    <2>3. /\ finished \subseteq finished' /\ n.settled \in {"finished", "requeued"}
          /\ n.settled = "finished" => d.event \in finished'
      BY <2>2 DEF Outcome, Settlement
    <2>4. p \in Process /\ d.event \in Nat /\ Between(start, d.event) \subseteq Passed'
      BY <1>0, <2>1, <2>3 DEF KafkaTyped, CallbacksInOrder
    <2>5. committed' \in Nat /\ resolved' \in [Process -> Nat] /\ PositionsFinished' /\ gone' \subseteq gone \cup Passed'
      <3>1. CASE what = "requeue"
        <4>1. UNCHANGED <<resolved, committed, gone, finished>>
          BY <2>1, <2>2, <3>1 DEF KafkaSettle
        <4> QED BY <1>0, <2>1, <4>1 DEF PositionsFinished, KafkaTyped
      <3>2. CASE what # "requeue"
        <4>1. resolved' = [resolved EXCEPT ![p] = d.event] /\ Commit(p) /\ d.event \in Passed'
          BY <2>1, <2>2, <3>2 DEF KafkaSettle, Settlement
        <4>2. Between(start, d.event + 1) \subseteq Passed'
          BY <1>0, <2>4, <4>1, BeforeNext
        <4> QED BY <1>0, <2>1, <2>3, <2>4, <4>1, <4>2, CommitKeeps
      <3> QED BY <3>1, <3>2
    <2>6. AtLeastOnce'
      BY <1>0, <2>1, <2>3, <2>5, KafkaNothingLost
    <2>7. KafkaTyped'
      BY <1>0, <2>1, <2>2, <2>3, <2>5 DEF KafkaTyped, OneAtATime
    <2>8. CallbacksInOrder'
      BY <1>0, <2>1, <2>2, <2>3, <2>4 DEF CallbacksInOrder
    <2>9. BatchesInOrder'
      <3>1. \A q \in Process : Running(q)' = {} => Running(q) = {}
        BY <2>2 DEF Running
      <3>2. \A c \in running' : \E b \in running : b.process = c.process /\ b.event = c.event /\ b.via = c.via
        BY <2>2
      <3>3. ASSUME NEW c \in running', messages'[c.process] # <<>> PROVE messages'[c.process][1] = c.event + 1
        BY <1>0, <2>1, <3>2, <3>3 DEF BatchesInOrder
      <3>6. ASSUME NEW c \in running', messages'[c.process] = <<>> PROVE c.via = c.event
        BY <1>0, <2>1, <3>2, <3>6 DEF BatchesInOrder
      <3>4. ASSUME NEW q \in Process, messages'[q] # <<>>, Running(q)' = {}
            PROVE  Between(start', messages'[q][1]) \subseteq Passed'
        <4>1. Between(start, messages[q][1]) \subseteq Passed
          BY <1>0, <2>1, <3>1, <3>4 DEF BatchesInOrder
        <4> QED BY <2>1, <2>3, <4>1
      <3>5. \A q \in Process : \A i \in 1..Len(messages'[q]) : messages'[q][i] = messages'[q][1] + i - 1
        BY <1>0, <2>1 DEF BatchesInOrder
      <3> QED BY <3>3, <3>4, <3>5, <3>6 DEF BatchesInOrder
    <2> QED BY <1>0, <2>1, <2>2, <2>5, <2>6, <2>7, <2>8, <2>9 DEF KafkaMeaning
  <1>8. ASSUME NEW d \in running, NEW resolves \in BOOLEAN, KafkaCallbackEnds(d, resolves) PROVE Goal
    <2> DEFINE p == d.process
               ends == StopsBatch(d, resolves) \/ messages[p] = <<>>
               acked == AtEnd(d, resolves) = "ack"
    <2>1. /\ UNCHANGED <<adapter, autoGroup, published, forgotten, start>>
          /\ abandoned' = IF StopsBatch(d, resolves) THEN abandoned \cup d.event..d.via ELSE abandoned
      BY <1>8 DEF KafkaCallbackEnds
    <2>2. /\ running' = running \ {d}
          /\ finished' = IF acked THEN finished \cup {d.event} ELSE finished
      BY <1>8, EndsEffect DEF KafkaCallbackEnds
    <2>3. finished \subseteq finished' /\ (acked => d.event \in finished')
      BY <2>2
    <2>15. abandoned \subseteq abandoned'
      BY <2>1
    <2>4. /\ p \in Process /\ d.event \in Nat /\ d.via \in Nat /\ Between(start, d.event) \subseteq Passed'
          /\ d.settled = "finished" => d.event \in finished'
      BY <1>0, <2>3, <2>15 DEF KafkaTyped, CallbacksInOrder
    <2>16. ~ StopsBatch(d, resolves) => d.event \in Passed'
      <3>1. ~ StopsBatch(d, resolves) => acked \/ d.settled = "finished"
        BY <1>0 DEF StopsBatch, AtEnd, KafkaTyped
      <3> QED BY <2>3, <2>4, <3>1
    <2>5. committed' \in Nat /\ resolved' \in [Process -> Nat] /\ PositionsFinished' /\ gone' \subseteq gone \cup Passed'
      <3>1. CASE ends
        <4>1. Between(start, d.via + 1) \subseteq Passed'
          <5>1. CASE StopsBatch(d, resolves)
            <6>1. Between(start, d.via + 1) \subseteq Between(start, d.event) \cup d.event..d.via
              BY <1>0, <2>4 DEF Between, KafkaTyped
            <6>2. d.event..d.via \subseteq Passed'
              BY <2>1, <5>1
            <6> QED BY <2>4, <6>1, <6>2
          <5>2. CASE ~ StopsBatch(d, resolves)
            <6>1. d.via = d.event
              BY <1>0, <3>1, <5>2 DEF BatchesInOrder
            <6> QED BY <1>0, <2>4, <2>16, <5>2, <6>1, BeforeNext
          <5> QED BY <5>1, <5>2
        <4>2. resolved' = [resolved EXCEPT ![p] = d.via] /\ Commit(p)
          BY <1>8, <3>1 DEF KafkaCallbackEnds, Commit
        <4> QED BY <1>0, <2>1, <2>3, <2>4, <2>15, <4>1, <4>2, CommitKeeps
      <3>2. CASE ~ ends /\ ~ acked
        <4>1. UNCHANGED <<committed, gone, finished>> /\ resolved' = [resolved EXCEPT ![p] = resolved[p]]
          BY <1>8, <2>2, <3>2 DEF KafkaCallbackEnds
        <4>2. resolved' = resolved
          BY <1>0, <2>4, <4>1 DEF KafkaTyped
        <4> QED BY <1>0, <2>1, <2>15, <4>1, <4>2 DEF PositionsFinished, KafkaTyped
      <3>3. CASE ~ ends /\ acked
        <4>1. resolved' = [resolved EXCEPT ![p] = d.event] /\ Commit(p)
          BY <1>8, <3>3 DEF KafkaCallbackEnds
        <4>2. Between(start, d.event + 1) \subseteq Passed'
          BY <1>0, <2>3, <2>4, <3>3, BeforeNext
        <4> QED BY <1>0, <2>1, <2>3, <2>4, <2>15, <4>1, <4>2, CommitKeeps
      <3> QED BY <3>1, <3>2, <3>3
    <2>6. AtLeastOnce'
      BY <1>0, <2>1, <2>3, <2>5, <2>15, KafkaNothingLost
    <2>7. messages' = [messages EXCEPT ![p] = IF ends THEN <<>> ELSE messages[p]]
      BY <1>8 DEF KafkaCallbackEnds
    <2>8. /\ messages' \in [Process -> Seq(Nat)]
          /\ messages'[p] = IF ends THEN <<>> ELSE messages[p]
          /\ \A q \in Process : q # p => messages'[q] = messages[q]
      BY <1>0, <2>4, <2>7 DEF KafkaTyped
    <2>9. KafkaTyped'
      BY <1>0, <2>1, <2>2, <2>5, <2>8 DEF KafkaTyped, OneAtATime
    <2>10. CallbacksInOrder'
      BY <1>0, <2>1, <2>2, <2>3, <2>15 DEF CallbacksInOrder
    <2>11. ~ ends => Between(start, d.event + 1) \subseteq Passed'
      BY <1>0, <2>4, <2>16, BeforeNext
    <2>12. \A c \in running' : c \in running /\ c.process \in Process /\ c.process # p
      BY <1>0, <2>2 DEF KafkaTyped, OneAtATime
    <2>13. messages[p] # <<>> => messages[p][1] = d.event + 1
      BY <1>0 DEF BatchesInOrder
    <2> HIDE DEF ends, acked
    <2>14. BatchesInOrder'
      <3>1. ASSUME NEW q \in Process, NEW i \in 1..Len(messages'[q])
            PROVE  messages'[q][i] = messages'[q][1] + i - 1
        <4>1. messages'[q] = messages[q]
          BY <2>8, <3>1
        <4> QED BY <1>0, <3>1, <4>1 DEF BatchesInOrder
      <3>2. ASSUME NEW q \in Process, messages'[q] # <<>>, Running(q)' = {}
            PROVE  Between(start', messages'[q][1]) \subseteq Passed'
        <4>1. CASE q = p
          <5>1. ~ ends /\ messages'[q] = messages[p]
            BY <2>8, <3>2, <4>1
          <5> QED BY <2>1, <2>11, <2>13, <3>2, <5>1
        <4>2. CASE q # p
          <5>1. Running(q) = {}
            BY <2>2, <3>2, <4>2 DEF Running
          <5> QED BY <1>0, <2>1, <2>3, <2>8, <2>15, <3>2, <4>2, <5>1 DEF BatchesInOrder
        <4> QED BY <4>1, <4>2
      <3>3. ASSUME NEW c \in running', messages'[c.process] # <<>> PROVE messages'[c.process][1] = c.event + 1
        BY <1>0, <2>8, <2>12, <3>3 DEF BatchesInOrder
      <3>4. ASSUME NEW c \in running', messages'[c.process] = <<>> PROVE c.via = c.event
        BY <1>0, <2>8, <2>12, <3>4 DEF BatchesInOrder
      <3> QED BY <3>1, <3>2, <3>3, <3>4 DEF BatchesInOrder
    <2> QED BY <1>0, <2>1, <2>2, <2>6, <2>5, <2>9, <2>10, <2>14 DEF KafkaMeaning
  <1> HIDE DEF Goal
  <1> QED BY <1>1, <1>2, <1>3, <1>4, <1>5, <1>6, <1>7, <1>8 DEF KafkaNext

-----------------------------------------------------------------------------
(* The theorems *)

LEMMA ConsumersStutter == ConsumersIInv /\ UNCHANGED vars => ConsumersIInv'
  <1> SUFFICES ASSUME ConsumersIInv, UNCHANGED vars PROVE ConsumersIInv'
    OBVIOUS
  <1>1. /\ UNCHANGED <<adapter, autoGroup, published, running, finished, gone, forgotten>>
        /\ UNCHANGED <<loop, batch, unsubscribed, deliveries, waiting, awaiting, rolledBack>>
        /\ UNCHANGED <<committed, start, abandoned, resolved, messages>>
    BY DEF vars, sharedVars, redisVars, loopVars, natsVars, natsJetStream, kafkaVars
  <1>2. AtLeastOnce' /\ \A d \in running' : Shape(d)
    BY <1>1 DEF ConsumersIInv, AtLeastOnce, GivenUp
  <1>3. RedisMeaning => RedisMeaning'
    BY <1>1 DEF RedisMeaning, OneAtATime, Running
  <1>4. NatsMeaning => NatsMeaning'
    BY <1>1 DEF NatsMeaning
  <1>5. KafkaMeaning => KafkaMeaning'
    BY <1>1 DEF KafkaMeaning, KafkaTyped, PositionsFinished, BatchesInOrder, CallbacksInOrder, OneAtATime,
                Running, Passed
  <1> QED BY <1>1, <1>2, <1>3, <1>4, <1>5 DEF ConsumersIInv

LEMMA ConsumersAlways == Spec => []ConsumersIInv
  <1>1. ConsumersIInv /\ [Next]_vars => ConsumersIInv'
    BY RedisStep, NatsStep, KafkaStep, AmqpStep, ConsumersStutter DEF Next
  <1> QED BY <1>1, ConsumersInit, PTL DEF Spec

\* Delivery by all four adapters, for any number of processes and events: an event
\* leaves the group only when a callback has acked it or given it up, or when the
\* broker gives it up: after max_deliver deliveries, behind a failure in its batch,
\* or before a start at the end of Kafka's log.  Only generated groups drop events,
\* and failed subscriptions those of the patterns they deleted the consumers of.
THEOREM NoEventIsLost == Spec => []AtLeastOnce
  <1>1. ConsumersIInv => AtLeastOnce
    BY DEF ConsumersIInv
  <1> QED BY <1>1, ConsumersAlways, PTL

\* Kafka: a message overtakes only messages that failed and those behind them in
\* their batch, for batches of any length, any rebalances and crashes.
THEOREM FailuresStayInBatch == Spec => []OnlyFailedOvertaken
  <1>1. ConsumersIInv => OnlyFailedOvertaken
    BY DEF ConsumersIInv, KafkaMeaning, CallbacksInOrder, OnlyFailedOvertaken, Between, Passed
  <1> QED BY <1>1, ConsumersAlways, PTL

\* Redis: a resolved unsubscribe() leaves no callback running and none to come.
THEOREM UnsubscribedIsQuiet == Spec => []QuietWhenUnsubscribed
  <1>1. ConsumersIInv => QuietWhenUnsubscribed
    BY DEF ConsumersIInv, RedisMeaning, QuietWhenUnsubscribed
  <1> QED BY <1>1, ConsumersAlways, PTL
=============================================================================
