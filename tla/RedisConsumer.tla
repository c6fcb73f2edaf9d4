--------------------------- MODULE RedisConsumer ---------------------------
(***************************************************************************)
(* The consuming side of packages/events-redis/src/RedisAdapter.ts: the    *)
(* consume loop of a subscription, the reclaim of pending entries,         *)
(* unsubscribe().  Redis (external) keeps the group's position in the      *)
(* stream and its pending entries list (PEL): what was read and not XACKed.*)
(* The stream is not trimmed (brokerOptions.maxLen unset) and the          *)
(* subscription has one topic.                                             *)
(***************************************************************************)
EXTENDS EventDelivery

CONSTANTS
  Count,           \* brokerOptions.count: entries per XREADGROUP or XAUTOCLAIM
  ReclaimInterval  \* PENDING_RECLAIM_INTERVAL: iterations between reclaims

ASSUME CountAssumption == Count \in Nat \ {0}
ASSUME ReclaimIntervalAssumption == ReclaimInterval \in Nat \ {0}

VARIABLES
  loop,       \* loop[p]: where the consume loop of p is
  subscriptionRunning, \* subscriptionRunning[p]
  reader,     \* reader[p]: is blockingRedis connected?
  iteration,  \* iteration[p]: iterationCount modulo the interval
  batch,      \* batch[p]: the entries still to be processed, in stream order
  unsubscribed, \* unsubscribed[p]: where unsubscribe() is
  cursor,     \* Redis: the last entry given to the group, NoGroup without one
  pel         \* Redis: the group's pending entries

loopVars == <<loop, subscriptionRunning, reader, iteration, batch, unsubscribed>>
redisVars == <<loopVars, cursor, pel>>

NoGroup == MaxEvents + 1

RedisInit ==
  /\ loop = [p \in Process |-> "none"]
  /\ subscriptionRunning = [p \in Process |-> FALSE]
  /\ reader = [p \in Process |-> FALSE]
  /\ iteration = [p \in Process |-> 0]
  /\ batch = [p \in Process |-> {}]
  /\ unsubscribed = [p \in Process |-> "no"]
  /\ cursor = NoGroup
  /\ pel = {}

Goto(p, label) == loop' = [loop EXCEPT ![p] = label]

\* subscribe(): a new group begins at the end of the stream ("$"), an existing one
\* (BUSYGROUP) stays where it is; the loop is started without waiting for it.
RedisSubscribe(p) ==
  /\ p \in Members /\ loop[p] = "none"
  /\ cursor' = IF cursor = NoGroup THEN published ELSE cursor
  /\ Goto(p, "top")
  /\ subscriptionRunning' = [subscriptionRunning EXCEPT ![p] = TRUE]
  /\ reader' = [reader EXCEPT ![p] = TRUE]
  /\ UNCHANGED <<sharedVars, iteration, batch, unsubscribed, pel>>

\* The head of the loop.
LoopTop(p) ==
  /\ loop[p] = "top"
  /\ IF subscriptionRunning[p]
     THEN /\ iteration' = [iteration EXCEPT ![p] = (@ + 1) % ReclaimInterval]
          /\ Goto(p, IF iteration'[p] = 0 THEN "reclaim" ELSE "read")
     ELSE Goto(p, "ended") /\ UNCHANGED iteration
  /\ UNCHANGED <<sharedVars, subscriptionRunning, reader, batch, unsubscribed, cursor, pel>>

\* The first Count members of a set of entries, in stream order.
FirstOf(S) == {e \in S : Cardinality({x \in S : x <= e}) <= Count}
First(S) == CHOOSE e \in S : \A x \in S : e <= x

\* reclaimPending(): XAUTOCLAIM takes over the first pending entries that are idle
\* long enough, whoever read them, from the start of the list.
Claim(p, idle) ==
  /\ loop[p] = "reclaim" /\ reader[p]
  /\ batch' = [batch EXCEPT ![p] = FirstOf(idle)]
  /\ Goto(p, IF batch'[p] = {} THEN "read" ELSE "reclaimed")
  /\ UNCHANGED <<sharedVars, subscriptionRunning, reader, iteration, unsubscribed, cursor, pel>>

Reclaim(p) == \E idle \in SUBSET pel : Claim(p, idle)

\* An error of XAUTOCLAIM is not fatal: the loop goes on to read.
ReclaimFails(p) ==
  /\ loop[p] = "reclaim"
  /\ Goto(p, "read")
  /\ UNCHANGED <<sharedVars, subscriptionRunning, reader, iteration, batch, unsubscribed, cursor, pel>>

\* XREADGROUP with ">": the next entries nobody in the group was given; they are
\* pending from now on, also if the reply does not arrive.
Read(p) ==
  /\ loop[p] = "read" /\ reader[p] /\ cursor < published
  /\ LET new == FirstOf({e \in Event : cursor < e /\ e <= published}) IN
       /\ batch' = [batch EXCEPT ![p] = new]
       /\ cursor' = cursor + Cardinality(new)
       /\ pel' = pel \cup new
  /\ Goto(p, "fresh")
  /\ UNCHANGED <<sharedVars, subscriptionRunning, reader, iteration, unsubscribed>>

ReadReplyLost(p) ==
  /\ loop[p] = "read" /\ reader[p] /\ cursor < published
  /\ LET new == FirstOf({e \in Event : cursor < e /\ e <= published}) IN
       /\ cursor' = cursor + Cardinality(new)
       /\ pel' = pel \cup new
  /\ Goto(p, "top")
  /\ UNCHANGED <<sharedVars, subscriptionRunning, reader, iteration, batch, unsubscribed>>

\* The block timeout, or an error: after unsubscribe() has cut the reader off the
\* loop breaks, otherwise it goes on (after a delay).
ReadNothing(p) ==
  /\ loop[p] = "read"
  /\ Goto(p, IF subscriptionRunning[p] THEN "top" ELSE "ended")
  /\ UNCHANGED <<sharedVars, subscriptionRunning, reader, iteration, batch, unsubscribed, cursor, pel>>

\* The next entry of the batch goes to the callback, and the loop waits for it.
\* Only between reclaimed entries does the loop look at subscriptionRunning.
ProcessEntry(p) ==
  /\ loop[p] \in {"fresh", "reclaimed"} /\ batch[p] # {} /\ Running(p) = {}
  /\ IF loop[p] = "reclaimed" /\ ~ subscriptionRunning[p]
     THEN /\ batch' = [batch EXCEPT ![p] = {}]
          /\ Goto(p, "read")
          /\ UNCHANGED deliveryVars
     ELSE /\ StartCallback(NewDelivery(p, First(batch[p]), loop[p]))
          /\ batch' = [batch EXCEPT ![p] = @ \ {First(@)}]
          /\ UNCHANGED loop
  /\ UNCHANGED <<adapter, autoGroup, published, brokerVars, subscriptionRunning, reader, iteration,
                 unsubscribed, cursor, pel>>

\* ack() and nack(false) are an XACK, on the reader's connection, which may fail;
\* nack(true) leaves the entry pending.
RedisSettle(p, e, what) ==
  \/ what \in {"ack", "drop"} /\ reader[p] /\ gone' = gone \cup {e} /\ pel' = pel \ {e}
  \/ UNCHANGED <<gone, pel>>

RedisCallbackSettles(d, what) ==
  /\ CallbackSettles(d, what)
  /\ RedisSettle(d.process, d.event, what)
  /\ UNCHANGED <<adapter, autoGroup, published, forgotten, loopVars, cursor>>

\* The end of an entry: an error is logged for a fresh entry, and ends the pass for
\* a reclaimed one.
RedisCallbackEnds(d, resolves) ==
  LET p == d.process IN
  /\ CallbackEnds(d, resolves)
  /\ RedisSettle(p, d.event, AtEnd(d, resolves))
  /\ batch' = [batch EXCEPT ![p] = IF d.via = "reclaimed" /\ ~ resolves THEN {} ELSE @]
  /\ Goto(p, IF batch'[p] # {} THEN loop[p] ELSE IF d.via = "reclaimed" THEN "read" ELSE "top")
  /\ UNCHANGED <<adapter, autoGroup, published, forgotten, subscriptionRunning, reader, iteration, unsubscribed, cursor>>

\* unsubscribe() stops the loop, cuts the reader off and waits for the loop;
\* disconnect() does so for every subscription.
RedisUnsubscribe(p) ==
  /\ loop[p] \notin {"none", "crashed"} /\ unsubscribed[p] = "no"
  /\ subscriptionRunning' = [subscriptionRunning EXCEPT ![p] = FALSE]
  /\ reader' = [reader EXCEPT ![p] = FALSE]
  /\ unsubscribed' = [unsubscribed EXCEPT ![p] = "waiting"]
  /\ UNCHANGED <<sharedVars, loop, iteration, batch, cursor, pel>>

\* Variation: unsubscribe() does not wait for the loop.
RedisUnsubscribedAtOnce(p) ==
  /\ unsubscribed[p] = "waiting"
  /\ unsubscribed' = [unsubscribed EXCEPT ![p] = "done"]
  /\ UNCHANGED <<sharedVars, loop, subscriptionRunning, reader, iteration, batch, cursor, pel>>

RedisUnsubscribed(p) ==
  /\ unsubscribed[p] = "waiting" /\ loop[p] = "ended"
  /\ unsubscribed' = [unsubscribed EXCEPT ![p] = "done"]
  /\ UNCHANGED <<sharedVars, loop, subscriptionRunning, reader, iteration, batch, cursor, pel>>

\* The process dies.
RedisCrash(p) ==
  /\ loop[p] \notin {"none", "crashed"}
  /\ Goto(p, "crashed")
  /\ CallbacksDie(p)
  /\ batch' = [batch EXCEPT ![p] = {}]
  /\ reader' = [reader EXCEPT ![p] = FALSE]
  /\ UNCHANGED <<adapter, autoGroup, published, brokerVars, subscriptionRunning, iteration, unsubscribed, cursor, pel>>

RedisPublish == Published /\ UNCHANGED <<adapter, autoGroup, deliveryVars, brokerVars, redisVars>>

RedisLoop(p) ==
  \/ LoopTop(p) \/ Reclaim(p) \/ ReclaimFails(p)
  \/ Read(p) \/ ReadReplyLost(p) \/ ReadNothing(p) \/ ProcessEntry(p)

RedisNext ==
  \/ RedisPublish
  \/ \E p \in Process :
       RedisSubscribe(p) \/ RedisLoop(p) \/ RedisUnsubscribe(p) \/ RedisUnsubscribed(p) \/ RedisCrash(p)
  \/ \E d \in running, what \in Settlement : RedisCallbackSettles(d, what)
  \/ \E d \in running, resolves \in BOOLEAN : RedisCallbackEnds(d, resolves)
=============================================================================
