------------------------- MODULE AmqpAdapterProofs -------------------------
(***************************************************************************)
(* Proofs about AmqpAdapter, for every set of subscriptions and messages   *)
(* and every number of connections: what the confirms of the publisher     *)
(* say is true, a ready connection has the consumers of all subscriptions, *)
(* and the adapter does to its publisher only what AmqpPublisher lets it.  *)
(***************************************************************************)
EXTENDS AmqpAdapter, TLAPS

-----------------------------------------------------------------------------
(* Publishing: the shared confirm channel.                                 *)

\* The type invariant without the order of the single-flight chain, which plays no
\* part in these proofs.
Shape ==
  /\ pub \in [Message -> Outcome \cup {"idle", "queued", "sent"}]
  /\ channel \in [Message -> Link \cup {0}]
  /\ wire \in [Message -> {"none", "sent", "return", "ack", "nack"}]
  /\ fate \in [Message -> {"unknown", "routed", "unroutable", "refused"}]
  /\ pendingReturns \subseteq Message
  /\ returned \subseteq Message
  /\ openChannels \subseteq Link
  /\ publishChannel \in Link \cup {0}
  /\ links \in 0..MaxLinks

Inv == Shape /\ PublisherIInv

LEMMA InitInv == PublisherInit => Inv
  BY MaxLinksAssumption
  DEF PublisherInit, Inv, Shape, PublisherIInv, FrameMeaning, EntryMeaning, NoConfirmLost,
      ResolvedIsTaken, NackIsFromBroker, HeaderCorrelates, Outcome, Link

\* doPublish keeps the invariant, from publish() and from the chain: the message
\* was not sent before, and its channel is the one it has captured.
LEMMA DoPublishKeeps ==
  ASSUME Inv, NEW m \in Message, NEW ch \in Link,
         pub[m] \in {"idle", "queued"},
         DoPublish(m, ch),
         channel' = [channel EXCEPT ![m] = ch],
         UNCHANGED <<channelVars, returned, fate>>
  PROVE  Inv'
  <1>1. CASE ch \in openChannels
    BY <1>1 DEF DoPublish, Inv, Shape, PublisherIInv, FrameMeaning, EntryMeaning, NoConfirmLost,
      ResolvedIsTaken, NackIsFromBroker, HeaderCorrelates, Outcome, channelVars
  <1>2. CASE ch \notin openChannels
    BY <1>2 DEF DoPublish, Settle, Inv, Shape, PublisherIInv, FrameMeaning, EntryMeaning,
      NoConfirmLost, ResolvedIsTaken, NackIsFromBroker, HeaderCorrelates, Outcome, channelVars
  <1> QED BY <1>1, <1>2

\* Closing every open channel keeps it: an outstanding publish was on one of them,
\* and is classified as lost, never as nacked.
LEMMA CloseKeeps ==
  ASSUME Inv, CloseChannels
  PROVE  Inv'
  <1> DEFINE lost == {m \in Message : pub[m] = "sent" /\ channel[m] \in openChannels}
  <1>1. \A m \in Message : pub'[m] = IF m \in lost THEN "connection" ELSE pub[m]
    BY DEF CloseChannels, ChannelsClose, Classify
  <1>2. \A m \in Message : pub[m] = "sent" => m \in lost
    BY DEF Inv, PublisherIInv, NoConfirmLost
  <1>3. \A m \in Message : pub'[m] # "sent"
    BY <1>1, <1>2
  <1>4. Shape'
    BY <1>1 DEF Inv, Shape, CloseChannels, ChannelsClose, Outcome, Classify
  <1>5. \A m \in Message : wire'[m] = "none" \/ wire'[m] = wire[m]
    BY DEF CloseChannels, ChannelsClose
  <1>6. UNCHANGED <<fate, returned, correlation>>
    BY DEF CloseChannels
  <1>7. FrameMeaning'
    BY <1>1, <1>3, <1>5, <1>6 DEF Inv, PublisherIInv, FrameMeaning
  <1>8. EntryMeaning' /\ NoConfirmLost'
    BY <1>3, <1>6 DEF Inv, PublisherIInv, EntryMeaning, NoConfirmLost
  <1>9. ResolvedIsTaken' /\ NackIsFromBroker' /\ HeaderCorrelates'
    BY <1>1, <1>6 DEF Inv, PublisherIInv, ResolvedIsTaken, NackIsFromBroker, HeaderCorrelates
  <1> QED BY <1>4, <1>7, <1>8, <1>9 DEF Inv, PublisherIInv

LEMMA StepKeeps == Inv /\ [PublisherNext]_publisherVars => Inv'
  <1> SUFFICES ASSUME Inv, [PublisherNext]_publisherVars PROVE Inv'
    OBVIOUS
  <1> USE DEF Inv, Shape, PublisherIInv, FrameMeaning, EntryMeaning, NoConfirmLost,
              ResolvedIsTaken, NackIsFromBroker, HeaderCorrelates, Outcome
  <1>1. ASSUME NEW m \in Message, Publish(m) PROVE Inv'
    <2>1. publishChannel \in Link
      BY <1>1 DEF Publish
    <2>2. CASE correlation = "single"
      BY <1>1, <2>1, <2>2 DEF Publish, channelVars
    <2>3. CASE correlation # "single"
      <3>1. DoPublish(m, publishChannel) /\ channel' = [channel EXCEPT ![m] = publishChannel]
        BY <1>1, <2>3 DEF Publish
      <3>2. pub[m] \in {"idle", "queued"} /\ UNCHANGED <<channelVars, returned, fate>>
        BY <1>1 DEF Publish
      <3> QED BY <2>1, <3>1, <3>2, DoPublishKeeps
    <2> QED BY <2>2, <2>3
  <1>2. ASSUME NEW m \in Message, PublishNext(m) PROVE Inv'
    <2>1. CASE channel[m] \in Link
      <3>1. DoPublish(m, channel[m]) /\ channel' = [channel EXCEPT ![m] = channel[m]]
        BY <1>2 DEF PublishNext
      <3>2. pub[m] \in {"idle", "queued"} /\ UNCHANGED <<channelVars, returned, fate>>
        BY <1>2 DEF PublishNext
      <3> QED BY <2>1, <3>1, <3>2, DoPublishKeeps
    <2>2. CASE channel[m] \notin Link
      BY <1>2, <2>2 DEF PublishNext, DoPublish, Settle, channelVars
    <2> QED BY <2>1, <2>2
  <1>3. ASSUME NEW m \in Message, TimesOut(m) PROVE Inv'
    BY <1>3 DEF TimesOut, Settle, channelVars
  <1>4. ASSUME NEW m \in Message, BrokerProcesses(m) PROVE Inv'
    BY <1>4 DEF BrokerProcesses, channelVars
  <1>5. ASSUME NEW m \in Message, ReceiveReturn(m) PROVE Inv'
    BY <1>5 DEF ReceiveReturn, channelVars
  <1>6. ASSUME NEW m \in Message, ReceiveConfirm(m) PROVE Inv'
    <2>1. CASE pub[m] = "sent" /\ wire[m] = "nack"
      BY <1>6, <2>1 DEF ReceiveConfirm, Settle, Classify, channelVars
    <2>2. CASE pub[m] = "sent" /\ wire[m] = "ack"
      BY <1>6, <2>2 DEF ReceiveConfirm, Settle, channelVars
    <2>3. CASE pub[m] # "sent"
      BY <1>6, <2>3 DEF ReceiveConfirm, channelVars
    <2> QED BY <1>6, <2>1, <2>2, <2>3 DEF ReceiveConfirm
  <1>7. CASE OpenChannel
    BY <1>7, MaxLinksAssumption DEF OpenChannel, publishVars, Link
  <1>8. CASE CloseChannels
    BY <1>8, CloseKeeps
  <1>9. CASE ClearChannel
    BY <1>9 DEF ClearChannel, publishVars
  <1>10. CASE SetClosing
    BY <1>10 DEF SetClosing, publishVars
  <1>11. CASE UNCHANGED publisherVars
    BY <1>11 DEF publisherVars, publishVars, channelVars
  <1> QED
    BY <1>1, <1>2, <1>3, <1>4, <1>5, <1>6, <1>7, <1>8, <1>9, <1>10, <1>11
    DEF PublisherNext, PublishStep

LEMMA Invariance == PublisherSpec => []Inv
  BY InitInv, StepKeeps, PTL DEF PublisherSpec

\* publish() resolves only for messages the broker has taken over.
THEOREM PublishedIsTaken == PublisherSpec => []ResolvedIsTaken
  <1>1. Inv => ResolvedIsTaken
    BY DEF Inv, PublisherIInv
  <1> QED BY <1>1, Invariance, PTL

\* AmqpPublishNackError always comes from a nack of the broker, whatever happens
\* to the channel.
THEOREM NacksAreReal == PublisherSpec => []NackIsFromBroker
  <1>1. Inv => NackIsFromBroker
    BY DEF Inv, PublisherIInv
  <1> QED BY <1>1, Invariance, PTL

\* Correlation by the header attributes a return to its own publish, for any
\* number of publishes, timeouts and reconnections.
THEOREM HeaderCorrelation == PublisherSpec => []HeaderCorrelates
  <1>1. Inv => HeaderCorrelates
    BY DEF Inv, PublisherIInv
  <1> QED BY <1>1, Invariance, PTL

\* No publish waits for a confirm on a closed channel.
THEOREM ConfirmsArrive == PublisherSpec => []NoConfirmLost
  <1>1. Inv => NoConfirmLost
    BY DEF Inv, PublisherIInv
  <1> QED BY <1>1, Invariance, PTL

-----------------------------------------------------------------------------
(* Subscriptions *)

SubscriptionsTyped ==
  /\ sub \in [Sub -> {"none", "starting", "subscribed", "closing", "closed"}]
  /\ active \in [Sub -> BOOLEAN]
  /\ subscriptionRecords \in Seq(Sub)
  /\ position \in Nat

\* A connection that is up is held in connection, one that is dialed or set up has
\* an owner, and onSetup runs only on a connection in setup.
LinkMeaning ==
  /\ link = "up" => connection
  /\ link \in {"dialing", "setup"} => connection \/ connecting
  /\ setup # "none" => link = "setup"

\* A subscription that was not ended is active and in the list; subscribe() waits
\* on a connection that is up.
RecordMeaning ==
  /\ \A s \in Sub : sub[s] = "subscribed" =>
       active[s] /\ \E i \in 1..Len(subscriptionRecords) : subscriptionRecords[i] = s
  /\ \A s \in Sub : sub[s] = "starting" => link = "up"

Accounted == consumers \cup dropped \cup skipped

\* While onSetup replays, a subscription without a consumer is the one that is
\* replayed, or is still after the loop's index, or was jumped over.
ReplayMeaning ==
  /\ \A s \in Sub : sub[s] = "subscribed" =>
       /\ link = "up" => s \in Accounted
       /\ setup = "replay" =>
            \/ s \in Accounted
            \/ s \in replaying
            \/ /\ replaying # {}
               /\ \E i \in (position + 1)..Len(subscriptionRecords) : subscriptionRecords[i] = s
  /\ \A r, t \in replaying : r = t

AdapterIInv == SubscriptionsTyped /\ LinkMeaning /\ RecordMeaning /\ ReplayMeaning

\* The loop goes on: a subscription with an index at or after "from" is at or
\* after the record the loop has come to.
LEMMA ReplayFromReaches ==
  ASSUME SubscriptionsTyped, NEW from \in Nat \ {0}, ReplayFrom(from)
  PROVE  /\ position' \in Nat
         /\ \A r, t \in replaying' : r = t
         /\ \A i \in from..Len(subscriptionRecords) :
              active[subscriptionRecords[i]] =>
                /\ replaying' # {}
                /\ \/ subscriptionRecords[i] \in replaying'
                   \/ i \in (position' + 1)..Len(subscriptionRecords)
  <1> DEFINE rest == {i \in from..Len(subscriptionRecords) : active[subscriptionRecords[i]]}
  <1>0. Len(subscriptionRecords) \in Nat
    BY DEF SubscriptionsTyped
  <1>1. CASE rest = {}
    <2>1. replaying' = {} /\ position' = 0
      BY <1>1 DEF ReplayFrom
    <2>2. \A i \in from..Len(subscriptionRecords) : ~ active[subscriptionRecords[i]]
      BY <1>1
    <2> QED BY <2>1, <2>2
  <1>2. CASE rest # {}
    <2>1. PICK i \in rest : /\ \A j \in rest : i <= j
                            /\ replaying' = {subscriptionRecords[i]}
                            /\ position' = i
      BY <1>2 DEF ReplayFrom
    <2>2. i \in 1..Len(subscriptionRecords)
      BY <1>0, <2>1
    <2> QED BY <1>0, <2>1, <2>2
  <1> QED BY <1>1, <1>2

\* A record is taken out of the list: the others stay in it, and one that is still
\* after the loop's index stays so or is recorded as jumped over.
LEMMA RemoveRecordKeeps ==
  ASSUME SubscriptionsTyped, NEW r \in Sub, RemoveRecord(r)
  PROVE  /\ subscriptionRecords' \in Seq(Sub) /\ skipped \subseteq skipped'
         /\ \A s \in Sub \ {r} :
              /\ (\E i \in 1..Len(subscriptionRecords) : subscriptionRecords[i] = s) =>
                   \E i \in 1..Len(subscriptionRecords') : subscriptionRecords'[i] = s
              /\ replaying # {}
                 /\ (\E i \in (position + 1)..Len(subscriptionRecords) : subscriptionRecords[i] = s) =>
                   \/ s \in skipped'
                   \/ \E i \in (position + 1)..Len(subscriptionRecords') : subscriptionRecords'[i] = s
  <1> DEFINE len == Len(subscriptionRecords)
             at == {i \in 1..len : subscriptionRecords[i] = r}
  <1>0. subscriptionRecords \in Seq(Sub) /\ len \in Nat /\ position \in Nat
    BY DEF SubscriptionsTyped
  <1>1. CASE at = {}
    BY <1>0, <1>1 DEF RemoveRecord
  <1>2. CASE at # {}
    <2>1. PICK h \in at :
             /\ subscriptionRecords' = [k \in 1..(len - 1) |->
                                          subscriptionRecords[IF k < h THEN k ELSE k + 1]]
             /\ skipped' = IF replaying # {} /\ h <= position /\ position < len
                           THEN skipped \cup {subscriptionRecords[position + 1]} ELSE skipped
      BY <1>0, <1>2 DEF RemoveRecord
    <2>2. h \in 1..len /\ subscriptionRecords[h] = r /\ len - 1 \in Nat
      BY <1>0, <2>1
    <2>3. \A k \in 1..(len - 1) : subscriptionRecords[IF k < h THEN k ELSE k + 1] \in Sub
      BY <1>0, <2>2
    <2>4. subscriptionRecords' \in Seq(Sub) /\ Len(subscriptionRecords') = len - 1
      BY <2>1, <2>2, <2>3
    <2>5. ASSUME NEW s \in Sub \ {r}, NEW i \in 1..len, subscriptionRecords[i] = s
          PROVE  /\ \E k \in 1..(len - 1) : subscriptionRecords'[k] = s
                 /\ \/ i > h /\ i - 1 \in 1..(len - 1) /\ subscriptionRecords'[i - 1] = s
                    \/ i < h /\ i \in 1..(len - 1) /\ subscriptionRecords'[i] = s
      <3>1. i # h
        BY <2>2, <2>5
      <3>2. CASE i < h
        <4>1. i \in 1..(len - 1)
          BY <1>0, <2>2, <3>2
        <4> QED BY <2>1, <2>5, <3>2, <4>1
      <3>3. CASE i > h
        <4>1. i - 1 \in 1..(len - 1) /\ ~ (i - 1 < h) /\ (i - 1) + 1 = i
          BY <1>0, <2>2, <3>3
        <4>2. subscriptionRecords'[i - 1] = s
          BY <2>1, <2>5, <4>1
        <4>3. \E k \in 1..(len - 1) : subscriptionRecords'[k] = s
          BY <4>1, <4>2
        <4> QED BY <3>3, <4>1, <4>2, <4>3
      <3> QED BY <1>0, <2>2, <3>1, <3>2, <3>3
    <2>6. ASSUME NEW s \in Sub \ {r}, replaying # {}, NEW i \in (position + 1)..len,
                 subscriptionRecords[i] = s
          PROVE  s \in skipped' \/ \E k \in (position + 1)..(len - 1) : subscriptionRecords'[k] = s
      <3>0. i \in 1..len /\ i > position
        BY <1>0
      <3>1. CASE i < h
        <4>1. i \in (position + 1)..(len - 1) /\ subscriptionRecords'[i] = s
          BY <1>0, <2>2, <2>5, <2>6, <3>0, <3>1
        <4> QED BY <4>1
      <3>2. CASE i > h /\ i = position + 1
        BY <1>0, <2>1, <2>2, <2>6, <3>0, <3>2
      <3>3. CASE i > h /\ i > position + 1
        <4>1. i - 1 \in (position + 1)..(len - 1) /\ subscriptionRecords'[i - 1] = s
          BY <1>0, <2>2, <2>5, <2>6, <3>0, <3>3
        <4> QED BY <4>1
      <3> QED BY <1>0, <2>2, <2>5, <2>6, <3>0, <3>1, <3>2, <3>3
    <2>7. skipped \subseteq skipped'
      BY <2>1
    <2> HIDE DEF at
    <2> QED BY <2>4, <2>5, <2>6, <2>7
  <1> QED BY <1>1, <1>2

LEMMA AdapterInitIInv == Init => AdapterIInv
  BY DEF Init, AdapterIInv, SubscriptionsTyped, LinkMeaning, RecordMeaning, ReplayMeaning

\* A connection ends: its consumers are gone, and so is every call that waited on
\* it.  Until the next one is up nothing is promised.
LEMMA ConnectionEndsKeeps ==
  ASSUME AdapterIInv, ConnectionEnds, UNCHANGED <<subscriptionRecords, active>>, link' # "up"
  PROVE  SubscriptionsTyped' /\ RecordMeaning' /\ ReplayMeaning'
  <1>1. SubscriptionsTyped'
    BY DEF AdapterIInv, SubscriptionsTyped, ConnectionEnds
  <1>2. \A s \in Sub : /\ sub'[s] # "starting"
                       /\ sub'[s] \in {"subscribed", "closing"} => sub'[s] = sub[s]
    BY DEF ConnectionEnds
  <1>3. RecordMeaning'
    BY <1>2 DEF AdapterIInv, RecordMeaning
  <1>4. ReplayMeaning'
    BY DEF ReplayMeaning, ConnectionEnds
  <1> QED BY <1>1, <1>3, <1>4

LEMMA AdapterStepKeeps ==
  ASSUME AdapterIInv, [Next]_vars
  PROVE  AdapterIInv'
  <1> USE DEF AdapterIInv, Accounted
  <1>1. CASE UNCHANGED <<linkVars, setupVars, sub, active, subscriptionRecords, consumers, dropped,
                         skipped>>
    BY <1>1 DEF linkVars, setupVars, SubscriptionsTyped, LinkMeaning, RecordMeaning, ReplayMeaning
  <1>2. CASE Connect
    BY <1>2 DEF Connect, setupVars, subVars, SubscriptionsTyped, LinkMeaning, RecordMeaning,
                ReplayMeaning
  <1>3. CASE Dialed
    BY <1>3 DEF Dialed, subVars, SubscriptionsTyped, LinkMeaning, RecordMeaning, ReplayMeaning
  <1>4. CASE DialFails
    BY <1>4 DEF DialFails, AttemptFails, setupVars, subVars, SubscriptionsTyped, LinkMeaning,
                RecordMeaning, ReplayMeaning
  <1>5. CASE ConnectionLost
    <2>1. SubscriptionsTyped' /\ RecordMeaning' /\ ReplayMeaning'
      BY <1>5, ConnectionEndsKeeps DEF ConnectionLost
    <2>2. LinkMeaning'
      BY <1>5 DEF ConnectionLost, ConnectionEnds, LinkMeaning
    <2> QED BY <2>1, <2>2
  <1>6. ASSUME NEW topologyError \in BOOLEAN, SetupFails(topologyError)
        PROVE  AdapterIInv'
    <2>0. link' # "up"
      BY <1>6 DEF SetupFails, AttemptFails
    <2>1. SubscriptionsTyped' /\ RecordMeaning' /\ ReplayMeaning'
      BY <1>6, <2>0, ConnectionEndsKeeps DEF SetupFails
    <2>2. LinkMeaning'
      BY <1>6 DEF SetupFails, AttemptFails, ConnectionEnds, LinkMeaning
    <2> QED BY <2>1, <2>2
  <1>7. CASE SetupChannel
    BY <1>7 DEF SetupChannel, linkVars, subVars, SubscriptionsTyped, LinkMeaning, RecordMeaning,
                ReplayMeaning
  <1>8. CASE SetupTopology
    <2>1. UNCHANGED <<link, connection, connecting, sub, active, subscriptionRecords>>
          /\ setup = "topology" /\ setup' = "replay" /\ ReplayFrom(1)
      BY <1>8 DEF SetupTopology, linkVars, subVars
    <2>2. SubscriptionsTyped' /\ LinkMeaning' /\ RecordMeaning'
      BY <2>1, ReplayFromReaches DEF SubscriptionsTyped, LinkMeaning, RecordMeaning
    <2>3. ReplayMeaning'
      <3>1. ASSUME NEW s \in Sub, sub[s] = "subscribed"
            PROVE  /\ replaying' # {}
                   /\ \/ s \in replaying'
                      \/ \E i \in (position' + 1)..Len(subscriptionRecords) : subscriptionRecords[i] = s
        <4>1. PICK i \in 1..Len(subscriptionRecords) : subscriptionRecords[i] = s /\ active[s]
          BY <3>1 DEF RecordMeaning
        <4> QED BY <2>1, <4>1, ReplayFromReaches
      <3>2. link' # "up" /\ \A r, t \in replaying' : r = t
        BY <2>1, ReplayFromReaches DEF LinkMeaning
      <3> QED BY <2>1, <3>1, <3>2 DEF ReplayMeaning
    <2> QED BY <2>2, <2>3
  <1>9. ASSUME NEW r \in Sub, Replayed(r)
        PROVE  AdapterIInv'
    <2>1. UNCHANGED <<setup, link, connection, connecting, sub, active, subscriptionRecords>>
          /\ r \in replaying /\ ReplayFrom(position + 1)
          /\ consumers' = consumers \cup {r} /\ UNCHANGED <<dropped, skipped>>
      BY <1>9 DEF Replayed, linkVars
    <2>2. position + 1 \in Nat \ {0}
      BY DEF SubscriptionsTyped
    <2>3. SubscriptionsTyped' /\ LinkMeaning' /\ RecordMeaning'
      BY <2>1, <2>2, ReplayFromReaches DEF SubscriptionsTyped, LinkMeaning, RecordMeaning
    <2>4. ReplayMeaning'
      <3>1. ASSUME NEW s \in Sub, sub[s] = "subscribed", setup = "replay", s \notin Accounted'
            PROVE  /\ replaying' # {}
                   /\ \/ s \in replaying'
                      \/ \E i \in (position' + 1)..Len(subscriptionRecords) : subscriptionRecords[i] = s
        <4>1. s \notin replaying /\ s \notin Accounted
          BY <2>1, <3>1 DEF ReplayMeaning
        <4>2. PICK i \in (position + 1)..Len(subscriptionRecords) : subscriptionRecords[i] = s
          BY <3>1, <4>1 DEF ReplayMeaning
        <4>3. active[s]
          BY <3>1 DEF RecordMeaning
        <4> HIDE DEF Accounted, AdapterIInv
        <4> QED BY <2>1, <2>2, <4>2, <4>3, ReplayFromReaches DEF AdapterIInv
      <3>2. \A s \in Sub : sub[s] = "subscribed" /\ link = "up" => s \in Accounted'
        BY <2>1 DEF ReplayMeaning
      <3>3. \A q, t \in replaying' : q = t
        BY <2>1, <2>2, ReplayFromReaches
      <3> QED
        <4> HIDE DEF Accounted
        <4> QED BY <2>1, <3>1, <3>2, <3>3 DEF ReplayMeaning
    <2> QED BY <2>3, <2>4
  <1>10. CASE SetupDone
    <2>1. SubscriptionsTyped' /\ LinkMeaning'
      BY <1>10 DEF SetupDone, SubscriptionsTyped, LinkMeaning
    <2>2. RecordMeaning' /\ ReplayMeaning'
      BY <1>10 DEF SetupDone, LinkMeaning, RecordMeaning, ReplayMeaning
    <2> QED BY <2>1, <2>2
  <1>11. ASSUME NEW r \in Sub, Subscribe(r)
         PROVE  AdapterIInv'
    BY <1>11 DEF Subscribe, linkVars, setupVars, SubscriptionsTyped, LinkMeaning, RecordMeaning,
                 ReplayMeaning
  <1>12. ASSUME NEW r \in Sub, Subscribed(r)
         PROVE  AdapterIInv'
    <2>0. link = "up" /\ setup = "none"
      BY <1>12 DEF Subscribed, RecordMeaning, LinkMeaning
    <2>1. CASE sub' = [sub EXCEPT ![r] = "none"] /\ UNCHANGED <<active, consumers, dropped, skipped, subscriptionRecords>>
      BY <1>12, <2>1 DEF Subscribed, linkVars, setupVars, SubscriptionsTyped, LinkMeaning,
                  RecordMeaning, ReplayMeaning
    <2>2. CASE /\ sub' = [sub EXCEPT ![r] = "subscribed"]
               /\ active' = [active EXCEPT ![r] = TRUE]
               /\ consumers' = consumers \cup {r}
               /\ UNCHANGED <<dropped, skipped>>
               /\ subscriptionRecords' = Append(subscriptionRecords, r)
      <3>1. UNCHANGED <<link, connection, connecting, setup, position, replaying>>
        BY <1>12 DEF Subscribed, linkVars, setupVars
      <3>2. SubscriptionsTyped' /\ LinkMeaning'
        BY <2>2, <3>1 DEF SubscriptionsTyped, LinkMeaning
      <3>3. /\ Len(subscriptionRecords') = Len(subscriptionRecords) + 1
            /\ \A i \in 1..Len(subscriptionRecords) : subscriptionRecords'[i] = subscriptionRecords[i]
            /\ subscriptionRecords'[Len(subscriptionRecords) + 1] = r
            /\ Len(subscriptionRecords) \in Nat
        BY <2>2 DEF SubscriptionsTyped
      <3>4. \A s \in Sub : (\E i \in 1..Len(subscriptionRecords) : subscriptionRecords[i] = s) \/ s = r
                => \E i \in 1..Len(subscriptionRecords') : subscriptionRecords'[i] = s
        BY <3>3
      <3>5. RecordMeaning'
        BY <1>12, <2>2, <3>1, <3>4 DEF Subscribed, SubscriptionsTyped, RecordMeaning
      <3>6. ReplayMeaning'
        BY <2>0, <2>2, <3>1 DEF SubscriptionsTyped, ReplayMeaning
      <3> QED BY <3>2, <3>5, <3>6
    <2> QED BY <1>12, <2>1, <2>2 DEF Subscribed
  <1>13. ASSUME NEW S \in SUBSET Sub, Unsubscribe(S)
         PROVE  AdapterIInv'
    <2>1. \A s \in Sub : /\ sub'[s] \in {"starting", "subscribed"} => sub'[s] = sub[s] /\ s \notin S
                         /\ s \notin S => active'[s] = active[s]
      BY <1>13 DEF Unsubscribe, SubscriptionsTyped
    <2>2. SubscriptionsTyped' /\ LinkMeaning'
      BY <1>13 DEF Unsubscribe, linkVars, setupVars, SubscriptionsTyped, LinkMeaning
    <2>3. RecordMeaning' /\ ReplayMeaning'
      BY <1>13, <2>1 DEF Unsubscribe, linkVars, setupVars, RecordMeaning, ReplayMeaning
    <2> QED BY <2>2, <2>3
  <1>14. ASSUME NEW r \in Sub, Unsubscribed(r)
         PROVE  AdapterIInv'
    <2>1. /\ UNCHANGED <<link, connection, connecting, setup, position, replaying, active, dropped>>
          /\ RemoveRecord(r)
          /\ \A s \in consumers : s # r => s \in consumers'
          /\ sub' = [sub EXCEPT ![r] = "closed"]
      BY <1>14 DEF Unsubscribed, linkVars, setupVars
    <2>2. /\ subscriptionRecords' \in Seq(Sub) /\ skipped \subseteq skipped'
          /\ \A s \in Sub \ {r} :
               /\ (\E i \in 1..Len(subscriptionRecords) : subscriptionRecords[i] = s) =>
                    \E i \in 1..Len(subscriptionRecords') : subscriptionRecords'[i] = s
               /\ replaying # {}
                  /\ (\E i \in (position + 1)..Len(subscriptionRecords) : subscriptionRecords[i] = s) =>
                    \/ s \in skipped'
                    \/ \E i \in (position + 1)..Len(subscriptionRecords') : subscriptionRecords'[i] = s
      BY <2>1, RemoveRecordKeeps
    <2>3. SubscriptionsTyped' /\ LinkMeaning'
      BY <2>1, <2>2 DEF SubscriptionsTyped, LinkMeaning
    <2>4. \A s \in Sub : sub'[s] \in {"starting", "subscribed"} => sub'[s] = sub[s] /\ s # r
      BY <2>1 DEF SubscriptionsTyped
    <2>5. RecordMeaning'
      BY <2>1, <2>2, <2>4 DEF RecordMeaning
    <2>6. ReplayMeaning'
      BY <2>1, <2>2, <2>4 DEF ReplayMeaning
    <2> QED BY <2>3, <2>5, <2>6
  <1>18. ASSUME NEW r \in Sub, ConsumerEnds(r)
         PROVE  AdapterIInv'
    <2>1. Accounted' = Accounted
      BY <1>18 DEF ConsumerEnds
    <2> HIDE DEF Accounted
    <2> QED BY <1>18, <2>1 DEF ConsumerEnds, linkVars, setupVars, SubscriptionsTyped, LinkMeaning,
                               RecordMeaning, ReplayMeaning
  <1>15. CASE DisconnectRecords
    <2>1. \A s \in Sub : /\ sub'[s] # "subscribed"
                         /\ sub'[s] \in {"starting", "closing"} => sub[s] = sub'[s]
      BY <1>15 DEF DisconnectRecords, RecordMeaning
    <2>2. SubscriptionsTyped' /\ LinkMeaning'
      BY <1>15 DEF DisconnectRecords, linkVars, setupVars, SubscriptionsTyped, LinkMeaning
    <2>3. RecordMeaning' /\ ReplayMeaning'
      BY <1>15, <2>1 DEF DisconnectRecords, linkVars, setupVars, RecordMeaning, ReplayMeaning
    <2> QED BY <2>2, <2>3
  <1>16. CASE DisconnectConnection
    <2>1. SubscriptionsTyped' /\ RecordMeaning' /\ ReplayMeaning'
      BY <1>16, ConnectionEndsKeeps DEF DisconnectConnection
    <2>2. LinkMeaning'
      BY <1>16 DEF DisconnectConnection, ConnectionEnds, LinkMeaning
    <2> QED BY <2>1, <2>2
  <1>17. CASE Disconnect \/ DisconnectChannel \/ (PublishStep /\ UNCHANGED adapterVars)
              \/ UNCHANGED vars
    BY <1>1, <1>17 DEF Disconnect, DisconnectChannel, adapterVars, vars, subVars
  <1> QED
    BY <1>2, <1>3, <1>4, <1>5, <1>6, <1>7, <1>8, <1>9, <1>10, <1>11, <1>12, <1>13, <1>14, <1>15,
       <1>16, <1>17, <1>18
    DEF Next, SetupStep, DisconnectStep

LEMMA AdapterInvariance == Spec => []AdapterIInv
  <1>1. AdapterIInv /\ [Next]_vars => AdapterIInv'
    BY AdapterStepKeeps
  <1> QED BY <1>1, AdapterInitIInv, PTL DEF Spec

\* On a connection that is ready, first or recovered, every subscription that was
\* not ended has its consumer, except one that has lost it since and one that the
\* end of another subscription made the replay jump over.
THEOREM ReplayIsComplete == Spec => []ActiveAreConsumed
  <1>1. AdapterIInv => ActiveAreConsumed
    BY DEF AdapterIInv, ReplayMeaning, Accounted, ActiveAreConsumed
  <1> QED BY <1>1, AdapterInvariance, PTL

-----------------------------------------------------------------------------
(* The publisher *)

\* Only the latest connection has an open confirm channel, which is the publish
\* channel, and only while it is alive and past its first setup step; frames and
\* entries are those of publishes that are outstanding on it.
ChannelMeaning ==
  /\ openChannels \subseteq {links}
  /\ openChannels # {} => publishChannel = links /\ Alive /\ setup # "channel"
  /\ \A m \in Message : wire[m] # "none" => channel[m] \in openChannels
  /\ \A m \in pendingReturns : pub[m] = "sent"

ComposedIInv == Inv /\ LinkMeaning /\ ChannelMeaning

LEMMA ComposedInitIInv == Init => ComposedIInv
  <1> SUFFICES ASSUME Init PROVE ComposedIInv
    OBVIOUS
  <1>1. Inv
    BY InitInv DEF Init
  <1>2. LinkMeaning
    BY DEF Init, LinkMeaning
  <1>3. ChannelMeaning
    BY DEF Init, PublisherInit, ChannelMeaning
  <1> QED BY <1>1, <1>2, <1>3 DEF ComposedIInv

\* Without an open channel no publish is outstanding.
LEMMA ClosedIsQuiet ==
  ASSUME ComposedIInv, openChannels = {}
  PROVE  /\ \A m \in Message : pub[m] # "sent" /\ wire[m] = "none"
         /\ pendingReturns = {}
  BY DEF ComposedIInv, Inv, Shape, PublisherIInv, NoConfirmLost, ChannelMeaning

\* Closing the channel of a connection, whichever name it has at the moment, is
\* closing all open channels, or a stuttering step when there is none.
LEMMA CloseIsCloseChannels ==
  ASSUME ComposedIInv, NEW closed, closed \in {{links}, {publishChannel}, openChannels},
         ChannelsClose(closed), publishChannel' \in {publishChannel, 0},
         UNCHANGED <<correlation, closing, links, channel, returned, fate>>
  PROVE  /\ [PublisherNext]_publisherVars
         /\ openChannels' = {}
         /\ ChannelMeaning'
  <1> USE DEF ComposedIInv, ChannelMeaning
  <1>1. CASE openChannels = {}
    <2>1. /\ \A m \in Message : pub[m] # "sent" /\ wire[m] = "none"
          /\ pendingReturns = {}
      BY <1>1, ClosedIsQuiet
    <2>2. UNCHANGED <<openChannels, pub, wire, pendingReturns, mandatoryChain>>
      <3> DEFINE lost == {m \in Message : pub[m] = "sent" /\ channel[m] \in closed}
      <3>1. lost = {}
        BY <2>1
      <3>2. openChannels' = openChannels /\ pendingReturns' = pendingReturns
        BY <1>1, <2>1 DEF ChannelsClose
      <3>3. mandatoryChain' = mandatoryChain
        BY <3>1 DEF ChannelsClose
      <3>4. pub' = [m \in Message |-> pub[m]] /\ wire' = [m \in Message |-> wire[m]]
        BY <2>1 DEF ChannelsClose
      <3> QED BY <3>2, <3>3, <3>4 DEF Inv, Shape
    <2>3. ClearChannel \/ UNCHANGED publisherVars
      BY <2>2 DEF ClearChannel, publisherVars, publishVars, channelVars
    <2>4. ChannelMeaning'
      BY <1>1, <2>1, <2>2
    <2> QED BY <1>1, <2>2, <2>3, <2>4 DEF PublisherNext
  <1>2. CASE openChannels # {}
    <2>1. closed = openChannels
      BY <1>2
    <2>2. CloseChannels
      BY <1>2, <2>1 DEF CloseChannels
    <2>3. openChannels' = {}
      BY <2>1 DEF ChannelsClose
    <2>4. \A m \in Message : pub[m] = "sent" => channel[m] \in closed
      BY <2>1 DEF Inv, PublisherIInv, NoConfirmLost
    <2>5. pendingReturns' = {}
      BY <2>1, <2>4 DEF ChannelsClose, Inv, Shape
    <2>6. \A m \in Message : wire'[m] = "none"
      BY <2>1 DEF ChannelsClose
    <2>7. ChannelMeaning'
      BY <2>3, <2>5, <2>6
    <2> QED BY <2>2, <2>3, <2>7 DEF PublisherNext
  <1> QED BY <1>1, <1>2

\* The steps of a publish keep frames and entries together with their publish.
LEMMA PublishStepKeepsChannels ==
  ASSUME ComposedIInv, PublishStep, UNCHANGED adapterVars
  PROVE  ChannelMeaning'
  <1> USE DEF ComposedIInv, ChannelMeaning, Inv, Shape
  <1>0. UNCHANGED <<link, setup>>
    BY DEF adapterVars, linkVars, setupVars
  <1>1. UNCHANGED channelVars
    BY DEF PublishStep, Publish, PublishNext, TimesOut, BrokerProcesses, ReceiveReturn,
           ReceiveConfirm
  <1>2. /\ openChannels' \subseteq {links'}
        /\ openChannels' # {} => publishChannel' = links' /\ Alive' /\ setup' # "channel"
    BY <1>0, <1>1 DEF channelVars, Alive
  <1>3. /\ \A m \in Message : wire'[m] # "none" => channel'[m] \in openChannels
        /\ \A m \in pendingReturns' : pub'[m] = "sent"
    <2>1. ASSUME NEW m \in Message, Publish(m) PROVE <1>3!:
      BY <2>1 DEF Publish, DoPublish, Settle, PublisherIInv, FrameMeaning
    <2>2. ASSUME NEW m \in Message, PublishNext(m) PROVE <1>3!:
      BY <2>2 DEF PublishNext, DoPublish, Settle
    <2>3. ASSUME NEW m \in Message, TimesOut(m) PROVE <1>3!:
      BY <2>3 DEF TimesOut, Settle
    <2>4. ASSUME NEW m \in Message, BrokerProcesses(m) PROVE <1>3!:
      BY <2>4 DEF BrokerProcesses
    <2>5. ASSUME NEW m \in Message, ReceiveReturn(m) PROVE <1>3!:
      BY <2>5 DEF ReceiveReturn
    <2>6. ASSUME NEW m \in Message, ReceiveConfirm(m) PROVE <1>3!:
      BY <2>6 DEF ReceiveConfirm, Settle
    <2> QED BY <2>1, <2>2, <2>3, <2>4, <2>5, <2>6 DEF PublishStep
  <1> QED BY <1>1, <1>2, <1>3 DEF channelVars

\* Every step of the adapter is a step of the publisher, or leaves it alone.
LEMMA ComposedStep ==
  ASSUME ComposedIInv, [Next]_vars
  PROVE  /\ [PublisherNext]_publisherVars
         /\ LinkMeaning'
         /\ ChannelMeaning'
  <1> DEFINE Goal == [PublisherNext]_publisherVars /\ LinkMeaning' /\ ChannelMeaning'
  <1> SUFFICES Goal
    OBVIOUS
  <1>1. CASE UNCHANGED <<publisherVars, link, connection, connecting, setup>>
    BY <1>1 DEF publisherVars, channelVars, publishVars, ComposedIInv, LinkMeaning,
                ChannelMeaning, Alive
  <1>2. CASE PublishStep /\ UNCHANGED adapterVars
    <2>1. ChannelMeaning'
      BY <1>2, PublishStepKeepsChannels
    <2>2. LinkMeaning'
      BY <1>2 DEF ComposedIInv, LinkMeaning, adapterVars, linkVars, setupVars
    <2> QED BY <1>2, <2>1, <2>2 DEF PublisherNext
  <1>3. CASE Connect
    <2>1. SetClosing
      BY <1>3 DEF Connect, SetClosing
    <2>2. openChannels = {}
      BY <1>3 DEF Connect, ComposedIInv, LinkMeaning, ChannelMeaning, Alive
    <2>3. ChannelMeaning'
      BY <1>3, <2>2 DEF Connect, publishVars, ComposedIInv, ChannelMeaning
    <2>4. LinkMeaning'
      BY <1>3 DEF Connect, setupVars, ComposedIInv, LinkMeaning
    <2> QED BY <2>1, <2>3, <2>4 DEF PublisherNext
  <1>4. CASE Dialed
    <2>1. openChannels = {}
      BY <1>4 DEF Dialed, ComposedIInv, ChannelMeaning, Alive
    <2>2. UNCHANGED publisherVars
      BY <1>4, <2>1, ClosedIsQuiet DEF Dialed, publisherVars, publishVars
    <2>3. ChannelMeaning'
      BY <2>1, <2>2 DEF publisherVars, publishVars, channelVars, ComposedIInv, ChannelMeaning
    <2>4. LinkMeaning'
      BY <1>4 DEF Dialed, ComposedIInv, LinkMeaning
    <2> QED BY <2>2, <2>3, <2>4
  <1>5. CASE DialFails
    <2>1. openChannels = {}
      BY <1>5 DEF DialFails, ComposedIInv, ChannelMeaning, Alive
    <2>2. ClearChannel \/ UNCHANGED publisherVars
      BY <1>5 DEF DialFails, AttemptFails, ClearChannel, publisherVars, publishVars, channelVars
    <2>3. ChannelMeaning'
      BY <1>5, <2>1 DEF DialFails, publishVars, ComposedIInv, ChannelMeaning
    <2>4. LinkMeaning'
      BY <1>5 DEF DialFails, AttemptFails, setupVars, ComposedIInv, LinkMeaning
    <2> QED BY <2>2, <2>3, <2>4 DEF PublisherNext
  <1>6. CASE ConnectionLost
    <2>1. [PublisherNext]_publisherVars /\ ChannelMeaning'
      BY <1>6, CloseIsCloseChannels DEF ConnectionLost
    <2>2. LinkMeaning'
      BY <1>6 DEF ConnectionLost, ConnectionEnds, ComposedIInv, LinkMeaning
    <2> QED BY <2>1, <2>2
  <1>7. ASSUME NEW topologyError \in BOOLEAN, SetupFails(topologyError)
        PROVE  Goal
    <2>0. publishChannel' \in {publishChannel, 0}
      BY <1>7 DEF SetupFails, AttemptFails
    <2>1. [PublisherNext]_publisherVars /\ ChannelMeaning'
      BY <1>7, <2>0, CloseIsCloseChannels DEF SetupFails
    <2>2. LinkMeaning'
      BY <1>7 DEF SetupFails, AttemptFails, ConnectionEnds, ComposedIInv, LinkMeaning
    <2> QED BY <2>1, <2>2
  <1>8. CASE SetupChannel
    <2>1. link = "setup" /\ UNCHANGED <<link, connection, connecting>>
      BY <1>8 DEF SetupChannel, linkVars, ComposedIInv, LinkMeaning
    <2>2. ChannelMeaning'
      BY <1>8, <2>1 DEF SetupChannel, OpenChannel, publishVars, ComposedIInv, ChannelMeaning,
                        Alive
    <2>3. LinkMeaning'
      BY <1>8, <2>1 DEF SetupChannel, ComposedIInv, LinkMeaning
    <2> QED BY <1>8, <2>2, <2>3 DEF SetupChannel, PublisherNext
  <1>9. CASE SetupTopology
    <2>1. UNCHANGED publisherVars /\ setup' = "replay" /\ setup = "topology"
          /\ UNCHANGED <<link, connection, connecting>>
      BY <1>9 DEF SetupTopology, linkVars
    <2>2. LinkMeaning' /\ ChannelMeaning'
      BY <2>1 DEF publisherVars, publishVars, channelVars, ComposedIInv, LinkMeaning,
                  ChannelMeaning, Alive
    <2> QED BY <2>1, <2>2
  <1>10. CASE SetupDone
    <2>0. link = "setup"
      BY <1>10 DEF SetupDone, ComposedIInv, LinkMeaning
    <2>1. CASE probing
      <3>1. [PublisherNext]_publisherVars /\ ChannelMeaning'
        BY <1>10, <2>1, CloseIsCloseChannels DEF SetupDone
      <3>2. LinkMeaning'
        BY <1>10, <2>0, <2>1 DEF SetupDone, ComposedIInv, LinkMeaning
      <3> QED BY <3>1, <3>2
    <2>2. CASE ~ probing
      <3>1. UNCHANGED publisherVars /\ link' = "up" /\ setup' = "none" /\ connection'
        BY <1>10, <2>2 DEF SetupDone, publisherVars, publishVars, channelVars
      <3>2. LinkMeaning' /\ ChannelMeaning'
        BY <3>1 DEF publisherVars, publishVars, channelVars, ComposedIInv, LinkMeaning,
                    ChannelMeaning, Alive
      <3> QED BY <3>1, <3>2
    <2> QED BY <2>1, <2>2
  <1>11. CASE Disconnect
    <2>1. SetClosing /\ UNCHANGED <<link, connection, connecting, setup, publishChannel, links,
                                    openChannels, publishVars>>
      BY <1>11 DEF Disconnect, SetClosing, linkVars, setupVars
    <2>2. LinkMeaning' /\ ChannelMeaning'
      BY <2>1 DEF publishVars, ComposedIInv, LinkMeaning, ChannelMeaning, Alive
    <2> QED BY <2>1, <2>2 DEF PublisherNext
  <1>12. CASE DisconnectChannel
    <2>1. [PublisherNext]_publisherVars /\ ChannelMeaning'
      BY <1>12, CloseIsCloseChannels DEF DisconnectChannel
    <2>2. LinkMeaning'
      BY <1>12 DEF DisconnectChannel, linkVars, setupVars, ComposedIInv, LinkMeaning
    <2> QED BY <2>1, <2>2
  <1>13. CASE DisconnectConnection
    <2>1. [PublisherNext]_publisherVars /\ ChannelMeaning'
      BY <1>13, CloseIsCloseChannels DEF DisconnectConnection
    <2>2. LinkMeaning'
      BY <1>13 DEF DisconnectConnection, ConnectionEnds, ComposedIInv, LinkMeaning
    <2> QED BY <2>1, <2>2
  <1>14. CASE \/ \E s \in Sub : Replayed(s) \/ Subscribe(s) \/ Subscribed(s) \/ Unsubscribed(s)
                              \/ ConsumerEnds(s)
              \/ \E S \in SUBSET Sub : Unsubscribe(S)
              \/ DisconnectRecords
              \/ UNCHANGED vars
    <2>1. UNCHANGED <<publisherVars, link, connection, connecting, setup>>
      BY <1>14 DEF Replayed, Subscribe, Subscribed, Unsubscribed, ConsumerEnds, Unsubscribe,
                   DisconnectRecords,
                   vars, adapterVars, linkVars, setupVars
    <2> QED BY <1>1, <2>1
  <1> QED
    BY <1>2, <1>3, <1>4, <1>5, <1>6, <1>7, <1>8, <1>9, <1>10, <1>11, <1>12, <1>13, <1>14
    DEF Next, SetupStep, DisconnectStep

LEMMA ComposedInvariance == Spec => []ComposedIInv
  <1>1. ComposedIInv /\ [Next]_vars => ComposedIInv'
    BY ComposedStep, StepKeeps DEF ComposedIInv
  <1> QED BY <1>1, ComposedInitIInv, PTL DEF Spec

\* The adapter implements the publisher: whatever connecting, probing, recovery,
\* subscriptions and disconnecting do, publish() meets a channel that is opened,
\* closed and cleared as AmqpPublisher says.
THEOREM AdapterImplementsPublisher == Spec => PublisherSpec
  <1>1. Init => PublisherInit
    BY DEF Init
  <1>2. ComposedIInv /\ [Next]_vars => [PublisherNext]_publisherVars
    BY ComposedStep
  <1> QED BY <1>1, <1>2, ComposedInvariance, PTL DEF Spec, PublisherSpec

\* What was proved of publish() holds in the adapter: no unroutable message is
\* reported as published, no lost channel as a nack, and no publish waits for a
\* confirm on a channel that has closed.
THEOREM AdapterPublishes ==
  Spec => [](ResolvedIsTaken /\ NackIsFromBroker /\ HeaderCorrelates /\ NoConfirmLost)
  BY AdapterImplementsPublisher, PublishedIsTaken, NacksAreReal, HeaderCorrelation,
     ConfirmsArrive, PTL
=============================================================================
