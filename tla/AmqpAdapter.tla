---------------------------- MODULE AmqpAdapter ----------------------------
(***************************************************************************)
(* The AMQP adapter as a whole (packages/events-amqp/src/AmqpAdapter.ts):  *)
(* connect() with its probe, disconnect(), the recovery of a lost          *)
(* connection through onSetup, and the subscriptions that are replayed by  *)
(* it, on top of AmqpPublisher.                                            *)
(*                                                                         *)
(* amqplib's recovery is external: it dials until a connection is up, runs *)
(* the setup hook on it and reports it ready, or reports a failed attempt  *)
(* and dials again, until its retries are used up.                         *)
(***************************************************************************)
EXTENDS AmqpPublisher, FiniteSets

CONSTANT Sub  \* the subscriptions

VARIABLES
  recovery,   \* option: recovery
  probe,      \* option, with recovery: "none", "observe" (onSetupFailed) or "failFast"
  connection, \* is connection set?
  connecting, \* is connect() in progress?
  link,       \* the connection's state
  probing,    \* is the current connection connect()'s probe?
  setup,      \* where onSetup is: "none", "channel", "topology", "replay"
  position,   \* the index of its loop over subscriptionRecords
  replaying,  \* the records onSetup is starting a consumer for: one or none
  subscriptionRecords,
  sub,        \* sub[s]: where the calls subscribe() and unsubscribe() of s are
  active,     \* active[s]: record.active
  recordChannel, \* recordChannel[s]: record.channel, by connection number, 0 for null
  captured,   \* captured[s]: the channel unsubscribe() has captured
  consumers,  \* the subscriptions with a consumer on the current connection
  dropped,    \* history: the subscriptions whose consumer on it has ended by itself
  skipped,    \* history: the subscriptions that its replay has jumped over
  disconnecting \* where disconnect() is

linkVars == <<connection, connecting, link, probing>>
setupVars == <<setup, position, replaying>>
subVars == <<subscriptionRecords, sub, active, recordChannel, captured, consumers,
             dropped, skipped>>
adapterVars == <<recovery, probe, linkVars, setupVars, subVars, disconnecting>>
vars == <<publisherVars, adapterVars>>

TypeOK ==
  /\ PublisherTypeOK
  /\ recovery \in BOOLEAN /\ probe \in {"none", "observe", "failFast"}
  /\ connection \in BOOLEAN /\ connecting \in BOOLEAN /\ probing \in BOOLEAN
  /\ link \in {"idle", "dialing", "setup", "up", "exhausted"}
  /\ setup \in {"none", "channel", "topology", "replay"}
  /\ position \in 0..Cardinality(Sub)
  /\ replaying \in SUBSET Sub /\ Cardinality(replaying) <= 1
  /\ subscriptionRecords \in Seq(Sub)
  /\ sub \in [Sub -> {"none", "starting", "subscribed", "closing", "closed"}]
  /\ active \in [Sub -> BOOLEAN]
  /\ recordChannel \in [Sub -> Link \cup {0}]
  /\ captured \in [Sub -> Link \cup {0}]
  /\ consumers \in SUBSET Sub /\ dropped \in SUBSET Sub /\ skipped \in SUBSET Sub
  /\ disconnecting \in {"none", "records", "channel", "connection"}

Init ==
  /\ PublisherInit
  /\ recovery \in BOOLEAN
  /\ probe \in IF recovery THEN {"none", "observe", "failFast"} ELSE {"none"}
  /\ connection = FALSE /\ connecting = FALSE /\ probing = FALSE
  /\ link = "idle"
  /\ setup = "none" /\ position = 0 /\ replaying = {}
  /\ subscriptionRecords = <<>>
  /\ sub = [s \in Sub |-> "none"]
  /\ active = [s \in Sub |-> FALSE]
  /\ recordChannel = [s \in Sub |-> 0]
  /\ captured = [s \in Sub |-> 0]
  /\ consumers = {} /\ dropped = {} /\ skipped = {}
  /\ disconnecting = "none"

Alive == link \in {"setup", "up"}

-----------------------------------------------------------------------------
(* connect() and recovery *)

\* connect(): throws if connected; with recovery and a reason to, it probes first.
Connect ==
  /\ ~ connection /\ ~ connecting /\ disconnecting = "none"
  /\ connecting' = TRUE
  /\ closing' = FALSE
  /\ probing' = (probe # "none")
  /\ link' = "dialing"
  /\ UNCHANGED <<correlation, publishChannel, links, openChannels, publishVars, recovery, probe,
                 connection, setupVars, subVars, disconnecting>>

\* A connection is up: onSetup begins on it.
Dialed ==
  /\ link = "dialing"
  /\ link' = "setup"
  /\ setup' = "channel"
  /\ pendingReturns' = {}
  /\ UNCHANGED <<channelVars, pub, channel, mandatoryChain, returned, wire, fate, recovery, probe, connection, connecting, probing,
                 position, replaying, subVars, disconnecting>>

\* Variation: the channel of the last connection is put back.
AttemptFailsRestoring(topologyError) ==
  /\ link' = "dialing"
  /\ publishChannel' = links
  /\ UNCHANGED <<connecting, probing>>

\* The end of an attempt without success.  A probe is given up (failFast only for
\* a topology error); without recovery connect() rejects; with it amqplib dials
\* again or, its retries used up, rejects connect() or emits "reconnect-failed".
\* Only a connection that was returned once has the recovery listeners, which
\* clear the publish channel; the catch blocks of connect() clear it too, once
\* onSetup has begun.
AttemptFails(topologyError) ==
  /\ IF probing
     THEN \/ /\ topologyError /\ probe = "failFast"
             /\ link' = "idle" /\ connecting' = FALSE /\ probing' = FALSE
          \/ /\ ~ (topologyError /\ probe = "failFast")
             /\ link' = "dialing" /\ probing' = FALSE /\ UNCHANGED connecting
     ELSE \/ /\ recovery
             /\ link' = "dialing" /\ UNCHANGED <<connecting, probing>>
          \/ /\ connecting
             /\ link' = "idle" /\ connecting' = FALSE /\ UNCHANGED probing
          \/ /\ recovery /\ ~ connecting
             /\ link' = "exhausted" /\ UNCHANGED <<connecting, probing>>
  /\ publishChannel' = IF connecting /\ (setup = "none" \/ (recovery /\ ~ probing))
                       THEN publishChannel ELSE 0

DialFails ==
  /\ link = "dialing"
  /\ AttemptFails(FALSE)
  /\ UNCHANGED <<correlation, closing, links, openChannels, publishVars, recovery, probe,
                 connection, setupVars, subVars, disconnecting>>

SetupChannel ==
  /\ setup = "channel"
  /\ OpenChannel
  /\ setup' = "topology"
  /\ UNCHANGED <<recovery, probe, linkVars, position, replaying, subVars, disconnecting>>

\* Variation: the loop begins at the second record.
ReplayAfter(from) ==
  LET rest == {i \in (from + 1)..Len(subscriptionRecords) : active[subscriptionRecords[i]]}
  IN IF rest = {} THEN replaying' = {} /\ position' = 0
     ELSE \E i \in rest :
            /\ \A j \in rest : i <= j
            /\ replaying' = {subscriptionRecords[i]}
            /\ position' = i

\* The loop of onSetup over the records goes on at an index of the list, which may
\* have shrunk: to the next active record, or to the end (replaying is empty).
ReplayFrom(from) ==
  LET rest == {i \in from..Len(subscriptionRecords) : active[subscriptionRecords[i]]}
  IN IF rest = {} THEN replaying' = {} /\ position' = 0
     ELSE \E i \in rest :
            /\ \A j \in rest : i <= j
            /\ replaying' = {subscriptionRecords[i]}
            /\ position' = i

SetupTopology ==
  /\ setup = "topology"
  /\ setup' = "replay"
  /\ ReplayFrom(1)
  /\ UNCHANGED <<publisherVars, recovery, probe, linkVars, subVars, disconnecting>>

\* startConsumer resolves for a replayed record, which may be inactive by now.
Replayed(s) ==
  /\ s \in replaying
  /\ consumers' = consumers \cup {s}
  /\ recordChannel' = [recordChannel EXCEPT ![s] = links]
  /\ ReplayFrom(position + 1)
  /\ UNCHANGED <<publisherVars, recovery, probe, linkVars, setup, subscriptionRecords, sub, active,
                 captured, dropped, skipped, disconnecting>>

\* onSetup resolves: the probe is closed and the real connection dialed, or the
\* connection is ready.
SetupDone ==
  /\ setup = "replay" /\ replaying = {}
  /\ setup' = "none"
  /\ IF probing
     THEN /\ ChannelsClose({links})
          /\ publishChannel' = 0
          /\ consumers' = {} /\ dropped' = {} /\ skipped' = {}
          /\ link' = "dialing"
          /\ probing' = FALSE
          /\ UNCHANGED <<connection, connecting>>
     ELSE /\ link' = "up"
          /\ connection' = TRUE
          /\ connecting' = FALSE
          /\ UNCHANGED <<probing, publishChannel, openChannels, pub, mandatoryChain,
                         pendingReturns, wire, consumers, dropped, skipped>>
  /\ UNCHANGED <<correlation, closing, channel, returned, fate, recovery, probe, links, position, replaying,
                 subscriptionRecords, sub, active, recordChannel, captured, disconnecting>>

\* What ends with a connection: its channels, its consumers, and the calls that
\* wait for an answer on it.
ConnectionEnds ==
  /\ consumers' = {} /\ dropped' = {} /\ skipped' = {}
  /\ setup' = "none"
  /\ position' = 0
  /\ replaying' = {}
  /\ sub' = [s \in Sub |-> IF sub[s] = "starting" THEN "none" ELSE sub[s]]

\* onSetup fails, by a topology error or with its connection.
SetupFails(topologyError) ==
  /\ link = "setup"
  /\ ChannelsClose({links})
  /\ ConnectionEnds
  /\ AttemptFails(topologyError)
  /\ UNCHANGED <<correlation, closing, channel, returned, fate, recovery, probe, connection, links,
                 subscriptionRecords, active, recordChannel, captured, disconnecting>>

\* A ready connection is lost: on "disconnect" amqplib dials; without recovery
\* "close" clears the connection and the publish channel.  No return is pending
\* once the channel has closed, so that failPendingReturns has nothing to clear.
ConnectionLost ==
  /\ link = "up"
  /\ ChannelsClose({links})
  /\ ConnectionEnds
  /\ link' = IF recovery THEN "dialing" ELSE "idle"
  /\ connection' = recovery
  /\ publishChannel' = IF recovery THEN publishChannel ELSE 0
  /\ UNCHANGED <<correlation, closing, channel, returned, fate, recovery, probe, connecting, links,
                 probing, subscriptionRecords, active, recordChannel, captured, disconnecting>>

-----------------------------------------------------------------------------
(* Subscriptions *)

\* subscribe(): throws without a connection; startConsumer fails while the
\* connection is being recovered.
Subscribe(s) ==
  /\ sub[s] = "none"
  /\ connection /\ link = "up"
  /\ sub' = [sub EXCEPT ![s] = "starting"]
  /\ UNCHANGED <<publisherVars, recovery, probe, linkVars, setupVars, subscriptionRecords, active,
                 recordChannel, captured, consumers, dropped, skipped, disconnecting>>

\* startConsumer ends: the record is registered, or the channel closed again.
Subscribed(s) ==
  /\ sub[s] = "starting"
  /\ \/ /\ sub' = [sub EXCEPT ![s] = "subscribed"]
        /\ active' = [active EXCEPT ![s] = TRUE]
        /\ recordChannel' = [recordChannel EXCEPT ![s] = links]
        /\ consumers' = consumers \cup {s}
        /\ subscriptionRecords' = Append(subscriptionRecords, s)
     \/ /\ sub' = [sub EXCEPT ![s] = "none"]
        /\ UNCHANGED <<active, recordChannel, consumers, subscriptionRecords>>
  /\ UNCHANGED <<publisherVars, recovery, probe, linkVars, setupVars, captured, dropped, skipped,
                 disconnecting>>

\* unsubscribe() of the subscriptions S up to its first await: the channel of the
\* moment is captured.
Unsubscribe(S) ==
  /\ S # {} /\ \A s \in S : sub[s] = "subscribed"
  /\ sub' = [s \in Sub |-> IF s \in S THEN "closing" ELSE sub[s]]
  /\ active' = [s \in Sub |-> active[s] /\ s \notin S]
  /\ captured' = [s \in Sub |-> IF s \in S THEN recordChannel[s] ELSE captured[s]]
  /\ UNCHANGED <<publisherVars, recovery, probe, linkVars, setupVars, subscriptionRecords,
                 recordChannel, consumers, dropped, skipped, disconnecting>>

\* splice: s is taken out of the list at its first index, if it is there.  The loop
\* of onSetup goes by index: when a record at or before its index is taken out, the
\* next one moves there, and the loop jumps over it.
RemoveRecord(s) ==
  LET at == {i \in 1..Len(subscriptionRecords) : subscriptionRecords[i] = s}
  IN IF at = {} THEN UNCHANGED <<subscriptionRecords, skipped>>
     ELSE \E i \in at :
            /\ \A j \in at : i <= j
            /\ subscriptionRecords' = [k \in 1..(Len(subscriptionRecords) - 1) |->
                                        subscriptionRecords[IF k < i THEN k ELSE k + 1]]
            /\ skipped' = IF replaying # {} /\ i <= position /\ position < Len(subscriptionRecords)
                          THEN skipped \cup {subscriptionRecords[position + 1]} ELSE skipped

\* Its end: the consumer on the captured channel is gone and the record removed
\* from the list.
Unsubscribed(s) ==
  /\ sub[s] = "closing"
  /\ sub' = [sub EXCEPT ![s] = "closed"]
  /\ consumers' = IF Alive /\ captured[s] = links THEN consumers \ {s} ELSE consumers
  /\ recordChannel' = [recordChannel EXCEPT ![s] = 0]
  /\ captured' = [captured EXCEPT ![s] = 0]
  /\ RemoveRecord(s)
  /\ UNCHANGED <<publisherVars, recovery, probe, linkVars, setupVars, active, dropped, disconnecting>>

\* A consumer ends by itself: the broker cancels it, which startConsumer's callback
\* ignores, or its channel is closed by an error or a second settlement of a
\* delivery, which nothing listens for.  The subscription stays active.
ConsumerEnds(s) ==
  /\ Alive /\ s \in consumers
  /\ consumers' = consumers \ {s}
  /\ dropped' = dropped \cup {s}
  /\ UNCHANGED <<publisherVars, recovery, probe, linkVars, setupVars, subscriptionRecords, sub,
                 active, recordChannel, captured, skipped, disconnecting>>

-----------------------------------------------------------------------------
(* disconnect(), not called while connect() is in progress *)

Disconnect ==
  /\ disconnecting = "none" /\ ~ connecting
  /\ closing' = TRUE
  /\ disconnecting' = "records"
  /\ UNCHANGED <<correlation, publishChannel, links, openChannels, publishVars, recovery, probe,
                 linkVars, setupVars, subVars>>

\* The consumers of all records have been cancelled and their channels closed.  The
\* loop is one step: a record it misses loses its consumer with the connection.
DisconnectRecords ==
  /\ disconnecting = "records"
  /\ LET listed == {subscriptionRecords[i] : i \in 1..Len(subscriptionRecords)}
     IN /\ consumers' = {s \in consumers : s \notin listed \/ recordChannel[s] # links}
        /\ active' = [s \in Sub |-> active[s] /\ s \notin listed]
        /\ recordChannel' = [s \in Sub |-> IF s \in listed THEN 0 ELSE recordChannel[s]]
        /\ sub' = [s \in Sub |-> IF s \in listed /\ sub[s] = "subscribed" THEN "closed" ELSE sub[s]]
  /\ subscriptionRecords' = <<>>
  /\ disconnecting' = "channel"
  /\ UNCHANGED <<publisherVars, recovery, probe, linkVars, setupVars, captured, dropped, skipped>>

\* The publish channel is closed, if there is one.
DisconnectChannel ==
  /\ disconnecting = "channel"
  /\ ChannelsClose({publishChannel})
  /\ publishChannel' = 0
  /\ disconnecting' = "connection"
  /\ UNCHANGED <<correlation, closing, links, channel, returned, fate, recovery, probe, linkVars,
                 setupVars, subVars>>

\* The connection, or its recovery, is closed, if there is one.
DisconnectConnection ==
  /\ disconnecting = "connection"
  /\ disconnecting' = "none"
  /\ ChannelsClose(openChannels)
  /\ ConnectionEnds
  /\ connection' = FALSE
  /\ link' = "idle"
  /\ UNCHANGED <<correlation, closing, publishChannel, channel, returned, fate, recovery, probe,
                 connecting, links, probing, subscriptionRecords, active, recordChannel, captured>>

-----------------------------------------------------------------------------
SetupStep == SetupChannel \/ SetupTopology \/ SetupDone \/ \E s \in Sub : Replayed(s)
DisconnectStep == DisconnectRecords \/ DisconnectChannel \/ DisconnectConnection

Next ==
  \/ PublishStep /\ UNCHANGED adapterVars
  \/ Connect \/ Dialed \/ DialFails \/ ConnectionLost
  \/ \E topologyError \in BOOLEAN : SetupFails(topologyError)
  \/ SetupStep
  \/ \E s \in Sub : Subscribe(s) \/ Subscribed(s) \/ Unsubscribed(s) \/ ConsumerEnds(s)
  \/ \E S \in SUBSET Sub : Unsubscribe(S)
  \/ Disconnect \/ DisconnectStep

Spec == Init /\ [][Next]_vars

-----------------------------------------------------------------------------
(* Properties *)

\* "Replays all active subscriptions" (packages/events-amqp/README.md): on a
\* connection that is ready, first or recovered, every subscription that was not
\* ended has its consumer, or has lost it since, or the end of another one during
\* the replay made the loop of onSetup jump over it.
ActiveAreConsumed ==
  link = "up" /\ disconnecting = "none" =>
    \A s \in Sub : sub[s] = "subscribed" => s \in consumers \cup dropped \cup skipped

=============================================================================
