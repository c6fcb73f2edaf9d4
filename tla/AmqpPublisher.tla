--------------------------- MODULE AmqpPublisher ---------------------------
(***************************************************************************)
(* Publishing through the AMQP adapter (packages/events-amqp/src/          *)
(* AmqpAdapter.ts, publish() and the publish channel): per-message         *)
(* confirms, the timeout of a publish, and the correlation of basic.return *)
(* frames with mandatory publishes, by a private header or by letting only *)
(* one publish be outstanding at a time (single-flight).                   *)
(*                                                                         *)
(* A confirm channel is named by the number of the connection it belongs   *)
(* to.  The broker sends the frames of one message in order, the return    *)
(* before the confirm; frames of different messages interleave freely.     *)
(***************************************************************************)
EXTENDS Naturals, Sequences

CONSTANTS
  Message,   \* the publish() calls
  MaxLinks   \* bound: connections made

ASSUME MaxLinksAssumption == MaxLinks \in Nat

VARIABLES
  correlation,    \* option: "none" (not mandatory), "header" or "single"
  closing,        \* closing
  publishChannel, \* publishChannel, 0 for null
  links,          \* the number of connections that got a confirm channel
  openChannels,   \* the confirm channels that are open
  pub,            \* pub[m]: the promise of publish() call m
  channel,        \* channel[m]: the channel m has captured
  mandatoryChain, \* the single-flight chain, its head outstanding
  pendingReturns, \* the messages with an entry in pendingReturns
  returned,       \* the messages whose entry is marked returned
  wire,           \* wire[m]: the next frame about m
  fate            \* fate[m]: what the broker did with m

channelVars == <<correlation, closing, publishChannel, links, openChannels>>
publishVars == <<pub, channel, mandatoryChain, pendingReturns, returned, wire, fate>>
publisherVars == <<channelVars, publishVars>>

Link == 1..MaxLinks
Outcome == {"resolved", "unroutable", "nacked", "connection", "timeout"}

PublisherTypeOK ==
  /\ correlation \in {"none", "header", "single"}
  /\ closing \in BOOLEAN
  /\ publishChannel \in Link \cup {0}
  /\ links \in 0..MaxLinks
  /\ openChannels \in SUBSET Link
  /\ pub \in [Message -> Outcome \cup {"idle", "queued", "sent"}]
  /\ channel \in [Message -> Link \cup {0}]
  /\ mandatoryChain \in Seq(Message)
  /\ pendingReturns \in SUBSET Message
  /\ returned \in SUBSET Message
  /\ wire \in [Message -> {"none", "sent", "return", "ack", "nack"}]
  /\ fate \in [Message -> {"unknown", "routed", "unroutable", "refused"}]

PublisherInit ==
  /\ correlation \in {"none", "header", "single"}
  /\ closing = FALSE
  /\ publishChannel = 0
  /\ links = 0
  /\ openChannels = {}
  /\ pub = [m \in Message |-> "idle"]
  /\ channel = [m \in Message |-> 0]
  /\ mandatoryChain = <<>>
  /\ pendingReturns = {}
  /\ returned = {}
  /\ wire = [m \in Message |-> "none"]
  /\ fate = [m \in Message |-> "unknown"]

-----------------------------------------------------------------------------
(* publish() *)

\* The promise of m settles: its entry is deleted (finally) and the next publish
\* of the chain may go.
Settle(m, outcome) ==
  /\ pub' = [pub EXCEPT ![m] = outcome]
  /\ pendingReturns' = pendingReturns \ {m}
  /\ mandatoryChain' = IF mandatoryChain # <<>> /\ Head(mandatoryChain) = m
                       THEN Tail(mandatoryChain) ELSE mandatoryChain

\* Variation: the catch does not settle the promise, which then waits for its timer.
DoPublishSwallowing(m, ch) ==
  /\ pub' = [pub EXCEPT ![m] = "sent"]
  /\ wire' = IF ch \in openChannels THEN [wire EXCEPT ![m] = "sent"] ELSE wire
  /\ pendingReturns' = IF correlation = "none" THEN pendingReturns
                       ELSE pendingReturns \cup {m}
  /\ UNCHANGED mandatoryChain

\* doPublish: a mandatory message gets a fresh entry; channel.publish throws on a
\* closed channel.
DoPublish(m, ch) ==
  IF ch \in openChannels
  THEN /\ pub' = [pub EXCEPT ![m] = "sent"]
       /\ wire' = [wire EXCEPT ![m] = "sent"]
       /\ pendingReturns' = IF correlation = "none" THEN pendingReturns
                            ELSE pendingReturns \cup {m}
       /\ UNCHANGED mandatoryChain
  ELSE Settle(m, "connection") /\ UNCHANGED wire

\* publish(): sent at once, or queued with the channel captured now.  Without a
\* channel, while closing, or when the encoder throws, the call is refused and
\* changes nothing.
Publish(m) ==
  /\ pub[m] = "idle"
  /\ publishChannel # 0 /\ ~ closing
  /\ channel' = [channel EXCEPT ![m] = publishChannel]
  /\ IF correlation = "single"
     THEN /\ pub' = [pub EXCEPT ![m] = "queued"]
          /\ mandatoryChain' = Append(mandatoryChain, m)
          /\ UNCHANGED <<pendingReturns, wire>>
     ELSE DoPublish(m, publishChannel)
  /\ UNCHANGED <<channelVars, returned, fate>>

\* Single-flight: the previous publish has settled, either way.
PublishNext(m) ==
  /\ pub[m] = "queued"
  /\ Head(mandatoryChain) = m
  /\ DoPublish(m, channel[m])
  /\ UNCHANGED <<channelVars, channel, returned, fate>>

\* Variation: no timer is set.
TimesOutNever(m) == m \notin Message /\ UNCHANGED publisherVars

\* publishTimeoutMs have passed without an outcome.
TimesOut(m) ==
  /\ pub[m] = "sent"
  /\ Settle(m, "timeout")
  /\ UNCHANGED <<channelVars, channel, returned, wire, fate>>

\* Variation: every return marks whatever is pending.
ReceiveReturnUncorrelated(m) ==
  /\ wire[m] = "return"
  /\ wire' = [wire EXCEPT ![m] = "ack"]
  /\ returned' = returned \cup pendingReturns
  /\ UNCHANGED <<channelVars, pub, channel,
                 mandatoryChain, pendingReturns, fate>>

\* The "return" listener: by the header, or every entry (single-flight).
ReceiveReturn(m) ==
  /\ wire[m] = "return"
  /\ wire' = [wire EXCEPT ![m] = "ack"]
  /\ returned' = IF correlation = "header" THEN returned \cup ({m} \cap pendingReturns)
                 ELSE returned \cup pendingReturns
  /\ UNCHANGED <<channelVars, pub, channel,
                 mandatoryChain, pendingReturns, fate>>

\* Variation: an error of the confirm is a nack, whatever became of the channel.
ClassifyAsNack(ch, closed) == "nacked"

\* classifyConfirmError for a channel ch; closed are the channels seen closed.
Classify(ch, closed) ==
  IF closing \/ ch \in closed \/ publishChannel # ch THEN "connection" ELSE "nacked"

\* Variation: the mark of the return is not looked at.
ReceiveConfirmUnchecked(m) ==
  /\ wire[m] \in {"ack", "nack"}
  /\ wire' = [wire EXCEPT ![m] = "none"]
  /\ IF pub[m] = "sent"
     THEN Settle(m, IF wire[m] = "nack" THEN Classify(channel[m], Link \ openChannels)
                    ELSE "resolved")
     ELSE UNCHANGED <<pub, pendingReturns, mandatoryChain>>
  /\ UNCHANGED <<channelVars, channel, returned, fate>>

\* The confirm callback; after a timeout it changes nothing.
ReceiveConfirm(m) ==
  /\ wire[m] \in {"ack", "nack"}
  /\ wire' = [wire EXCEPT ![m] = "none"]
  /\ IF pub[m] = "sent"
     THEN Settle(m, IF wire[m] = "nack" THEN Classify(channel[m], Link \ openChannels)
                    ELSE IF m \in returned THEN "unroutable"
                    ELSE "resolved")
     ELSE UNCHANGED <<pub, pendingReturns, mandatoryChain>>
  /\ UNCHANGED <<channelVars, channel, returned, fate>>

\* The broker routes m, or cannot, or refuses it (a queue at its limit).
BrokerProcesses(m) ==
  /\ wire[m] = "sent"
  /\ \/ /\ fate' = [fate EXCEPT ![m] = "routed"]
        /\ wire' = [wire EXCEPT ![m] = "ack"]
     \/ /\ fate' = [fate EXCEPT ![m] = "unroutable"]
        /\ wire' = [wire EXCEPT ![m] = IF correlation = "none" THEN "ack" ELSE "return"]
     \/ /\ fate' = [fate EXCEPT ![m] = "refused"]
        /\ wire' = [wire EXCEPT ![m] = "nack"]
  /\ UNCHANGED <<channelVars, pub, channel,
                 mandatoryChain, pendingReturns, returned>>

\* Channels close: trackChannelClose records them first, then amqplib fails their
\* outstanding confirms (of a chain, that of its head) and nothing more arrives.
ChannelsClose(closed) ==
  LET lost == {m \in Message : pub[m] = "sent" /\ channel[m] \in closed}
  IN /\ openChannels' = openChannels \ closed
     /\ pub' = [m \in Message |->
                  IF m \in lost THEN Classify(channel[m], closed) ELSE pub[m]]
     /\ pendingReturns' = pendingReturns \ lost
     /\ mandatoryChain' = IF mandatoryChain # <<>> /\ Head(mandatoryChain) \in lost
                          THEN Tail(mandatoryChain) ELSE mandatoryChain
     /\ wire' = [m \in Message |-> IF channel[m] \in closed THEN "none" ELSE wire[m]]

\* What connecting, recovery and disconnecting (AmqpAdapter) do to the publisher:
\* a connection gets its channel, all channels close, publishChannel is cleared,
\* closing is set and reset.
OpenChannel ==
  /\ openChannels = {}
  /\ links < MaxLinks
  /\ links' = links + 1
  /\ openChannels' = {links'}
  /\ publishChannel' = links'
  /\ UNCHANGED <<correlation, closing, publishVars>>

CloseChannels ==
  /\ openChannels # {}
  /\ ChannelsClose(openChannels)
  /\ publishChannel' \in {publishChannel, 0}
  /\ UNCHANGED <<correlation, closing, links, channel, returned, fate>>

ClearChannel ==
  /\ publishChannel' = 0
  /\ UNCHANGED <<correlation, closing, links, openChannels, publishVars>>

SetClosing ==
  /\ closing' \in BOOLEAN
  /\ UNCHANGED <<correlation, publishChannel, links, openChannels, publishVars>>

PublishStep ==
  \E m \in Message :
    \/ Publish(m) \/ PublishNext(m) \/ TimesOut(m)
    \/ BrokerProcesses(m) \/ ReceiveReturn(m) \/ ReceiveConfirm(m)

PublisherNext == PublishStep \/ OpenChannel \/ CloseChannels \/ ClearChannel \/ SetClosing

PublisherSpec == PublisherInit /\ [][PublisherNext]_publisherVars

\* Timers fire and the chain goes on; the broker need not answer.
FairPublisherSpec ==
  PublisherSpec /\ \A m \in Message : WF_publisherVars(PublishNext(m) \/ TimesOut(m))

-----------------------------------------------------------------------------
(* Properties *)

\* publish() resolves only for a message the broker has taken over: a mandatory
\* message that could not be routed is never reported as published.
ResolvedIsTaken ==
  \A m \in Message : pub[m] = "resolved" =>
    fate[m] = "routed" \/ (correlation = "none" /\ fate[m] = "unroutable")

\* AmqpPublishNackError means that the broker refused the message ("deliverable on
\* retry"); the loss of a channel is never taken for a nack.
NackIsFromBroker == \A m \in Message : pub[m] = "nacked" => fate[m] = "refused"

\* With the correlation header a publish is reported unroutable only if its own
\* message was returned, however returns, confirms and timeouts interleave.
HeaderCorrelates ==
  correlation = "header" =>
    \A m \in Message : pub[m] = "unroutable" => fate[m] = "unroutable"

\* A publish never waits for a confirm on a channel that has closed: "in-flight
\* promise settles, never hangs".
NoConfirmLost == \A m \in Message : pub[m] = "sent" => channel[m] \in openChannels

\* Every publish() comes to an end, also one queued behind others.
PublishSettles ==
  \A m \in Message : pub[m] \in {"queued", "sent"} ~> pub[m] \in Outcome

-----------------------------------------------------------------------------
(* The inductive invariant behind the safety properties *)

\* What the next frame about a message says about its fate; a message whose
\* return has been received while its publish was outstanding is marked.
FrameMeaning ==
  \A m \in Message :
    /\ pub[m] \in {"idle", "queued"} => wire[m] = "none" /\ fate[m] = "unknown"
    /\ wire[m] = "sent" => fate[m] = "unknown"
    /\ wire[m] = "nack" => fate[m] = "refused"
    /\ wire[m] = "return" => fate[m] = "unroutable" /\ correlation # "none"
    /\ wire[m] = "ack" =>
         \/ fate[m] = "routed"
         \/ fate[m] = "unroutable" /\ (correlation = "none" \/ pub[m] # "sent" \/ m \in returned)

\* Every outstanding mandatory publish has its entry, so that a return finds it;
\* with the header only an entry of a returned message is marked.
EntryMeaning ==
  /\ \A m \in Message : pub[m] = "sent" /\ correlation # "none" => m \in pendingReturns
  /\ correlation = "header" => \A m \in returned : fate[m] = "unroutable"

PublisherIInv ==
  /\ FrameMeaning /\ EntryMeaning /\ NoConfirmLost
  /\ ResolvedIsTaken /\ NackIsFromBroker /\ HeaderCorrelates
=============================================================================
