--------------------------- MODULE EventPipeline ---------------------------
(***************************************************************************)
(* What happens to one event between the broker and its handler: the       *)
(* delivery callback of EventBus.ts, the context of EventContext.ts and    *)
(* the built-in middleware, DLQ around retry around the handler            *)
(* (packages/events/src/middleware).                                       *)
(*                                                                         *)
(* The broker (external) hands the event out as a delivery, waits for its  *)
(* settlement and hands it out again when the settlement does not come;    *)
(* the old delivery may still be in the pipeline then.  Settling fails     *)
(* when the connection is gone.  The consumer process may crash.           *)
(***************************************************************************)
EXTENDS Naturals, FiniteSets

CONSTANTS Delivery,   \* the deliveries of the event
          MaxRetries  \* option maxRetries of the retry middleware

ASSUME MaxRetriesAssumption == MaxRetries \in Nat

VARIABLES
  config,      \* the middleware in place, whether the DLQ has an errorSerializer of the
               \* user's, and whether the event is itself a dead letter
  pc,          \* pc[d]: where delivery d is in the pipeline
  attempts,    \* attempts[d]: calls of the handler (the loop variable of retry)
  aborted,     \* aborted[d]: ctx.signal.aborted (handler timeout, drain or shutdown)
  settled,     \* settled[d]: the flags of the context and of the callback, set together
  calls,       \* calls[d]: settlements the adapter was asked for
  deadLetter,  \* deadLetter[d]: the DLQ topic holds the event published for d
  late,        \* history: the handler of d settled after the pipeline had ended
  waits,       \* broker: the delivery whose settlement it waits for, if any
  gone,        \* broker: the event is acknowledged or dropped
  succeeded,   \* history: an attempt has completed
  discarded    \* history: the handler, or a failed dead-letter publish, gave the event up

history == <<late, succeeded, discarded>>
broker == <<waits, gone>>
vars == <<config, pc, attempts, aborted, settled, calls, deadLetter, broker, history>>

Config == [retry : BOOLEAN, dlq : BOOLEAN, ownSerializer : BOOLEAN, onDlqTopic : BOOLEAN]
Pc == {"idle", "handler", "sleeping", "publishing", "acking", "ended", "failed", "crashed"}

TypeOK ==
  /\ config \in Config
  /\ pc \in [Delivery -> Pc]
  /\ attempts \in [Delivery -> 0..MaxRetries + 1]
  /\ aborted \in [Delivery -> BOOLEAN]
  /\ settled \in [Delivery -> BOOLEAN]
  /\ calls \in [Delivery -> Nat]
  /\ deadLetter \in [Delivery -> BOOLEAN]
  /\ late \in [Delivery -> BOOLEAN]
  /\ waits \in SUBSET Delivery
  /\ gone \in BOOLEAN /\ succeeded \in BOOLEAN /\ discarded \in BOOLEAN

Init ==
  /\ config \in Config
  /\ pc = [d \in Delivery |-> "idle"]
  /\ attempts = [d \in Delivery |-> 0]
  /\ aborted = [d \in Delivery |-> FALSE]
  /\ settled = [d \in Delivery |-> FALSE]
  /\ calls = [d \in Delivery |-> 0]
  /\ deadLetter = [d \in Delivery |-> FALSE]
  /\ late = [d \in Delivery |-> FALSE]
  /\ waits = {}
  /\ gone = FALSE /\ succeeded = FALSE /\ discarded = FALSE

Goto(d, label) == pc' = [pc EXCEPT ![d] = label]
InPipeline(d) == pc[d] \in {"handler", "sleeping", "publishing", "acking"}

-----------------------------------------------------------------------------
(* The broker *)

Deliver(d) ==
  /\ ~ gone /\ waits = {}
  /\ pc[d] = "idle"
  /\ waits' = {d}
  /\ attempts' = [attempts EXCEPT ![d] = 1]
  /\ Goto(d, "handler")
  /\ UNCHANGED <<config, aborted, settled, calls, deadLetter, gone, history>>

\* The settlement does not come in time: the event can be delivered again.
SettlementTimesOut ==
  /\ waits # {}
  /\ waits' = {}
  /\ UNCHANGED <<config, pc, attempts, aborted, settled, calls, deadLetter, gone, history>>

\* What a settlement of d may do: nothing (it fails, or comes too late), or what
\* it says.
BrokerTakes(d, what) ==
  \/ UNCHANGED broker
  \/ what \in {"ack", "drop"} /\ gone' = TRUE /\ waits' = {}
  \/ what = "requeue" /\ d \in waits /\ waits' = {} /\ UNCHANGED gone

AskAdapter(d, what) ==
  /\ calls' = [calls EXCEPT ![d] = @ + 1]
  /\ BrokerTakes(d, what)

-----------------------------------------------------------------------------
(* The context *)

\* Variation: the context does not remember that it was settled.
SettleAgain(d, what) ==
  /\ settled' = [settled EXCEPT ![d] = TRUE]
  /\ AskAdapter(d, what)

\* ctx.ack(), ctx.nack(true) and ctx.nack(false).
Settle(d, what) ==
  IF settled[d] THEN UNCHANGED <<settled, calls, broker>>
  ELSE /\ settled' = [settled EXCEPT ![d] = TRUE]
       /\ AskAdapter(d, what)

\* The handler settles the event itself, or does so after it has returned.
HandlerSettles(d, what) ==
  /\ pc[d] \in {"handler", "sleeping", "publishing", "acking", "ended", "failed"}
  /\ ~ settled[d]
  /\ Settle(d, what)
  /\ late' = [late EXCEPT ![d] = @ \/ pc[d] \in {"ended", "failed"}]
  /\ discarded' = (discarded \/ gone' # gone)
  /\ UNCHANGED <<config, pc, attempts, aborted, deadLetter, succeeded>>

-----------------------------------------------------------------------------
(* The callback *)

\* Variation: the automatic ack does not depend on the handler's completion.
EndAcked(d, label) ==
  /\ Goto(d, label)
  /\ UNCHANGED settled
  /\ IF ~ settled[d] THEN AskAdapter(d, "ack") ELSE UNCHANGED <<calls, broker>>

\* The composed handler settles: an event that it completed and nobody settled is
\* acked (the ack's failure is swallowed); otherwise the callback just ends.
End(d, label) ==
  /\ Goto(d, label)
  /\ UNCHANGED settled
  /\ IF label = "ended" /\ ~ settled[d] THEN AskAdapter(d, "ack") ELSE UNCHANGED <<calls, broker>>

\* An error leaves the retry middleware (or the handler, without one): the DLQ
\* middleware catches it unless the event is on the DLQ topic already.  It
\* serializes the error before the try around the publish: an errorSerializer
\* that throws makes the callback fail.
Escapes(d) ==
  \/ /\ config.dlq /\ ~ config.onDlqTopic
     /\ Goto(d, "publishing") /\ UNCHANGED <<settled, calls, broker>>
  \/ /\ ~ config.dlq \/ config.onDlqTopic \/ config.ownSerializer
     /\ End(d, "failed")

HandlerReturns(d) ==
  /\ pc[d] = "handler"
  /\ succeeded' = TRUE
  /\ End(d, "ended")
  /\ UNCHANGED <<config, attempts, aborted, deadLetter, late, discarded>>

\* The catch block of retry's loop.  retried: the error's brand or the predicate
\* allows another attempt.
HandlerFails(d, retried) ==
  /\ pc[d] = "handler"
  /\ IF config.retry /\ retried /\ attempts[d] <= MaxRetries /\ ~ aborted[d]
     THEN Goto(d, "sleeping") /\ UNCHANGED <<settled, calls, broker>>
     ELSE Escapes(d)
  /\ UNCHANGED <<config, attempts, aborted, deadLetter, late, succeeded, discarded>>

\* The backoff is over: the handler is called again.
Retry(d) ==
  /\ pc[d] = "sleeping"
  /\ ~ aborted[d]
  /\ attempts' = [attempts EXCEPT ![d] = @ + 1]
  /\ Goto(d, "handler")
  /\ UNCHANGED <<config, aborted, settled, calls, deadLetter, broker, history>>

\* ctx.signal is aborted: a backoff that is being waited out rejects.
Abort(d) ==
  /\ InPipeline(d)
  /\ ~ aborted[d]
  /\ aborted' = [aborted EXCEPT ![d] = TRUE]
  /\ IF pc[d] = "sleeping" THEN Escapes(d) ELSE UNCHANGED <<pc, settled, calls, broker>>
  /\ UNCHANGED <<config, attempts, deadLetter, history>>

-----------------------------------------------------------------------------
(* The DLQ middleware *)

DlqPublished(d) ==
  /\ pc[d] = "publishing"
  /\ deadLetter' = [deadLetter EXCEPT ![d] = TRUE]
  /\ Goto(d, "acking")
  /\ UNCHANGED <<config, attempts, aborted, settled, calls, broker, history>>

\* ctx.ack(); if it rejects, the ctx.nack(false) that follows finds the context
\* settled.  The error is swallowed either way.
DlqAcks(d) ==
  /\ pc[d] = "acking"
  /\ Settle(d, "ack")
  /\ Goto(d, "ended")
  /\ UNCHANGED <<config, attempts, aborted, deadLetter, history>>

\* Variation: an event that cannot be dead-lettered stays with the broker.
DlqPublishRethrows(d) ==
  /\ pc[d] = "publishing"
  /\ Goto(d, "failed")
  /\ UNCHANGED <<config, attempts, aborted, settled, calls, deadLetter, broker, history>>

\* The publish fails: ctx.nack(false), whose own failure makes the callback fail.
DlqPublishFails(d) ==
  /\ pc[d] = "publishing"
  /\ \/ Settle(d, "drop") /\ Goto(d, "ended")
     \/ /\ ~ settled[d]
        /\ settled' = [settled EXCEPT ![d] = TRUE]
        /\ calls' = [calls EXCEPT ![d] = @ + 1]
        /\ UNCHANGED broker
        /\ Goto(d, "failed")
  /\ discarded' = (discarded \/ gone' # gone)
  /\ UNCHANGED <<config, attempts, aborted, deadLetter, late, succeeded>>

-----------------------------------------------------------------------------
\* The consumer process dies with everything in its pipelines.
Crash ==
  /\ \E d \in Delivery : InPipeline(d)
  /\ pc' = [d \in Delivery |-> IF InPipeline(d) THEN "crashed" ELSE pc[d]]
  /\ waits' = {}
  /\ UNCHANGED <<config, attempts, aborted, settled, calls, deadLetter, gone, history>>

HandlerEnds(d) == HandlerReturns(d) \/ \E retried \in BOOLEAN : HandlerFails(d, retried)
DlqStep(d) == DlqPublished(d) \/ DlqAcks(d) \/ DlqPublishFails(d)

Next ==
  \/ \E d \in Delivery : Deliver(d) \/ HandlerEnds(d) \/ Retry(d) \/ Abort(d) \/ DlqStep(d)
  \/ \E d \in Delivery, what \in {"ack", "requeue", "drop"} : HandlerSettles(d, what)
  \/ SettlementTimesOut
  \/ Crash

Spec == Init /\ [][Next]_vars

\* Handlers end, timers fire and the adapter answers.
Fairness ==
  \A d \in Delivery : WF_vars(HandlerEnds(d)) /\ WF_vars(Retry(d)) /\ WF_vars(DlqStep(d))

FairSpec == Spec /\ Fairness

-----------------------------------------------------------------------------
(* Properties *)

\* At-least-once: the broker forgets an event only after an attempt has
\* completed, or the event is on the DLQ topic, or somebody gave it up on
\* purpose (the handler by acking or dropping it, the DLQ middleware when it
\* could not publish), whatever crashes, aborts and redeliveries came before.
NotLost ==
  gone => succeeded \/ discarded \/ \E d \in Delivery : deadLetter[d]

\* A delivery is settled at most once, though the handler, the DLQ middleware
\* and the automatic ack all may try to (a second settlement of one AMQP
\* delivery tag closes the channel); the one exception is a handler that settles
\* after it has returned.
SettledOnce == \A d \in Delivery : calls[d] <= 1 \/ late[d]

\* With a DLQ no delivery is left for the broker's timeout: unless the process
\* crashes, the pipeline asks for a settlement.  The one other way out is the
\* user's errorSerializer (dlq.ts:45): it may throw, and then the callback has
\* failed; it does not stay in between.
DlqSettles ==
  \A d \in Delivery :
    pc[d] = "handler" /\ config.dlq /\ ~ config.onDlqTopic
      ~> \/ calls[d] > 0
         \/ pc[d] = "crashed"
         \/ config.ownSerializer /\ pc[d] = "failed"

-----------------------------------------------------------------------------
(* The inductive invariant behind TypeOK, NotLost and SettledOnce *)

\* What the place in the pipeline says about the attempts, the dead letter and
\* the settlements so far.
PipelineMeaning ==
  \A d \in Delivery :
    /\ pc[d] = "idle" => attempts[d] = 0 /\ ~ settled[d]
    /\ pc[d] = "sleeping" => attempts[d] <= MaxRetries
    /\ pc[d] = "acking" => deadLetter[d]
    /\ pc[d] \notin {"ended", "crashed"} /\ ~ settled[d] => calls[d] = 0
    /\ ~ settled[d] => calls[d] <= 1

IInv == TypeOK /\ PipelineMeaning /\ NotLost /\ SettledOnce
=============================================================================
