--------------------------- MODULE EventDelivery ---------------------------
(***************************************************************************)
(* What the broker adapters share (EventAdapter, RawEventHandler and       *)
(* RawSubscribeOptions of packages/events/src/types.ts): events are        *)
(* published, the group's consumers are given them, the callback of the    *)
(* bus settles each delivery at most once and then resolves or rejects.    *)
(* The callback is modelled by what EventPipeline shows of it: it may ack, *)
(* give up or requeue the event, before it resolves or rejects, and it     *)
(* acks what it completes and nobody settled.                              *)
(***************************************************************************)
EXTENDS Naturals, FiniteSets, Sequences

CONSTANTS
  Process,   \* the processes of the group, with one subscription each
  MaxEvents  \* bound: how many events are published

ASSUME MaxEventsAssumption == MaxEvents \in Nat

Event == 1..MaxEvents

VARIABLES
  adapter,    \* which adapter the bus was created with
  autoGroup,  \* is the group's name generated (no group given to subscribe)?
  published,  \* the events 1..published are published, in this order
  running,    \* the deliveries whose callback is running
  finished,   \* history: the events that were acked or given up
  gone,       \* broker: the events the group will not be given again
  forgotten   \* history: the events dropped together with a consumer or a queue

deliveryVars == <<running, finished>>
brokerVars == <<gone, forgotten>>
sharedVars == <<adapter, autoGroup, published, running, finished, gone, forgotten>>

\* via: what the adapter keeps of the delivery (its loop, pattern or channel).
\* settled: whether ack() or nack() was called, and to what end.
NewDelivery(p, e, v) == [process |-> p, event |-> e, via |-> v, settled |-> "no"]
Settlement == {"ack", "drop", "requeue"}
Outcome(what) == IF what = "requeue" THEN "requeued" ELSE "finished"

\* The processes that share the group: a generated group is one process's own.
Members == IF autoGroup THEN {CHOOSE p \in Process : TRUE} ELSE Process

DeliveryInit ==
  /\ autoGroup \in BOOLEAN
  /\ published = 0
  /\ running = {}
  /\ finished = {} /\ gone = {} /\ forgotten = {}

\* publish() of some process; what the adapter does with it is external to the
\* consumers, except that it is stored before publish() resolves.
Published == published < MaxEvents /\ published' = published + 1

Running(p) == {d \in running : d.process = p}
Finish(e, what) == IF what \in {"ack", "drop"} THEN finished \cup {e} ELSE finished

StartCallback(d) ==
  /\ running' = running \cup {d}
  /\ UNCHANGED finished

\* The callback calls ack(), nack(false) or nack(true).
CallbackSettles(d, what) ==
  /\ d \in running /\ d.settled = "no"
  /\ running' = (running \ {d}) \cup {[d EXCEPT !.settled = Outcome(what)]}
  /\ finished' = Finish(d.event, what)

\* What the callback asks of the adapter when it ends: the automatic ack of an
\* event that it completed and did not settle, else nothing.
AtEnd(d, resolves) == IF resolves /\ d.settled = "no" THEN "ack" ELSE "none"

CallbackEnds(d, resolves) ==
  /\ d \in running
  /\ running' = running \ {d}
  /\ finished' = Finish(d.event, AtEnd(d, resolves))

\* The process dies: its callbacks with it.
CallbacksDie(p) ==
  /\ running' = running \ Running(p)
  /\ UNCHANGED finished
=============================================================================
