------------------------------ MODULE EventBus ------------------------------
(***************************************************************************)
(* The lifecycle of an event bus: createEventBus of packages/events/src/   *)
(* EventBus.ts, from start() to the drain of stop(), with the delivery     *)
(* callback it hands to its adapter.  What a handler and its middleware do *)
(* with one event is the subject of EventPipeline; here a handler runs and *)
(* ends.  The adapter (EventAdapter) is external: it connects, delivers    *)
(* while consuming, and takes acks while connected.                        *)
(*                                                                         *)
(* stop() may be called any number of times.  A call made while start() is *)
(* in progress waits for it and then goes on by itself (Waiters); every    *)
(* execution of stop()'s procedure is a run.                               *)
(***************************************************************************)
EXTENDS EventRouting, FiniteSets

CONSTANTS
  Event,       \* the events, each published at most once
  Message,     \* Message[e]: the type of e, and the topic given to publish()
  Routing,     \* the routing options considered: routes, publishes, strictTopics
  Foreign,     \* the topics other services publish to
  MaxRuns      \* bound: executions of the stop procedure

ASSUME EventBusAssumption == MaxRuns \in Nat \ {0}

\* Topics and type names are sequences of strings.
ASSUME RoutingAssumption ==
  /\ \A r \in Routing : r.routes \in Seq(EventMethod) /\ r.publishes \in Seq(EventMethod)
  /\ \A e \in Event :
       /\ Message[e].type \in Seq(STRING)
       /\ Message[e].topic # Undefined => Message[e].topic \in Seq(STRING)
  /\ Foreign \subseteq Seq(STRING)

Run == 1..MaxRuns

VARIABLES
  routing,      \* options: routes, publishes, strictTopics
  drainEnabled, \* option: drainTimeout > 0
  started, starting, stopping, draining,
  startPc,      \* where start()'s procedure is
  stopPromise,  \* the run whose promise stop() returns, 0 for null
  runPc,        \* runPc[r]: where run r of stop()'s procedure is
  waiters,      \* stop() calls awaiting startPromise
  inFlight,     \* the events whose handler promise is tracked
  signalled,    \* events whose signal drainController has aborted
  connected,    \* adapter: connection
  consuming,    \* adapter: subscription delivers
  event,        \* event[e]: where event e is
  topic,        \* topic[e]: what it was published to
  own,          \* history: the events this bus has published
  handledBy,    \* handledBy[e]: the handler e was last given to
  overtaken     \* history: start() was called while a run of stop() was in progress

config == <<routing, drainEnabled>>
sent == <<topic, own, handledBy>>
hasRoutes == routing.routes # <<>>
flags == <<started, starting, stopping, draining>>
adapterVars == <<connected, consuming>>
vars == <<config, flags, startPc, stopPromise, runPc, waiters, inFlight, signalled,
          adapterVars, event, sent, overtaken>>

TypeOK ==
  /\ routing \in Routing /\ drainEnabled \in BOOLEAN
  /\ started \in BOOLEAN /\ starting \in BOOLEAN /\ stopping \in BOOLEAN /\ draining \in BOOLEAN
  /\ startPc \in {"idle", "connecting", "subscribing", "unwinding"}
  /\ stopPromise \in Run \cup {0}
  /\ runPc \in [Run -> {"none", "unsubscribing", "draining", "aborting", "disconnecting", "done"}]
  /\ waiters \in 0..MaxRuns
  /\ inFlight \in SUBSET Event
  /\ signalled \in SUBSET Event
  /\ connected \in BOOLEAN /\ consuming \in BOOLEAN
  /\ event \in [Event -> {"new", "broker", "handling", "acked"}]
  /\ own \in SUBSET Event
  /\ \A e \in Event : handledBy[e] \in 0..Len(routing.routes)
  /\ overtaken \in BOOLEAN

Init ==
  /\ routing \in Routing /\ drainEnabled \in BOOLEAN
  /\ started = FALSE /\ starting = FALSE /\ stopping = FALSE /\ draining = FALSE
  /\ startPc = "idle"
  /\ stopPromise = 0
  /\ runPc = [r \in Run |-> "none"]
  /\ waiters = 0
  /\ inFlight = {}
  /\ signalled = {}
  /\ connected = FALSE /\ consuming = FALSE
  /\ event = [e \in Event |-> "new"]
  /\ topic = [e \in Event |-> Undefined]
  /\ own = {}
  /\ handledBy = [e \in Event |-> 0]
  /\ overtaken = FALSE

\* A run of stop() that has not ended.
Active(r) == runPc[r] \in {"unsubscribing", "draining", "aborting", "disconnecting"}

\* The continuations of the stop() calls that awaited startPromise run before
\* anything else once it has settled.
MicrotasksDone == starting \/ waiters = 0

-----------------------------------------------------------------------------
(* start() *)

\* Refused by the flags alone: once one of two concurrent runs of stop() has
\* cleared them, start() is accepted while the other one goes on.
Start ==
  /\ ~ started /\ ~ starting /\ ~ stopping
  /\ starting' = TRUE
  /\ startPc' = "connecting"
  /\ overtaken' = (overtaken \/ \E r \in Run : Active(r))
  /\ UNCHANGED <<config, started, stopping, draining, stopPromise, runPc, waiters,
                 inFlight, signalled, adapterVars, event, sent>>

\* The catch block: the adapter is disconnected, whatever it had set up.
Unwind ==
  /\ startPc' = "unwinding"
  /\ connected' = FALSE
  /\ consuming' = FALSE

\* adapter.connect settles; the topic maps are built (an ambiguous or duplicate
\* topic throws) and adapter.subscribe is called.
Connected ==
  /\ MicrotasksDone
  /\ startPc = "connecting"
  /\ \/ /\ ~ Ambiguous(routing) /\ ~ Duplicate(routing)
        /\ connected' = TRUE
        /\ startPc' = "subscribing"
        /\ UNCHANGED consuming
     \/ Unwind
  /\ UNCHANGED <<config, overtaken, flags, stopPromise, runPc, waiters, inFlight, signalled, event, sent>>

\* The adapter may deliver before adapter.subscribe resolves.
ConsumerUp ==
  /\ MicrotasksDone
  /\ startPc = "subscribing"
  /\ hasRoutes
  /\ consuming' = TRUE
  /\ UNCHANGED <<config, overtaken, flags, startPc, stopPromise, runPc, waiters, inFlight, signalled,
                 connected, event, sent>>

\* adapter.subscribe resolves (or is not called, without a topic) and the bus is
\* started; or it rejects.
Subscribed ==
  /\ MicrotasksDone
  /\ startPc = "subscribing"
  /\ \/ /\ started' = TRUE
        /\ starting' = FALSE
        /\ startPc' = "idle"
        /\ consuming' = hasRoutes
        /\ UNCHANGED <<stopping, draining, connected>>
     \/ hasRoutes /\ Unwind /\ UNCHANGED flags
  /\ UNCHANGED <<config, overtaken, stopPromise, runPc, waiters, inFlight, signalled, event, sent>>

Unwound ==
  /\ MicrotasksDone
  /\ startPc = "unwinding"
  /\ starting' = FALSE
  /\ startPc' = "idle"
  /\ UNCHANGED <<config, overtaken, started, stopping, draining, stopPromise, runPc, waiters,
                 inFlight, signalled, adapterVars, event, sent>>

-----------------------------------------------------------------------------
(* stop() *)

\* stop()'s procedure begins: it becomes the promise later calls get, and
\* unsubscribe() is called.
BeginRun(r) ==
  /\ runPc[r] = "none"
  /\ \A s \in Run : s < r => runPc[s] # "none"
  /\ stopping' = TRUE
  /\ draining' = TRUE
  /\ stopPromise' = r
  /\ runPc' = [runPc EXCEPT ![r] = "unsubscribing"]
  /\ UNCHANGED <<started, starting>>

\* A call of stop(): joins a run, returns, waits for start(), or begins a run.
\* (As many calls may wait as there are runs left for them.)
Stop ==
  /\ MicrotasksDone
  /\ stopPromise = 0
  /\ \/ /\ starting
        /\ waiters < Cardinality({r \in Run : runPc[r] = "none"})
        /\ waiters' = waiters + 1
        /\ UNCHANGED <<flags, stopPromise, runPc>>
     \/ /\ ~ starting
        /\ started
        /\ \E r \in Run : BeginRun(r)
        /\ UNCHANGED waiters
  /\ UNCHANGED <<config, overtaken, startPc, inFlight, signalled, adapterVars, event, sent>>

\* A stop() call goes on after startPromise: only started is checked again.
WaiterResumes ==
  /\ waiters > 0
  /\ ~ starting
  /\ waiters' = waiters - 1
  /\ IF started THEN \E r \in Run : BeginRun(r)
                ELSE UNCHANGED <<flags, stopPromise, runPc>>
  /\ UNCHANGED <<config, overtaken, startPc, inFlight, signalled, adapterVars, event, sent>>

\* Step 2: wait for the handlers; step 3: abort them; or go on to disconnect.
AfterUnsubscribe(r) ==
  LET next == IF inFlight = {} THEN "disconnecting"
              ELSE IF drainEnabled THEN "draining"
              ELSE "aborting"
  IN /\ runPc' = [runPc EXCEPT ![r] = next]
     /\ signalled' = IF next = "aborting" THEN inFlight ELSE signalled
     /\ connected' = (connected /\ next # "disconnecting")

\* The unsubscribe() calls have settled; a failure of theirs is ignored.
Unsubscribed(r) ==
  /\ MicrotasksDone
  /\ runPc[r] = "unsubscribing"
  /\ AfterUnsubscribe(r)
  /\ consuming' \in {FALSE, consuming /\ connected'}
  /\ UNCHANGED <<config, overtaken, flags, startPc, stopPromise, waiters, inFlight, event, sent>>

\* The in-flight handlers have ended: adapter.disconnect() is called.
Drained(r) ==
  /\ MicrotasksDone
  /\ \/ runPc[r] = "draining" /\ inFlight = {}
     \/ runPc[r] = "aborting" /\ inFlight \cap signalled = {}
  /\ inFlight' = {}
  /\ signalled' = {}
  /\ connected' = FALSE
  /\ consuming' = FALSE
  /\ runPc' = [runPc EXCEPT ![r] = "disconnecting"]
  /\ UNCHANGED <<config, overtaken, flags, startPc, stopPromise, waiters, event, sent>>

\* Variation: the drain has no deadline.
DrainNeverTimesOut(r) == r \notin Run /\ UNCHANGED vars

\* drainTimeout is over: drainController aborts the handlers that are left.
DrainTimesOut(r) ==
  /\ MicrotasksDone
  /\ runPc[r] = "draining"
  /\ inFlight # {}
  /\ signalled' = inFlight
  /\ runPc' = [runPc EXCEPT ![r] = "aborting"]
  /\ UNCHANGED <<config, overtaken, flags, startPc, stopPromise, waiters, inFlight, adapterVars, event, sent>>

\* adapter.disconnect() settles, either way: the finally block.
Disconnected(r) ==
  /\ MicrotasksDone
  /\ runPc[r] = "disconnecting"
  /\ runPc' = [runPc EXCEPT ![r] = "done"]
  /\ started' = FALSE
  /\ stopping' = FALSE
  /\ draining' = FALSE
  /\ stopPromise' = 0
  /\ UNCHANGED <<config, overtaken, starting, startPc, waiters, inFlight, signalled, adapterVars, event, sent>>

-----------------------------------------------------------------------------
(* Events *)

\* publish(): refused unless started and not stopping, by strictTopics if there is
\* no topic, and by an adapter that is not connected.
Publish(e) ==
  /\ started /\ ~ stopping /\ connected
  /\ event[e] = "new"
  /\ \E t \in EventTypes(routing, Message[e]) : topic' = [topic EXCEPT ![e] = t]
  /\ event' = [event EXCEPT ![e] = "broker"]
  /\ own' = own \cup {e}
  /\ UNCHANGED <<config, overtaken, flags, startPc, stopPromise, runPc, waiters, inFlight, signalled,
                 adapterVars, handledBy>>

\* Another service publishes an event.
PublishForeign(e) ==
  /\ event[e] = "new"
  /\ event' = [event EXCEPT ![e] = "broker"]
  /\ \E t \in Foreign : topic' = [topic EXCEPT ![e] = t]
  /\ UNCHANGED <<config, overtaken, flags, startPc, stopPromise, runPc, waiters, inFlight, signalled,
                 adapterVars, own, handledBy>>

\* Variation: the delivery callback does not look at draining.
DeliverWhileDraining(e) ==
  /\ MicrotasksDone
  /\ consuming
  /\ event[e] = "broker"
  /\ HandlerFor(routing, topic[e]) # 0
  /\ event' = [event EXCEPT ![e] = "handling"]
  /\ handledBy' = [handledBy EXCEPT ![e] = HandlerFor(routing, topic[e])]
  /\ inFlight' = inFlight \cup {e}
  /\ UNCHANGED <<config, overtaken, flags, startPc, stopPromise, runPc, waiters, signalled, adapterVars, topic, own>>

\* The delivery callback of an event with a handler: nacked with requeue while
\* draining, else handled.
Deliver(e) ==
  /\ MicrotasksDone
  /\ consuming
  /\ event[e] = "broker"
  /\ HandlerFor(routing, topic[e]) # 0
  /\ ~ draining
  /\ event' = [event EXCEPT ![e] = "handling"]
  /\ handledBy' = [handledBy EXCEPT ![e] = HandlerFor(routing, topic[e])]
  /\ inFlight' = inFlight \cup {e}
  /\ UNCHANGED <<config, overtaken, flags, startPc, stopPromise, runPc, waiters, signalled, adapterVars, topic, own>>

\* An event without one is acked, also while draining.
DeliverUnhandled(e) ==
  /\ MicrotasksDone
  /\ consuming
  /\ event[e] = "broker"
  /\ HandlerFor(routing, topic[e]) = 0
  /\ event' = [event EXCEPT ![e] = IF connected THEN "acked" ELSE "broker"]
  /\ UNCHANGED <<config, overtaken, flags, startPc, stopPromise, runPc, waiters, inFlight, signalled, adapterVars, sent>>

\* A handler ends: the event is acked if it completed and the adapter still
\* takes the ack; otherwise the broker keeps the event and delivers it again.
HandlerEnds(e) ==
  /\ MicrotasksDone
  /\ event[e] = "handling"
  /\ event' \in {[event EXCEPT ![e] = "broker"],
                 [event EXCEPT ![e] = IF connected THEN "acked" ELSE "broker"]}
  /\ inFlight' = inFlight \ {e}
  /\ signalled' = signalled \ {e}
  /\ UNCHANGED <<config, overtaken, flags, startPc, stopPromise, runPc, waiters, adapterVars, sent>>

-----------------------------------------------------------------------------
StartStep == Connected \/ Subscribed \/ Unwound
RunStep(r) == Unsubscribed(r) \/ Drained(r) \/ DrainTimesOut(r) \/ Disconnected(r)

Next ==
  \/ Start \/ StartStep \/ ConsumerUp
  \/ Stop \/ WaiterResumes
  \/ \E r \in Run : RunStep(r)
  \/ \E e \in Event : Publish(e) \/ PublishForeign(e) \/ Deliver(e) \/ DeliverUnhandled(e) \/ HandlerEnds(e)

Spec == Init /\ [][Next]_vars

\* The event loop and the adapter answer; the drain timer fires.  A handler is
\* only assumed to end once its signal is aborted: stop() has no bound of its own
\* after that.
Fairness ==
  /\ WF_vars(StartStep) /\ WF_vars(ConsumerUp) /\ WF_vars(WaiterResumes)
  /\ \A r \in Run : WF_vars(RunStep(r))
  /\ \A e \in Event : WF_vars(e \in signalled /\ HandlerEnds(e))

FairSpec == Spec /\ Fairness

-----------------------------------------------------------------------------
(* Properties *)

(***************************************************************************)
(* Each event gets the handler its topic asks for: one whose topic is the  *)
(* event's or covers it, and none only if no handler does.  What the bus   *)
(* publishes for a type that a route of its own declares, it also decodes  *)
(* as that type, whatever other patterns cover the topic.                  *)
(***************************************************************************)
RoutedAsDeclared ==
  \A e \in Event :
    LET h == handledBy[e]
        topics == Topics(routing)
        Fits(i) == topics[i] = topic[e] \/ Covers(topics[i], topic[e])
        declares == {i \in DOMAIN topics : routing.routes[i].input = Message[e].type}
    IN event[e] \in {"handling", "acked"} =>
         /\ IF h = 0 THEN \A i \in DOMAIN topics : ~ Fits(i) ELSE Fits(h)
         /\ e \in own /\ Message[e].topic = Undefined /\ declares # {} => h \in declares

\* stop() hands a connection back only when no handler it has drained is still
\* executing: acks and dead letters of drained events reach the broker.  However
\* many stop() calls run the procedure at once, only a start() that does not wait
\* for all of them can break it.
DrainedBeforeDisconnect ==
  ~ overtaken =>
    \A r \in Run : runPc[r] = "disconnecting" => \A e \in Event : event[e] # "handling"

Lifecycle == INSTANCE EventBusLike WITH
  bus <- (IF starting THEN "starting" ELSE IF stopping THEN "stopping"
          ELSE IF started THEN "started" ELSE "stopped"),
  link <- connected

\* The bus keeps the contract the server relies on, for any number of stop() calls
\* that resume together: start() and stop() end, and a connection is held exactly
\* from start() to stop(), as long as start() is not called again before every
\* run of stop() has ended (the flags accept it: EventBus.ts:276).
LifecycleSpec == Lifecycle!Spec
=============================================================================
