# Connectum: a TLA+ verification project

This directory holds TLA+ modules that model the core of the Connectum
framework (`src/packages`), the TLC configurations that check them on small
instances, and theorems with proofs that TLAPS checks for every instance.
`PROJECT.json` is the index: components, runs, what each definition models
(`map`), hazards, findings and theorems.

## 1. Inventory

Connectum is a TypeScript framework for gRPC/ConnectRPC services: a server with
an explicit lifecycle, an event bus over several brokers, interceptors, health
checks, authentication and service-to-service calls.

| Component | State it keeps | Operations | What is hard | What makes it correct |
|---|---|---|---|---|
| Shutdown hooks (`core/src/ShutdownManager.ts`) | dependency tree, handlers per name, memo of promises | addHook, executeAll | registration during execution; failures in one branch; shared dependencies | acyclic tree; dependencies first; each handler once; a resolved run leaves nothing executing |
| Server lifecycle (`core/src/Server.ts`, `gracefulShutdown.ts`) | state, stop promise, abort controller, signal handlers | start, stop, onShutdown | listeners re-enter and throw; shutdown timer races close(); failed start | states in order; hooks after requests; everything released when stop() resolves; stop() ends |
| Transport (`core/src/TransportManager.ts`) | server, address, HTTP/2 sessions | listen, close, destroyAllSessions, dispose | close() waits for clients; only HTTP/2 sessions are known | no connection accepted after stop began |
| Event bus (`events/src/EventBus.ts`) | flags, start/stop promises, in-flight set, drain controller | start, stop, publish, delivery callback | stop() during start(); deliveries during drain; drain deadline | drained before disconnect; released when stopped; start() and stop() end |
| Event pipeline (`events/src/middleware*`, `EventContext.ts`) | settled flags, attempt counter | deliver, ack, nack, retry, dead-letter | crashes, failing acks, aborts during backoff, concurrent redelivery | at-least-once; one settlement per delivery |
| Event routing (`events/src/EventRouter.ts`, `topic.ts`, `wildcard.ts`) | publish and handler maps | route, resolve, match | overlapping patterns, duplicate and ambiguous topics | an exact topic wins; matching agrees with its definition; a type is decoded as itself |
| AMQP publisher and recovery (`events-amqp`) | connection, channels, pending publishes, subscription records | connect, publish, recovery, disconnect | reconnects, confirms and returns | active subscriptions are replayed on recovery; a publish resolves only when confirmed |
| Consumers (`events-amqp`, `-redis`, `-nats`, `-kafka`) | loops, batches, offsets, durable consumers, channels | subscribe, deliver, settle, unsubscribe | crashes, lost replies, rebalances, reclaims, channel errors | an event leaves the group only where the code or its broker gives it up; partition order; quiet after unsubscribe |
| Routes and calls (`core/src/buildRoutes.ts`, `catalogDispatcher.ts`, `catalogClient.ts`, ...) | built routes, in-process transports, cached remote transports, call contexts | addService, localClient, client, ctx.call, ctx.stream | lazy building, nested calls, deadlines, cancellation | in-process and HTTP requests meet the same server; deadlines and cancellation are inherited; one transport per route |
| Stream bridge (`core/src/streamBridge.ts`) | buffer, closed, failure, waiter | push, close, fail, iterate | lost wake-up | every pushed value is read, in order, before the end |
| Transport validation (`core/src/TransportValidation.ts`) | none | resolve, validate | options that are not set | no bidi service on a transport that cannot carry it |
| Interceptors (`interceptors/src`) | circuit state, bulkhead slots (both in an external library) | the default chain, method filters | outcomes reported in another circuit state; work left behind by a timeout | capacity respected; failures counted once per request; a circuit closes on a success only |
| Health checks (`healthcheck/src`) | entries by name | register, set, update, initialize, check, watch | re-initialisation, bulk updates, names that come and go | nothing is called SERVING that is not; watchers catch up |
| Authentication and authorization (`auth/src`) | session cache | authenticate, trust, authorize | stale sessions, precedence of options and rules, skipped methods | nobody is served as another or anonymously; a revoked session is served for one ttl at most |

Interactions. The server calls `eventBus.start()` and registers `eventBus.stop()`
as a shutdown hook; it emits events whose listeners run synchronously inside
`start()` and `stop()`; `performGracefulShutdown` closes the transport, then
runs the hooks, then disposes the transport. The event bus calls its adapter and
is called back for every delivery; the callback runs the middleware chain; the
chain settles the delivery through the context, and the adapter passes the
settlement to the broker. The abort signal of the server and that of the drain
reach handlers through the event's context. Interceptors wrap every request of a
server, over HTTP and in process; a handler's calls go through the catalog to the
same server or to a transport a resolver returns. Servers of one process share
the health registry.

OpenTelemetry, reflection, logging, configuration parsing, the command line and
the test helpers hold no state that the program's behaviour depends on; they are
listed in `PROJECT.json` with the reason they are left out.

## 2. Modules

| Module | Models | State and actions |
|---|---|---|
| `ShutdownManager` | `ShutdownManager.ts` | `dependencyTree`, `hooks` are the two maps; `status[m]` is m's entry of `_pendingPromises`; `awaited[m]` what its promise read; `hstate` the handlers' promises. `AddHook`, `ExecuteAll`, `Visit` (one synchronous step of `_executeModule`), `RunHandlers`, `DependencyFailed`, `HandlerSettles`, `ExecuteAllSettles`. |
| `Server` | `Server.ts`, `gracefulShutdown.ts`, `TransportManager.ts` | extends `ShutdownManager`; `startPc` and `stopPc` say where `start()` and `stop()` are between two awaits. One action per continuation. |
| `ServerContract` | | what a program relies on; `Server` implements it |
| `ServerProofs` | | theorems about `ShutdownManager` and `Server` |
| `EventRouting` | `topic.ts`, `wildcard.ts`, `EventRouter.ts` and the maps of `start()` | operators: `MatchPattern` is the loop of `matchPattern`, `Covers` what a pattern means. |
| `EventBus` | `EventBus.ts` | the four flags, `stopPromise`, one `runPc` per execution of the stop procedure, the in-flight set; the adapter is `connected` and `consuming`; each event has its topic and the handler it was given to. |
| `EventBusProofs` | | theorems about both |
| `EventBusLike` | `core/src/types.ts` | the abstract bus the server sees; `EventBus` implements it. `overtaken` notes that start() was called before every stop() had ended, of which the contract says no more |
| `EventPipeline` | delivery callback, context, retry and DLQ middleware | several deliveries of one event, each with its place in the pipeline; the broker waits for a settlement or gives up waiting. |
| `EventPipelineProofs` | | theorems about it |
| `AmqpPublisher` | `AmqpAdapter.ts`: publish(), its channel, confirms and returns | `pub[m]` is the promise of one publish() call, `wire[m]` the next frame about its message; `pendingReturns` and `mandatoryChain` as in the code. A confirm channel is named by the number of its connection. |
| `AmqpAdapter` | `AmqpAdapter.ts`: connect() with its probe, recovery, onSetup, subscribe, unsubscribe, disconnect() | extends `AmqpPublisher`, and implements it: `PublisherSpec` is a property of it. `position` and `replaying` are onSetup's loop over the list of records; an await of the code is the boundary of an action. Histories: `dropped` are the subscriptions whose consumer ended by itself on the connection, `skipped` those the loop jumped over. |
| `AmqpAdapterProofs` | | theorems about `AmqpPublisher` and `AmqpAdapter` |
| `EventDelivery` | `events/src/types.ts`, the delivery callback as an adapter sees it | what the four consumers share: `running` deliveries, `finished` events, what the broker will not give again (`gone`). |
| `RedisConsumer`, `NatsConsumer`, `KafkaConsumer`, `AmqpConsumer` | the consuming half of each adapter | one action per turn of a loop, settlement, subscribe and unsubscribe; the brokers are external. In `KafkaConsumer`, `start` is the end of the log at the last assignment without a committed offset, and `abandoned` the messages from a failed one to the end of its batch; in `NatsConsumer`, `rolledBack` are the patterns whose durable consumers a failed subscribe() deleted. |
| `EventConsumers` | | a group of processes over one of the four adapters |
| `EventConsumersProofs` | | theorems about it |
| `StreamBridge` | `streamBridge.ts` | the queue, its waiter, and the consumer's queued continuation |
| `CatalogCalls` | `Server.ts` (routes, clients), `buildRoutes.ts`, `localTransport.ts`, `catalogDispatcher.ts`, `catalogClient.ts`, `TransportValidation.ts` | extends `StreamBridge`; `built` and `transports` are the memoised routes and in-process transports, `cache` the remote ones, `call` the tree of calls with deadlines and signals. |
| `CatalogCallsProofs` | | theorems about `StreamBridge` and `CatalogCalls` |
| `LruCache` | `auth/src/cache.ts` | operators on the Map, kept in its insertion order |
| `MethodAuth` | `authz-*.ts`, `method-match.ts`, `proto/*` | operators: pattern, option and rule resolution, and the two decision flows |
| `AuthChain` | the authentication, gateway and internal interceptors | extends both; requests in flight between the store's read and its answer. A marker of an internal caller has a maker, and, for a signed token, the issuer, subject and roles it claims; the headers of a gateway are whatever the sender writes |
| `AuthChainProofs` | | theorems about the three |
| `Resilience` | `interceptors/src` | each request is a thread that goes down and up its chain; a timeout splits it into an outer and an inner one. |
| `HealthManager` | `healthcheck/src` | `entries` is the registry, `watch` the streams, `told` a history of what each owner last said. |
| `ResilienceHealthProofs` | | theorems about `Resilience` and `HealthManager` |
| `MC*` | | instances for TLC |

How asynchronous code is modelled. JavaScript runs one continuation at a time:
an action is a stretch of code between two awaits. Where user code runs in the
middle of such a stretch (listeners of `emit`, hooks called by `executeAll`'s
traversal) the stretch is split at that point, and the guards `EventLoop` (in
`Server`), `toVisit = {}` (in `ShutdownManager`) and `MicrotasksDone` (in
`EventBus`) keep timers, I/O and other continuations out. `CallerCanRun` is a
slight over-approximation: during the traversal any handler called so far may
register a hook, not only the last one called.

Definitions whose comment begins with "Variation" are not part of the
specifications: each is a plausible mistake in the code, and `mutants` in
`PROJECT.json` says which property TLC must find violated when it replaces the
definition it varies.

## 3. Runs

| Run | Instance | Shows |
|---|---|---|
| `shutdown_hooks` | 3 names, 3 handlers, fair | `AcyclicTree`, `DependencyOrder` and `ResolvedIsQuiet` for every order of registrations before and during `executeAll`, with handlers that fail or throw; `executeAll` settles and failures stay contained. Three names give a chain and a shared dependency; the theorems lift the invariants to any number. |
| `server` | 2 names, 2 handlers, 1 connection, fair | `CleanStop`, `HooksAfterRequests`, `FailedStartStopsBus`, and `Server` implements `ServerContract`, including that `start()` and `stop()` end whatever the clients do. All option combinations are initial states, with and without listeners that throw and user code that closes the transport; the contract is about the servers without either, and `CleanStop`, `HooksAfterRequests` and `FailedStartStopsBus` also about those with. |
| `bus_lifecycle` | 2 events, 52 sets of routes, 2 stop() calls, also both during one start(), fair | `DrainedBeforeDisconnect`, `RoutedAsDeclared`, and `EventBus` implements `EventBusLike`. Nothing is claimed of the drain once start() has been called before every stop() had ended. The routes are all pairs over topics that cover one another, and some with publish-only services and strict topics. |
| `pipeline` | 2 deliveries, 1 retry, fair | `NotLost`, `SettledOnce`, and with a DLQ every delivery is settled, unless the process crashes or the user's `errorSerializer` may throw (`DlqSettles`). Two deliveries overlap when the broker gives up waiting for the first. |
| `amqp_publish` | 2 publishes, 2 connections, fair | `ResolvedIsTaken`, `NackIsFromBroker`, `HeaderCorrelates`, `NoConfirmLost` without a header, with it and single-flight; every publish settles although the broker may never answer. |
| `amqp_recovery` | 1 publish, 2 subscriptions, 2 connections | `ActiveAreConsumed`, with single subscriptions ended at any moment, also during the replay, and consumers that the broker or an error of their channel ends; and the adapter's steps are steps of the publisher specification, so that what is shown and proved about that holds under recovery. |
| `calls` | 2 user services and a protocol, 2 calls, clock to 1, 2 remote transports | `DeadlineInherited`, `TransportParity`, `BidiIsServable`, `RouteStable`, `InputDelivered`, `CancelReaches`, for every order of materialising routes, adding to them, starting and calling, unary and streaming, nested once, also made or first iterated when nothing is left of the deadline. |
| `consumers` | 2 processes, 2 events, batches of 2, each of the four adapters | `AtLeastOnce` for all of them, `OnlyFailedOvertaken` for Kafka, `QuietWhenUnsubscribed` for Redis, under crashes, lost replies, rebalances, reclaims and failing settlements. |
| `kafka_auto_resolve` | the same, Kafka only | ends in a violation of `PartitionOrder`, which states what the adapter's comments say: with KafkaJS's default for `eachBatchAutoResolve`, which the adapter leaves as it is, a failed message is passed over with the rest of its batch. `findings` in `PROJECT.json` quotes the comments. `OnlyFailedOvertaken` in `consumers` is what the same model does keep. |
| `auth` | 2 requests and 3 credentials over a cache of 2 places; 1 request over every other deployment | `FreshIdentity` and `CacheIsRecent` where requests share a cache; `OwnIdentity` and `NoAnonymous` for every kind of method, credential, trust source and authorization, with addresses of 3 bits, tokens that claim any subject and role, and any trust header. |
| `resilience` | 3 requests, capacity 1, queue 1, threshold 2, 1 retry | `HandlersWithinCapacity`, `CountsRequests`, `ClosesOnSuccess`, for the whole default chain, parts of it, and filtered chains. |
| `health` | 4 names, 2 servers, 1 stream, fair | `ServingIsTrue`, and `WatchersLearn`: a stream catches up again and again. |

Bounds. `MaxRuns` bounds the stop procedures of `EventBus`; 2 leave room for two
that wait for one start() and overlap, with a start() between their ends, and for
two sessions.
`MaxRetries` and the set of deliveries bound `EventPipeline`; `Module`,
`Handler` and `Conn` the server. `MaxLinks` bounds the connections of the AMQP
adapter (2: one lost and one recovered, or the probe and the real one);
dialing may fail any number of times. `MaxCalls`, `MaxTime`, `MaxTimeout` and
`MaxInterceptors` bound `CatalogCalls`: one inbound request and one call made for
it, or two calls of a client. `MaxEvents`, `MaxBatch`, `MaxDeliver` and
`MaxChannels` (a total over the processes) bound the consumers; two events of
two patterns are enough for one to overtake the other. `MaxTime` and `MaxRevoked`
bound `AuthChain`: with a ttl of 2, a clock to 3 lets an entry expire. In
`Resilience` three requests fill a slot and a queue and leave one to be
rejected. Symmetry is used in `resilience` only, whose properties are invariants
and an action property; the other runs check liveness or distinguish their
values. Deadlock checking is on in `health` and off in the other runs: a stopped
server, a settled `executeAll`, a stopped bus, an answered request and a settled
event are ends the system may come to.

Fairness. Weak fairness on the actions that continue a promise, on timers and on
the answers of the operating system, the adapter and the bus: the event loop
runs every callback that is due. For AMQP only the timers of publish() and
the promise chain are fair: the broker need not answer. User code is assumed to end where the code
itself needs it (hooks: "hooks should be fast"), and in `EventBus` only handlers
whose signal was aborted are assumed to end: after the drain timeout `stop()`
waits for them without a bound, so one that ignores its signal holds it up. The poll timer of a Watch stream fires while its client is there. Clients are never
assumed to leave, listeners never to be called, nobody to call `stop()`.

Known deviations. The models keep what the code does where it differs from what
a document or a comment says; besides `kafka_auto_resolve`, these were met:

- `emit("start")` is outside `start()`'s try block (`Server.ts:172`): a throwing
  listener leaves the server in STARTING, where the lifecycle test says a failed
  start is terminal. In `Server`, `startPc = "rejected"` does not imply
  `state = "stopped"`.
- Without `forceCloseOnTimeout` the "server waits indefinitely for in-flight
  requests to complete", says `core/src/types.ts:203-208`. `gracefulShutdown.ts:54`
  arms the timer in either case, and when it fires the shutdown goes on to the
  hooks and ends with requests still open. `Server` does that (`TimerFires`), and
  `ContractSpec`, that stop() ends, holds for both values of the option because of
  it; with the documented behaviour a client that never leaves would keep stop()
  from ending.
- Two `stop()` calls made during one `start()` both run the procedure
  (`EventBus.ts:276`). When the faster has resolved the bus may be started again,
  and the slower one then disconnects the adapter of the new session and clears its
  flags. `EventBus` has both; `LifecycleSpec` and `DrainedBeforeDisconnect` hold
  until start() is called before every stop() has ended, and are not claimed after
  it (`overtaken`). Without a start() in between, the second run does no harm.
- The user's `errorSerializer` is called outside the try around the publish of the
  dead letter (`dlq.ts:45`): when it throws, the error leaves the middleware, the
  event is neither dead-lettered nor acked, and only the broker's redelivery can
  bring it back, where `dlq.ts:4-6` promises a dead letter and an ack. `Escapes`
  has it, `DlqSettles` names the exception, `NotLost` holds in spite of it.
- An abort of the event's signal dead-letters an event before its retries are
  used up (`retry.ts:94`, against `dlq.ts:4`).
- Single-flight AMQP publishes: the late return of a publish that timed out marks
  the next one, which is rejected as unroutable though routed
  (`AmqpAdapter.ts:399`, against the package's README).
- Recovery "Replays all active subscriptions" (`events-amqp/README.md:292`). Ending
  one subscription during the replay takes its record out of the list that is being
  iterated (`AmqpAdapter.ts:941-944`, the loop at `:580`), and the next one is not
  replayed. `ActiveAreConsumed` says exactly which are passed over (`skipped`).
- A consumer that the broker cancels is ignored (`AmqpAdapter.ts:500`), and so is a
  consumer channel closed by an error (`:420-423`), for which a handler that acks
  and then rejects is enough, as its delivery is settled twice (`:554`). The
  subscription stays active without a consumer until the next connection
  (`ConsumerEnds`, `dropped`). The events come back then.
- A Kafka consumer whose group has no committed offset starts at the end of the log
  at every assignment (`fromBeginning` is false by default), so events published
  before a rebalance or restart and not finished are passed over. The adapter sets
  `autoCommit: false` and commits by `commitOffsetsIfNecessary()` with neither an
  interval nor a threshold (`KafkaAdapter.ts:229-231` and `:257-284`), so whether
  an offset is ever committed is up to KafkaJS; the model allows both. `AtLeastOnce`
  counts these events, and those behind a failed message in its batch, as given up
  (`GivenUp`): for Kafka it is a bound on what may be lost, not a promise that
  nothing is.
- NATS promises "durable, at-least-once delivery" (`events-nats/README.md:11`). The
  rollback of a subscribe() that fails half way means to "Delete broker-side durable
  consumers created before the failure" (`NatsAdapter.ts:240`), but for a named
  group `consumers.add` finds a durable that exists, and the rollback deletes it
  under the other processes that use it: they lose what was not acked. `AtLeastOnce`
  limits this to the patterns whose durables were deleted.
- "A caller may shorten the deadline, never extend it" (`context.ts:50-51`). When
  nothing is left of it, the clamped timeout is not positive, which ConnectRPC's
  transports take as no timeout (`catalogDispatcher.ts:424`): a call made, or a
  stream first iterated, after the deadline has none. It still has the request's
  signal, or one the caller gave it instead, and `DeadlineInherited` states that.
- "Compromising service A's key forges only A" (`internal-auth-interceptor.ts:248`).
  The key set is that of the issuer a token claims, but its subject and, where the
  issuer's `claimsMapping` names them, its roles are the token's own claims
  (`:331-333`): a known issuer may name any subject, another service included.
  `OwnIdentity` says so: the signer answers for the subject it names, and gets roles
  only by the mapping configured for itself.
- The trust of a gateway rests on the value of a header that the sender of the
  request writes (`gateway-auth-interceptor.ts:7-8, 132`), also where expected
  values are IP ranges. `OwnIdentity` claims no more than that the value was an
  expected one.
- `timeout.ts:18` says timed-out requests "are cancelled"; the aggressive timeout
  answers the caller and leaves the handler and its retries running. They keep
  their slot of the bulkhead, which `HandlersWithinCapacity` relies on.
- The fallback is the innermost interceptor of the default chain: it hides
  failures from retry and circuit breaker.

## 4. Proofs

Each theorem holds for every value of the constants; assumptions on them are
named here. An invariant of a run is seldom inductive; what is added to it is
said with each.

### `ServerProofs`

About `ShutdownManager`, for every set of names and handlers:

- `TypeCorrect`: `Spec => []TypeOK`.
- `TreeAcyclic` (`AcyclicTree`). The depth-first test is a recursive function on
  pairs of a name and the names on the path; `SearchExists` and `SearchUnfolds`
  give its defining equation. If the search from the changed name finds nothing,
  the set of names it reaches is closed (`NegativeSearch`), no name of it depends
  on the changed one, and adding dependencies of that name keeps the tree acyclic
  (`AddingPreserves`). A rejected registration changes nothing.
- `OrderRespected` (`DependencyOrder`) and `QuietWhenResolved`
  (`ResolvedIsQuiet`). `IInv` adds who owns a handler (`OneOwner`), what a
  module's status says about its handlers and about what it awaits
  (`StatusMeaning`), that the traversal misses nothing (`TraversalComplete`: any
  set of names that holds the registered ones and is closed under what is awaited
  holds every visited name) and the phases of `executeAll` (`PhaseMeaning`).
  "Reaches" is expressed by closed sets, so that no induction over paths is
  needed.

About `Server`:

- `ServerRunsHooks`: every step of the server is a step of `ShutdownManager` or
  leaves it alone, so the results above hold in the server.
- `HooksComeLast` (`HooksAfterRequests`), `FailedStartIsClean`
  (`FailedStartStopsBus`) and `StopReleases` (`CleanStop`). `ServerIInv` adds to
  `IInv` how start(), stop() and the state go together (`PhasesAgree`), that the
  bus runs only between start() and a hook that is registered in time
  (`BusMeaning`: its registration is never refused as a cycle, as it has no
  dependencies), and what has been released when (`ShutdownMeaning`).
- `ServerKeepsContract`: the safety part of the refinement of `ServerContract`,
  from `ServerIInv` and `ContractMeaning`.

### `EventBusProofs`

- `MatchIsCover`: the loop of `matchPattern` agrees with `Covers` for patterns and
  topics of any length (the loop is the least index at which it ends, whose
  existence is the well-foundedness of the naturals).
- `RoutesAsDeclared` (`RoutedAsDeclared`), for any routes and events.
  `RoutingInv` adds that topics are checked before the first event is published or
  delivered (`CheckedFirst`), that a published event has the topic declared for
  its type (`PublishedAsDeclared`) and that the handler is the one its topic, which
  it keeps, selects (`ChosenByTopic`). With no ambiguous and no duplicate topic the
  route that declares the type is then the only exact one. Assumed: topics and type
  names are sequences of strings (`RoutingAssumption`).
- `DrainsFirst` (`DrainedBeforeDisconnect`) and `BusKeepsLifecycle` (the safety
  part of the refinement of `EventBusLike`), for any number of stop() calls, also
  several that wait for one start(). `StoppingInv` adds, until start() is called too
  early (`overtaken`), what the flags say of start() (`StartingMeaning`), that no
  delivery begins while the bus stops and a run that another one has outpaced finds
  no connection and no handlers (`StoppingMeaning`), and what a run has waited for
  (`DrainMeaning`).

### `EventPipelineProofs`

For every set of deliveries and every number of retries: `PipelineTyped` (the
handler is called at most `MaxRetries + 1` times), `NothingLost` (`NotLost`) and
`OneSettlement` (`SettledOnce`). `PipelineMeaning` relates the place in the
pipeline to the attempts, the dead letter and the settlements so far: what is about
to be acked as dead-lettered is on the DLQ topic, and what is unsettled and still
in the pipeline has asked for no settlement.

### `AmqpAdapterProofs`

About `AmqpPublisher`, for every set of messages and number of connections:
`PublishedIsTaken` (`ResolvedIsTaken`), `NacksAreReal` (`NackIsFromBroker`),
`HeaderCorrelation` (`HeaderCorrelates`) and `ConfirmsArrive` (`NoConfirmLost`).
The invariant adds `FrameMeaning`, what the next frame about a message says about
its fate (an ack of an unroutable mandatory message whose publish is outstanding
finds the mark of the return set), and `EntryMeaning`, that every outstanding
mandatory publish has its entry. The order of the single-flight chain is not
needed.

About `AmqpAdapter`:

- `ReplayIsComplete` (`ActiveAreConsumed`), for any number of subscriptions ended in
  any order. `AdapterIInv` adds who owns a connection (`LinkMeaning`), that
  subscriptions not ended are in the list (`RecordMeaning`), and that during the
  replay each of them is accounted for (it has its consumer, or is `dropped` or
  `skipped`), is being replayed or is still before the loop (`ReplayMeaning`).
  `RemoveRecordKeeps` is the step that moves records under the loop's index: the
  only one that gets behind it is the one added to `skipped`.
- `AdapterImplementsPublisher` (`PublisherSpec`): every step of the adapter is one
  of the publisher or leaves it alone. `ChannelMeaning` adds that only the latest
  connection has an open channel, and that frames and pending returns belong to
  publishes outstanding on it. `AdapterPublishes` then carries the four results
  about the publisher over to the adapter.

### `EventConsumersProofs`

For any number of processes and events, and any limits of the adapters:

- `NoEventIsLost` (`AtLeastOnce`) and `FailuresStayInBatch` (`OnlyFailedOvertaken`).
  Redis and AMQP need nothing beyond the property; `NatsMeaning` adds that what
  JetStream will deliver has deliveries left. For Kafka, with KafkaJS resolving
  the batch when eachBatch returns: everything between the start and the committed
  and resolved positions is finished, or failed or behind a failure in its batch
  (`PositionsFinished`), a batch follows on such messages and ends at the position
  KafkaJS resolves (`BatchesInOrder`), and so does the message in a callback
  (`CallbacksInOrder`).
- `UnsubscribedIsQuiet` (`QuietWhenUnsubscribed`): `RedisMeaning` adds that a loop
  has one callback at a time, and none where it does not process entries.

### `CatalogCallsProofs`

About `StreamBridge`: `QueueDelivers` (`InputDelivered` of the queue alone, failures
included), from `QueueMeaning`: a resolve function is registered exactly while the
generator is parked. About `CatalogCalls`, for any services, files, options, remote
transports and any number of calls:

- `InputArrives` (`InputDelivered`): the steps of calls are steps of the queue.
- `TransportsAgree` (`TransportParity`) and `NoBidiHangs` (`BidiIsServable`).
  `BuiltMeaning` adds that routes are those of the current lists, that transports
  exist only with routes, and that a running server was validated. Everything that
  adds to the lists is refused once the routes are there (`BuiltStays`).
- `RoutesAreStable` (`RouteStable`). `RoutesAgree` adds that a route leads to this
  process if its service is registered, else to what the cache holds, and that a
  server routes nothing before its routes are materialised.
- `DeadlinesHold` (`DeadlineInherited`, calls made after the deadline included) and `CancellationReaches` (`CancelReaches`).
  `CallsMeaning` adds that calls are numbered without gaps, that a call is made by
  an earlier one that is handled in this process and keeps its deadline and signal,
  and that the signal of a frame is the call's own or that of its caller's frame
  (`CallOk`). `Governor` is a recursive function over the tree of calls; the
  signals of the frames satisfy its equation (`SignalsGovern`), and nothing else
  does, since the least call at which another solution differed would have a
  smaller caller (`GovernorIsSignal`).

Assumed: the value for "undefined" is no number, string, route table or transport,
and no remote transport is one of the words the model uses for the absence of one
(`UndefinedAssumption`); options are those of `createServer()` or of
`createCatalogClient()` (`OptionsAssumption`).

### `AuthChainProofs`

For any credentials, requests, policies and deployments:

- `CacheKeepsRecent` (`CacheIsRecent`) and `CredentialsAreFresh` (`FreshIdentity`).
  The cached keys are the end of the credentials in the order of their use
  (`AreEnd`), which deleting, appending and evicting preserve; an entry holds the
  context of its own credential for one ttl after the store confirmed it
  (`EntryMeaning`).
- `RequestsRunAsThemselves` (`OwnIdentity`) and `NoAnonymousHandler`
  (`NoAnonymous`). `TrustSourceMeaning` says that each trust source gives only what
  the maker of a marker may vouch for (`Vouched`), whatever a token claims.
  `IdentityMeaning` says where the context of a request comes
  from, `PlaceMeaning` what its place in the chain says of it. The lemmas about
  decisions show that a request without a context is let through only to an open
  method (`AnonymousIsOpen`, whichever rule applies first) and that masking an
  address is membership in a range (`MaskingIsRange`).

Assumed, besides the types of the configuration: a method is a service and a name
that is not "*" (`MethodAssumption`), a cache has a place and a ttl, networks have
prefixes matchesIp takes (`DeploymentAssumption`), powers of two are positive
(`PowersAssumption`: the provers know no exponentiation), and a context is a value
that is set.

### `ResilienceHealthProofs`

For every set of requests, every list of options, capacity, queue, threshold,
number of retries, failure predicate and way handlers end:

- `HandlersBounded` (`HandlersWithinCapacity`). A timeout ends the outer thread of
  a request and leaves the inner one in the bulkhead, so the bound cannot be read
  off the requests that are unanswered. `BulkheadInv` says that an inner thread
  inside the bulkhead or on its way out of it has a slot, that no more slots are
  taken than there are, and that the outer thread of a request is always outside
  the bulkhead, so that it frees none.
- `RequestsCounted` (`CountsRequests`). `BreakerInv` says that what comes up at the
  circuit breaker is how the last call of the handler ended, or `ok` from a
  fallback (`Truthful`), and that the count is at most the number of requests in
  `Failed`: those that are past the breaker for good with a handler that failed. A
  request that leaves the breaker with a failure joins `Failed` in that step
  (`LeaverFails`) and nobody ever leaves it, which is why a retry or a late outcome
  is not counted twice. A circuit that is not closed, or a test that is still
  under way, has had a threshold's worth of them.
- `ClosedBySuccess` (`ClosesOnSuccess`), from `ClosingStep`: only the end of a test
  closes the circuit, and by `Truthful` its outcome is its handler's.

All rest on `Basic` (the types, and that the queue holds a request at most once
and only while it waits) and on two summaries of the fifteen actions. `NextMoves`
says of each step which threads go one interceptor up, stop where they are, or go
down to the next one that stops them, past the bulkhead only with a slot;
`NextSpeaks` says what they bring. The invariants are then kept by cases of the
summary rather than of the actions. `DefaultRanked` gives the order of the default
interceptors for every list of options, `ChainBulkheadOrder` and
`ChainBreakerOrder` that of the whole chain.

The theorems have a hypothesis on the filters, which `MCResilience` checks for the
configurations of the run. `BulkheadInside`: the filters of a method have no
timeout, and a bulkhead only where the options have none. `BreakerOutside`: they
have no circuit breaker, and if the options have one they are retries, or
fallbacks where the options have a fallback too. Every chain of
`createDefaultInterceptors()` alone meets both. Neither can be dropped. Each filter
makes a policy of its own, and the module has one bulkhead and one circuit; a
timeout inside the bulkhead gives the slot back while the handler runs, as
`DefaultInterceptors` reordered to `BulkheadOutside` shows in TLC; and a fallback
of a filter makes a success of what failed. Assumed
besides: limits are positive or, for the queue and the retries, natural; filters
are sequences of interceptors; a value that is not set is no outcome and no call.

- `ServingTrue` (`ServingIsTrue`), for every set of names, servers and streams.
  `Agrees` says that the registry holds what was last said, of exactly the names
  it was said of. Assumed: the empty name is no service's, and the value for "not
  set" is no entry.

### Only model-checked

The liveness properties, and the fairness of the specifications in the
refinements: out of the prover's reach. Every other property of a passing run is
stated by a theorem.

## 5. Plan

Every part that carries the program's logic is modelled, and every safety property
and action property of the runs is proved. What would extend the project: a
`Resilience` with a policy for each filter instead of one of a kind, so that the
hypotheses on filters can go; and the parts of section 6 that keep state, above
all subscriptions made during an AMQP recovery.

## 6. Not modelled

Message contents, serialisation, metadata and headers, with the propagation of
headers through calls and the mapping of errors at the boundary of a call; the
length of timeouts and delays (a timer may fire at any time after it is set),
except the deadlines of `CatalogCalls` and the ttl of `AuthChain`, which are on a
clock; logging. The early return of `performGracefulShutdown` without a server
object cannot be reached from `stop()`, which requires a running server.
Sockets, brokers, cockatiel, token cryptography and the client libraries are
external and appear as nondeterministic answers.

- Events: custom middleware and the double-call guard of `composeMiddleware`;
  `createBroadcastSubscribers`, which builds several buses and keeps no state;
  `MemoryAdapter`, a test double. An adapter may deliver any event to the bus,
  also one its patterns do not cover.
- AMQP: subscribe() during a recovery is taken to fail, as amqplib's wrapper has
  no open connection then.
- Consumers: a callback that settles after it has ended; `maxLen` of Redis
  streams; deliver policies of NATS other than "new"; more than one Kafka
  partition, and `fromBeginning: true`. An event that cannot be
  decoded counts as given up. Redis reclaims from the first pending entry and
  stops at the first handler error, so an entry that always fails keeps the ones
  behind it waiting (`RedisAdapter.ts:361`); the model has it, no property says
  more.
- Calls: handlers of protocols make none. More than one inbound request.
- Authentication: the client interceptors and the format of headers and claims, and
  the expiry of a signed token, which is among the reasons its verification may fail.
  The synchronous part of the chain is one step; verification is two, the
  store's read and its answer. A session is stale when it is served more than a
  ttl after the store last confirmed it.
- Interceptors: validation and serialisation are part of the handler.
  `skipStreaming: false`: streams always pass the resilience interceptors. No
  liveness is checked under symmetry.
- Health: a package-less service whose name the application registered first
  stays the application's, as in the code.
- OpenTelemetry, reflection, logger and serializer interceptors, configuration,
  command line, code generation and test support hold no state that the
  program's behaviour depends on.
