---------------------------- MODULE CatalogCalls ----------------------------
(***************************************************************************)
(* Service-to-service calls (packages/core/src): how a server materialises *)
(* its routes and validates them, where a call of ctx.call, ctx.stream,    *)
(* server.client() or a standalone catalog client goes, and what it takes  *)
(* over from the request that makes it.  The input queue of one client- or *)
(* bidi-streaming call is that of StreamBridge.                            *)
(*                                                                         *)
(* A call is a number in order of creation.  An inbound request is a call  *)
(* without a parent; while it, or a call dispatched in process, is active, *)
(* its handler runs on this server and may make calls of its own.  Handlers*)
(* of protocols get no such context; calls to them are left out.           *)
(***************************************************************************)
EXTENDS StreamBridge, Integers, FiniteSets

CONSTANTS
  Service,          \* typeNames, of user services and of protocols
  Protocol,         \* those that protocols register (gRPC reflection)
  FileOf,           \* the proto file each is defined in
  MethodKinds,      \* the kinds of methods each has
  Remote,           \* the transports a resolver may return
  Options,          \* the server options considered
  MaxCalls,         \* bound: number of calls
  MaxTime,          \* bound: on the clock
  MaxTimeout,       \* bound: on timeouts
  MaxInterceptors,  \* bound: interceptors added after construction
  Undefined         \* JavaScript's undefined

ASSUME ConfigAssumption ==
  /\ Protocol \subseteq Service
  /\ IsFiniteSet(Value) /\ Value = 1 .. Cardinality(Value)
  /\ {MaxCalls, MaxTime, MaxTimeout, MaxInterceptors} \subseteq Nat

\* undefined is no number, string or object, and a transport none of the strings
\* that stand for the absence of one.
ASSUME UndefinedAssumption ==
  /\ Undefined \notin Int
  /\ Undefined \notin {"local", "inbound", "null", "throws", ""}
  /\ \A registered \in SUBSET Service, n \in 0 .. MaxInterceptors :
       /\ \A files \in SUBSET {FileOf[s] : s \in Service} :
            [registered |-> registered, userRegistry |-> files, interceptors |-> n] # Undefined
       /\ [registered |-> registered, interceptors |-> n] # Undefined
  /\ Remote \cap {"local", "inbound", "null", "throws", Undefined} = {}

VARIABLES
  options,       \* of createServer(), or of createCatalogClient()
  phase,         \* "created", "running" or "stopped": what start() came to
  services,      \* _routes
  protocols,     \* _protocols, by the services they register
  interceptors,  \* how many _interceptors there are
  built,         \* _builtRoutes
  transports,    \* the memoised in-process transports
  cache,         \* _remoteTransports, or a catalog client's transportCache
  call,          \* the calls so far
  aborted,       \* calls whose own abort signal has fired
  streamer,      \* the call that owns the input queue, or 0
  now,           \* the clock
  routes         \* history: which transport each route was given

server == <<options, phase, services, protocols, interceptors, built, transports>>
vars == <<server, cache, call, aborted, streamer, now, routes, qvars>>

Kind == {"unary", "server_streaming", "client_streaming", "bidi_streaming"}

\* Endpoint hints of CallOptions; "" is one that differs from none only to the resolver.
Endpoint == {Undefined, ""}

\* The cache key: `${typeName} ${endpoint ?? ""}`.
Key(s, e) == <<s, IF e = Undefined THEN "" ELSE e>>

\* parent: the call whose handler makes it, or 0; own: was it given a signal?
\* service, endpoint, timeout: kept until it is handed over; to: the transport;
\* deadline, signal: of its frame; untimed: history, nothing was left to hand over
\* as a timeout.
NoCall == [stage |-> "none", parent |-> 0, own |-> FALSE, service |-> Undefined,
           endpoint |-> Undefined, timeout |-> Undefined, to |-> Undefined,
           deadline |-> Undefined, signal |-> 0, untimed |-> FALSE, outcome |-> Undefined]

\* The options of a server that concern its services and calls.
CreateServerOptions ==
  [host : {"server"},
   services : SUBSET (Service \ Protocol),
   protocols : SUBSET Protocol,
   catalog : (SUBSET (Service \ Protocol)) \cup {Undefined},
   enabledServices : (SUBSET Service) \cup {Undefined},
   remoteResolver : BOOLEAN,
   tls : BOOLEAN,
   allowHTTP1 : BOOLEAN \cup {Undefined},
   transportValidation : {"error", "warn", "off"}]

\* A standalone catalog client: a catalog, a resolver, and no server.
CreateCatalogClientOptions ==
  [host : {"client"}, services : {{}}, protocols : {{}}, catalog : SUBSET (Service \ Protocol),
   remoteResolver : {TRUE}]

ASSUME OptionsAssumption == Options \subseteq CreateServerOptions \cup CreateCatalogClientOptions

Init ==
  /\ options \in Options
  /\ phase = "created"
  /\ services = options.services /\ protocols = options.protocols /\ interceptors = 0
  /\ built = Undefined
  /\ transports = [t \in {"local", "catalog"} |-> Undefined]
  /\ cache = [k \in Service \X {""} |-> Undefined]
  /\ call = [c \in 1 .. MaxCalls |-> NoCall]
  /\ aborted = {} /\ streamer = 0 /\ now = 0 /\ routes = {}
  /\ QueueInit

-----------------------------------------------------------------------------
(* Routes.                                                                 *)

IsServer == options.host = "server"

\* The user services that are mounted locally.
Mounted == IF options.enabledServices = Undefined THEN services
           ELSE services \cap options.enabledServices

\* buildRoutes(): what is registered, by whom, and the interceptors in front of it.
BuildRoutes ==
  [registered |-> Mounted \cup protocols,
   userRegistry |-> {FileOf[s] : s \in Mounted},
   interceptors |-> interceptors]

\* _ensureRoutesBuilt(): memoised.
RoutesBuilt == IF built = Undefined THEN BuildRoutes ELSE built

EnsureRoutesBuilt == built' = RoutesBuilt

\* createLocalTransport() runs the route callback again, over the current lists.
CreateLocalTransport ==
  [registered |-> Mounted \cup protocols, interceptors |-> interceptors]

\* localClient() and _getCatalogLocalTransport(): each memoises one transport.
LocalTransport(t) ==
  /\ EnsureRoutesBuilt
  /\ transports' = [transports EXCEPT ![t] = IF @ = Undefined THEN CreateLocalTransport ELSE @]

LocalClient ==
  /\ IsServer /\ transports.local = Undefined
  /\ LocalTransport("local")
  /\ UNCHANGED <<options, phase, services, protocols, interceptors, cache, call,
                 aborted, streamer, now, routes, qvars>>

\* Variation: only the state of the server is looked at.
ExtensibleUntilStart == IsServer /\ phase = "created"

\* addService(), addInterceptor() and addProtocol() are refused once the server
\* is started or its routes are materialised.
Extensible == IsServer /\ phase = "created" /\ built = Undefined

AddService(s) ==
  /\ Extensible /\ s \notin services
  /\ services' = services \cup {s}
  /\ UNCHANGED <<options, phase, protocols, interceptors, built, transports, cache, call,
                 aborted, streamer, now, routes, qvars>>

AddProtocol(s) ==
  /\ Extensible /\ s \notin protocols
  /\ protocols' = protocols \cup {s}
  /\ UNCHANGED <<options, phase, services, interceptors, built, transports, cache, call,
                 aborted, streamer, now, routes, qvars>>

AddInterceptor ==
  /\ Extensible /\ interceptors < MaxInterceptors
  /\ interceptors' = interceptors + 1
  /\ UNCHANGED <<options, phase, services, protocols, built, transports, cache, call,
                 aborted, streamer, now, routes, qvars>>

-----------------------------------------------------------------------------
(* start(), as far as routes are concerned.                                *)

\* _validateCatalogConfig(): enabledServices is a subset of the catalog.
ValidateCatalogConfig ==
  Undefined \notin {options.catalog, options.enabledServices} =>
    options.enabledServices \subseteq options.catalog

\* Variation: HTTP/2 is taken for the default.
ResolveHttp2ByDefault ==
  LET http1 == options.allowHTTP1 = TRUE
  IN  CASE options.tls /\ http1 -> "tls-h1-negotiable"
        [] options.tls /\ ~ http1 -> "tls-h2-only"
        [] ~ options.tls /\ http1 -> "plaintext-h1"
        [] OTHER -> "h2c"

\* resolveEffectiveTransport(): allowHTTP1 is true by default.
ResolveEffectiveTransport ==
  LET http1 == options.allowHTTP1 # FALSE
  IN  CASE options.tls /\ http1 -> "tls-h1-negotiable"
        [] options.tls /\ ~ http1 -> "tls-h2-only"
        [] ~ options.tls /\ http1 -> "plaintext-h1"
        [] OTHER -> "h2c"

\* collectStreamingMethods(): every service of a registered file counts.
CollectStreamingMethods(registry) ==
  {s \in Service : FileOf[s] \in registry /\ "bidi_streaming" \in MethodKinds[s]}

\* validateTransport(): an error only on plaintext HTTP/1.1.
ValidateTransport ==
  \/ options.transportValidation # "error"
  \/ ResolveEffectiveTransport # "plaintext-h1"
  \/ CollectStreamingMethods(RoutesBuilt.userRegistry) = {}

Start ==
  /\ IsServer /\ phase = "created"
  /\ \/ ~ ValidateCatalogConfig /\ phase' = "stopped" /\ UNCHANGED built
     \/ /\ ValidateCatalogConfig
        /\ EnsureRoutesBuilt
        /\ phase' = IF ValidateTransport THEN "running" ELSE "stopped"
  /\ UNCHANGED <<options, services, protocols, interceptors, transports, cache, call,
                 aborted, streamer, now, routes, qvars>>

-----------------------------------------------------------------------------
(* Where a call goes.                                                      *)

\* A resolver (one transport for all, a map, DNS names, environment variables)
\* returns a transport or null, or throws.
ResolverAnswers == Remote \cup {"null", "throws"}

\* What resolving (s, e) may come to.
Targets(s, e) ==
  IF IsServer /\ s \in RoutesBuilt.registered THEN {"local"}
  ELSE IF cache[Key(s, e)] # Undefined THEN {cache[Key(s, e)]}
  ELSE IF options.remoteResolver THEN ResolverAnswers
  ELSE {"null"}

Transport == Remote \cup {"local"}

\* Variation: the transport is not remembered.
NotCached(s, e, t) == UNCHANGED cache

\* Only a transport the resolver returned is remembered.
Remember(s, e, t) ==
  cache' = IF t \in Remote THEN [cache EXCEPT ![Key(s, e)] = t] ELSE cache

\* History: route (s, e) was served by t.
Routed(s, e, t) ==
  routes' = IF t \in Transport THEN routes \cup {<<Key(s, e), t>>} ELSE routes

\* server.client(): local, or resolved at once; without a resolver it throws.
Client(s, e) ==
  /\ IsServer
  /\ \E t \in Targets(s, e) :
       /\ IF t = "local" THEN LocalTransport("local")
                         ELSE EnsureRoutesBuilt /\ UNCHANGED transports
       /\ Remember(s, e, t)
       /\ Routed(s, e, t)
  /\ UNCHANGED <<options, phase, services, protocols, interceptors, call,
                 aborted, streamer, now, qvars>>

-----------------------------------------------------------------------------
(* What a call takes over from the request that makes it.                  *)

\* Variation: an explicit timeout is used as it is.
CallerTimeout(caller, remaining) == IF caller = Undefined THEN remaining ELSE caller

\* clampTimeout(): a caller may shorten the deadline, never extend it.
ClampTimeout(caller, remaining) ==
  CASE caller = Undefined -> remaining
    [] caller # Undefined /\ remaining = Undefined -> caller
    [] OTHER -> IF caller < remaining THEN caller ELSE remaining

\* HandlerContext.timeoutMs(): what is left of the deadline now.
Remaining(p) ==
  IF p = 0 \/ call[p].deadline = Undefined THEN Undefined ELSE call[p].deadline - now

\* Variation: a call that is given no signal has none.
SignalNotInherited(c, p, own) == IF own THEN c ELSE 0

\* The call whose abort reaches a call: its own signal, or that of its parent's frame.
SignalOf(c, p, own) == IF own THEN c ELSE IF p = 0 THEN 0 ELSE call[p].signal

\* A transport takes a timeout of zero or less for none.
TransportDeadline(timeout) == IF timeout = Undefined \/ timeout <= 0 THEN Undefined ELSE now + timeout

\* _buildFrame(): composed when the transport is resolved.  A catalog client has
\* no request to take anything over from and uses the caller's options as they are.
BuildFrame(c, r) ==
  [deadline |-> TransportDeadline(ClampTimeout(r.timeout, Remaining(r.parent))),
   signal |-> SignalOf(c, r.parent, r.own)]

\* The caller has asked for timeout 0, or the deadline of its request has passed.
Untimed(r) == r.timeout = 0 \/ (Remaining(r.parent) # Undefined /\ Remaining(r.parent) <= 0)

\* lookupCatalogMethod() and the check of the kind: the error, or "none".  A
\* method that is unknown, or not of the kind k that call() or stream() was used
\* for, is no method of kind k.
Lookup(s, k) ==
  CASE options.catalog = Undefined -> "FailedPrecondition"
    [] options.catalog # Undefined /\ (s \notin options.catalog \/ k \notin MethodKinds[s]) -> "Unimplemented"
    [] OTHER -> "none"

\* The call is over without a handler of this server.
Over(code) == [NoCall EXCEPT !.stage = "done", !.outcome = code]

\* Resolve the target and hand the request over: transport.unary or transport.stream.
Dispatch(c, r) ==
  \E t \in Targets(r.service, r.endpoint) :
    /\ Remember(r.service, r.endpoint, t)
    /\ Routed(r.service, r.endpoint, t)
    /\ IF t = "local" THEN LocalTransport("catalog") ELSE UNCHANGED <<built, transports>>
    /\ call' = [call EXCEPT ![c] =
         CASE t = "throws" -> Over("Internal")
           [] t = "null" -> Over("Unavailable")
           [] OTHER -> [NoCall EXCEPT !.stage = "active", !.parent = r.parent, !.own = r.own, !.to = t,
                          !.deadline = BuildFrame(c, r).deadline,
                          !.signal = BuildFrame(c, r).signal, !.untimed = Untimed(r)]]

-----------------------------------------------------------------------------
(* The life of a call.                                                     *)

Used == {c \in 1 .. MaxCalls : call[c].stage # "none"}
NextCall == Cardinality(Used) + 1

\* A handler of this server runs for call p.
Handler(p) == call[p].stage = "active" /\ call[p].to \in {"inbound", "local"}

Timeouts == {Undefined} \cup 0 .. MaxTimeout

\* A request arrives over HTTP, or in process through localClient(), with a timeout
\* if its client has set one.  Bound: only one, all other calls are made for it.
Inbound(s, timeout) ==
  /\ NextCall = 1 /\ timeout # 0
  /\ built # Undefined /\ s \in Mounted
  /\ phase = "running" \/ transports.local # Undefined
  /\ call' = [call EXCEPT ![NextCall] =
       [NoCall EXCEPT !.stage = "active", !.to = "inbound", !.own = TRUE,
          !.signal = NextCall, !.deadline = IF timeout = Undefined THEN Undefined ELSE now + timeout]]
  /\ UNCHANGED <<server, cache, aborted, streamer, now, routes, qvars>>

\* call(), or stream() and the factory it returns.  Unary and client-streaming
\* calls are handed over at once, the others when they are first iterated.
Invoke(p, s, k, e, timeout, own) ==
  LET c == NextCall
      r == [NoCall EXCEPT !.stage = "open", !.parent = p, !.own = own, !.service = s,
              !.endpoint = e, !.timeout = timeout]
      error == Lookup(s, k)
      queued == error = "none" /\ k \in {"client_streaming", "bidi_streaming"}
  IN  /\ c <= MaxCalls
      /\ queued => streamer = 0
      /\ streamer' = IF queued THEN c ELSE streamer
      /\ IF error = "none" /\ k \in {"unary", "client_streaming"}
           THEN Dispatch(c, r)
           ELSE /\ call' = [call EXCEPT ![c] = IF error = "none" THEN r ELSE Over(error)]
                /\ UNCHANGED <<built, transports, cache, routes>>
      /\ UNCHANGED <<options, phase, services, protocols, interceptors, aborted, now, qvars>>

\* ctx.call() and ctx.stream() of a handler.
CtxInvokes(p, s, k, e, timeout, own) ==
  Handler(p) /\ Invoke(p, s, k, e, timeout, own)

\* call() and stream() of a standalone catalog client.
ClientInvokes(s, k, e, timeout, own) == ~ IsServer /\ Invoke(0, s, k, e, timeout, own)

\* The responses of a server- or bidi-streaming call are iterated for the first time.
FirstIteration(c) ==
  /\ call[c].stage = "open"
  /\ Dispatch(c, call[c])
  /\ UNCHANGED <<options, phase, services, protocols, interceptors, aborted, streamer, now, qvars>>

\* A handler's context stays usable after the handler has returned.
Finish(c) ==
  /\ call[c].stage = "active"
  /\ call' = [call EXCEPT ![c] = IF Handler(c) THEN [@ EXCEPT !.stage = "done"] ELSE Over("remote")]
  /\ UNCHANGED <<server, cache, aborted, streamer, now, routes, qvars>>

\* The response, or an error of the other side.
CallEnds(c) == Finish(c)

\* The transport gives up at the deadline, and when the signal it was given fires.
DeadlineExceeded(c) ==
  call[c].deadline # Undefined /\ now >= call[c].deadline /\ Finish(c)

TransportAborts(c) == call[c].signal \in aborted /\ Finish(c)

\* A client cancels its request, the deadline of the request aborts its signal, or
\* somebody aborts a signal passed in CallOptions.
Abort(c) ==
  /\ call[c].stage = "active" /\ call[c].own /\ c \notin aborted
  /\ aborted' = aborted \cup {c}
  /\ UNCHANGED <<server, cache, call, streamer, now, routes, qvars>>

Tick ==
  /\ Used # {} /\ now < MaxTime /\ now' = now + 1
  /\ UNCHANGED <<server, cache, call, aborted, streamer, routes, qvars>>

\* send() and close() of the handle; the transport pulls while the call is active.
Send ==
  /\ streamer # 0 /\ Len(pushed) < Cardinality(Value) /\ Push(Len(pushed) + 1)
  /\ UNCHANGED <<server, cache, call, aborted, streamer, now, routes>>

CloseHandle ==
  /\ streamer # 0 /\ ~ closed /\ Close
  /\ UNCHANGED <<server, cache, call, aborted, streamer, now, routes>>

TransportPulls ==
  /\ streamer # 0 /\ call[streamer].stage = "active" /\ Pull
  /\ UNCHANGED <<server, cache, call, aborted, streamer, now, routes>>

Next ==
  \/ LocalClient \/ AddInterceptor \/ Start \/ Tick \/ Send \/ CloseHandle \/ TransportPulls
  \/ \E s \in Protocol : AddProtocol(s)
  \/ \E s \in Service \ Protocol :
       \/ AddService(s)
       \/ \E e \in Endpoint : Client(s, e)
       \/ \E timeout \in Timeouts : Inbound(s, timeout)
       \/ \E k \in Kind, e \in Endpoint, timeout \in Timeouts, own \in BOOLEAN :
            \/ \E p \in 1 .. MaxCalls : CtxInvokes(p, s, k, e, timeout, own)
            \/ ClientInvokes(s, k, e, timeout, own)
  \/ \E c \in 1 .. MaxCalls :
       FirstIteration(c) \/ CallEnds(c) \/ DeadlineExceeded(c) \/ TransportAborts(c) \/ Abort(c)

Spec == Init /\ [][Next]_vars

-----------------------------------------------------------------------------
(***************************************************************************)
(* A call made while a request is handled is bound by the request's        *)
(* deadline: not with a longer timeout of its own, not when the stream is  *)
(* opened early and iterated late, not through several calls in process    *)
(* does it get a later one.  A call that is handed over when nothing of    *)
(* the deadline is left, or with timeout 0, gets none at all: it still     *)
(* ends with the request's signal, which the deadline aborts, unless it    *)
(* was given a signal of its own.                                          *)
(***************************************************************************)
DeadlineInherited ==
  \A c \in Used : LET p == call[c].parent IN
    p # 0 /\ call[c].to # Undefined /\ call[p].deadline # Undefined =>
      IF call[c].untimed THEN call[c].own \/ call[c].signal = call[p].signal
      ELSE call[c].deadline # Undefined /\ call[c].deadline <= call[p].deadline

(***************************************************************************)
(* In-process calls meet the services and interceptors that HTTP requests  *)
(* meet, whenever the routes, the two in-process transports and start()    *)
(* came about and whatever was added in between.                           *)
(***************************************************************************)
TransportParity ==
  built # Undefined =>
    /\ built.registered = Mounted \cup protocols /\ built.interceptors = interceptors
    /\ \A t \in DOMAIN transports : transports[t] # Undefined =>
         /\ transports[t].registered = built.registered
         /\ transports[t].interceptors = built.interceptors

\* A server that runs on plaintext HTTP/1.1 with validation on mounts no user
\* service with a bidi-streaming method, which would hang.
BidiIsServable ==
  phase = "running" /\ options.transportValidation = "error" /\ ~ options.tls /\ options.allowHTTP1 # FALSE =>
    \A s \in Mounted : "bidi_streaming" \notin MethodKinds[s]

\* All calls and clients of one route get the same transport, although the
\* resolver may answer differently every time it is asked.
RouteStable == \A q, r \in routes : q[1] = r[1] => q = r

\* The call whose signal governs c: the nearest one up the chain with its own.
Governor[c \in 0 .. MaxCalls] ==
  IF c = 0 \/ call[c].own \/ call[c].parent = 0 THEN c ELSE Governor[call[c].parent]

\* Cancelling a request reaches every call made for it, at any depth, except
\* those that were given a signal of their own: the transport sees the abort.
CancelReaches ==
  \A c \in 1 .. MaxCalls :
    call[c].stage = "active" /\ Governor[c] \in aborted => call[c].signal \in aborted
=============================================================================
