------------------------- MODULE CatalogCallsProofs -------------------------
(* Proofs about CatalogCalls and its input queue, for any sets of services,  *)
(* options, transports and values and any number of calls.                   *)
EXTENDS CatalogCalls, FiniteSetTheorems, SequenceTheorems, TLAPS

-----------------------------------------------------------------------------
(* The input queue *)

\* What is pushed is what was yielded and what is buffered, and a resolve function
\* is registered exactly while the generator is parked.
QueueMeaning ==
  /\ QueueTypeOK
  /\ InputDelivered
  /\ notify <=> reader = "parked"

LEMMA QueueMeaningInit == QueueInit => QueueMeaning
<1> SUFFICES ASSUME QueueInit PROVE QueueMeaning
  OBVIOUS
<1>1. QueueTypeOK
  BY Zenon, EmptySeq DEF QueueInit, QueueTypeOK
<1>2. <<>> \in Seq(Value) /\ <<>> \o <<>> = <<>>
  OBVIOUS
<1> QED BY <1>1, <1>2 DEF QueueInit, InputDelivered, QueueMeaning

LEMMA QueueMeaningStep == QueueMeaning /\ [QueueNext]_qvars => QueueMeaning'
<1> SUFFICES ASSUME QueueMeaning, [QueueNext]_qvars PROVE QueueMeaning'
  OBVIOUS
<1>0. QueueTypeOK /\ InputDelivered /\ (notify <=> reader = "parked")
  BY DEF QueueMeaning
<1>1. ASSUME NEW v \in Value, Push(v) PROVE QueueMeaning'
  <2>1. /\ ~ closed /\ ~ failure /\ Wake
        /\ buffer' = Append(buffer, v) /\ pushed' = Append(pushed, v)
        /\ UNCHANGED <<closed, failure, pulled>>
    BY <1>1 DEF Push
  <2>2. buffer' \in Seq(Value) /\ pushed' \in Seq(Value) /\ pulled' \in Seq(Value)
    BY <1>0, <2>1 DEF QueueTypeOK
  <2>3. notify' = FALSE /\ reader' = IF notify THEN "resumed" ELSE reader
    BY <2>1 DEF Wake
  <2>4. reader' \in {"idle", "resumed"}
    BY <1>0, <2>1, <2>3 DEF QueueTypeOK, InputDelivered
  <2>5. QueueTypeOK'
    BY <1>0, <2>1, <2>2, <2>3, <2>4 DEF QueueTypeOK
  <2>6. Append(pulled \o buffer, v) = pulled \o Append(buffer, v)
    <3>1. pulled \in Seq(Value) /\ buffer \in Seq(Value) /\ <<v>> \in Seq(Value)
      BY <1>0 DEF QueueTypeOK
    <3>2. (pulled \o buffer) \o <<v>> = pulled \o (buffer \o <<v>>) /\ pulled \o buffer \in Seq(Value)
      BY <3>1, ConcatAssociative, ConcatProperties
    <3> QED BY <3>1, <3>2, AppendIsConcat
  <2>7. pushed' = pulled' \o buffer'
    BY <1>0, <2>1, <2>6 DEF InputDelivered
  <2> QED BY <2>3, <2>4, <2>5, <2>7 DEF QueueMeaning, InputDelivered
<1>2. CASE Close \/ Fail
  <2>1. closed' = TRUE /\ failure' \in BOOLEAN /\ Wake /\ UNCHANGED <<buffer, pushed, pulled>>
    BY <1>0, <1>2, Zenon DEF Close, Fail, QueueTypeOK
  <2>2. notify' = FALSE /\ reader' = IF notify THEN "resumed" ELSE reader
    BY <2>1 DEF Wake
  <2>3. reader' \in {"idle", "resumed", "ended", "threw"} /\ (reader' # reader => reader' = "resumed")
    BY <1>0, <2>2 DEF QueueTypeOK
  <2>4. QueueTypeOK'
    BY <1>0, <2>1, <2>2, <2>3 DEF QueueTypeOK
  <2> QED BY <1>0, <2>1, <2>2, <2>3, <2>4 DEF QueueMeaning, InputDelivered
<1>3. CASE Pull
  <2>1. UNCHANGED <<closed, failure, pushed>> /\ reader \in {"idle", "resumed"} /\ notify = FALSE
    BY <1>0, <1>3 DEF Pull, QueueTypeOK
  <2>2. CASE /\ buffer # <<>> /\ buffer' = Tail(buffer) /\ pulled' = Append(pulled, Head(buffer))
             /\ reader' = "idle" /\ UNCHANGED notify
    <3>1. buffer \in Seq(Value) /\ pulled \in Seq(Value)
      BY <1>0 DEF QueueTypeOK
    <3>2. /\ buffer' \in Seq(Value) /\ pulled' \in Seq(Value)
          /\ Append(pulled, Head(buffer)) \o Tail(buffer) = pulled \o buffer
      BY <2>2, <3>1
    <3>3. QueueTypeOK'
      BY <1>0, <2>1, <2>2, <3>2 DEF QueueTypeOK
    <3> QED BY <1>0, <2>1, <2>2, <3>2, <3>3 DEF QueueMeaning, InputDelivered
  <2>3. CASE /\ buffer = <<>> /\ closed /\ reader' = (IF failure THEN "threw" ELSE "ended")
             /\ UNCHANGED <<buffer, pulled, notify>>
    <3>1. reader' \in {"ended", "threw"}
      BY <2>3
    <3>2. QueueTypeOK'
      BY <1>0, <2>1, <2>3, <3>1 DEF QueueTypeOK
    <3> QED BY <1>0, <2>1, <2>3, <3>1, <3>2 DEF QueueMeaning, InputDelivered
  <2>4. CASE /\ buffer = <<>> /\ ~ closed /\ reader' = "parked" /\ notify' = TRUE
             /\ UNCHANGED <<buffer, pulled>>
    <3>1. QueueTypeOK'
      BY <1>0, <2>1, <2>4 DEF QueueTypeOK
    <3> QED BY <1>0, <2>1, <2>4, <3>1 DEF QueueMeaning, InputDelivered
  <2> QED BY <1>3, <2>2, <2>3, <2>4 DEF Pull
<1>4. CASE UNCHANGED qvars
  BY <1>0, <1>4 DEF qvars, QueueMeaning, QueueTypeOK, InputDelivered
<1> QED BY <1>1, <1>2, <1>3, <1>4 DEF QueueNext

\* The queue by itself, whoever pushes, closes, fails and pulls: nothing is lost
\* or reordered and no wake-up is missed.
THEOREM QueueDelivers == QueueSpec => []InputDelivered
<1>1. QueueMeaning => InputDelivered
  BY DEF QueueMeaning
<1> QED BY <1>1, QueueMeaningInit, QueueMeaningStep, PTL DEF QueueSpec

LEMMA QueueStep == QueueMeaning /\ [Next]_vars => [QueueNext]_qvars
<1> SUFFICES ASSUME QueueMeaning, [Next]_vars PROVE [QueueNext]_qvars
  OBVIOUS
<1>1. CASE UNCHANGED vars
  BY <1>1 DEF vars
<1>2. CASE Send
  <2>1. Push(Len(pushed) + 1) /\ Len(pushed) < Cardinality(Value)
    BY <1>2 DEF Send
  <2>2. Len(pushed) \in Nat
    BY DEF QueueMeaning, QueueTypeOK
  <2>3. Len(pushed) + 1 \in Value
    BY <2>1, <2>2, ConfigAssumption, FS_CardinalityType
  <2> QED BY <2>1, <2>3 DEF QueueNext
<1>3. CASE CloseHandle \/ TransportPulls
  BY <1>3 DEF CloseHandle, TransportPulls, QueueNext
<1>4. CASE LocalClient \/ AddInterceptor \/ Start \/ Tick
  BY <1>4 DEF LocalClient, AddInterceptor, Start, Tick
<1>5. ASSUME NEW s \in Service, NEW e \in Endpoint, AddProtocol(s) \/ AddService(s) \/ Client(s, e)
      PROVE  UNCHANGED qvars
  BY <1>5 DEF AddProtocol, AddService, Client
<1>6. ASSUME NEW s, NEW timeout, Inbound(s, timeout) PROVE UNCHANGED qvars
  BY <1>6 DEF Inbound
<1>7. ASSUME NEW p, NEW s, NEW k, NEW e, NEW timeout, NEW own,
             CtxInvokes(p, s, k, e, timeout, own) \/ ClientInvokes(s, k, e, timeout, own)
      PROVE  UNCHANGED qvars
  BY <1>7 DEF CtxInvokes, ClientInvokes, Invoke
<1>8. ASSUME NEW c, FirstIteration(c) \/ CallEnds(c) \/ DeadlineExceeded(c) \/ TransportAborts(c) \/ Abort(c)
      PROVE  UNCHANGED qvars
  BY <1>8 DEF FirstIteration, CallEnds, DeadlineExceeded, TransportAborts, Abort, Finish
<1> QED BY <1>1, <1>2, <1>3, <1>4, <1>5, <1>6, <1>7, <1>8, ConfigAssumption DEF Next, Endpoint

-----------------------------------------------------------------------------
(* The routes of a server *)

\* What is configured; a catalog client has nothing to add to and no routes.
ServerTyped ==
  /\ options \in Options
  /\ services \subseteq Service \ Protocol /\ protocols \subseteq Protocol
  /\ interceptors \in 0 .. MaxInterceptors
  /\ phase \in {"created", "running", "stopped"}
  /\ cache \in [Service \X {""} -> Remote \cup {Undefined}]
  /\ ~ IsServer => built = Undefined /\ phase = "created"

\* The routes and the in-process transports are those of the current lists, a
\* transport exists only with routes, and a running server was validated.
BuiltMeaning ==
  /\ built = Undefined \/ built = BuildRoutes
  /\ DOMAIN transports = {"local", "catalog"}
  /\ \A t \in {"local", "catalog"} :
       transports[t] = Undefined \/ (built # Undefined /\ transports[t] = CreateLocalTransport)
  /\ phase = "running" => built # Undefined /\ ValidateTransport

RoutesMeaning == ServerTyped /\ BuiltMeaning

LEMMA RoutesMeaningInit == Init => RoutesMeaning
<1> SUFFICES ASSUME Init PROVE RoutesMeaning
  OBVIOUS
<1>1. options \in CreateServerOptions \cup CreateCatalogClientOptions
  BY OptionsAssumption DEF Init
<1>2. services \subseteq Service \ Protocol /\ protocols \subseteq Protocol
  BY <1>1 DEF Init, CreateServerOptions, CreateCatalogClientOptions
<1>3. interceptors \in 0 .. MaxInterceptors
  <2>1. MaxInterceptors \in Nat
    BY ConfigAssumption
  <2>2. interceptors = 0
    BY DEF Init
  <2> QED BY <2>1, <2>2
<1>4. ServerTyped
  BY <1>2, <1>3 DEF Init, ServerTyped
<1>5. BuiltMeaning
  BY DEF Init, BuiltMeaning
<1> QED BY <1>4, <1>5 DEF RoutesMeaning

\* The routes and transports that are made are objects.
LEMMA MadeIsDefined ==
  ASSUME ServerTyped
  PROVE  BuildRoutes # Undefined /\ CreateLocalTransport # Undefined
<1> DEFINE registered == Mounted \cup protocols
           files == {FileOf[s] : s \in Mounted}
<1>1. Mounted \subseteq Service
  BY DEF ServerTyped, Mounted
<1>2. registered \in SUBSET Service /\ interceptors \in 0 .. MaxInterceptors
  BY <1>1, ConfigAssumption DEF ServerTyped
<1>3. files \in SUBSET {FileOf[s] : s \in Service}
  BY <1>1
<1>4. BuildRoutes = [registered |-> registered, userRegistry |-> files, interceptors |-> interceptors]
  BY DEF BuildRoutes
<1>5. CreateLocalTransport = [registered |-> registered, interceptors |-> interceptors]
  BY DEF CreateLocalTransport
<1> HIDE DEF registered, files
<1> QED BY <1>2, <1>3, <1>4, <1>5, UndefinedAssumption

\* Materialising the routes, with or without an in-process transport.
LEMMA MaterialiseStep ==
  ASSUME RoutesMeaning, EnsureRoutesBuilt,
         UNCHANGED transports \/ \E t \in {"local", "catalog"} : LocalTransport(t),
         UNCHANGED <<options, phase, services, protocols, interceptors>>
  PROVE  BuiltMeaning' /\ built' = BuildRoutes /\ built' # Undefined
<1>1. built' = BuildRoutes
  BY DEF RoutesMeaning, BuiltMeaning, EnsureRoutesBuilt, RoutesBuilt
<1>2. built' # Undefined /\ CreateLocalTransport # Undefined
  BY <1>1, MadeIsDefined DEF RoutesMeaning
<1>3. /\ BuildRoutes' = BuildRoutes /\ CreateLocalTransport' = CreateLocalTransport
  BY DEF BuildRoutes, CreateLocalTransport, Mounted
<1>4. /\ DOMAIN transports' = {"local", "catalog"}
      /\ \A t \in {"local", "catalog"} : transports'[t] = Undefined \/ transports'[t] = CreateLocalTransport
  BY DEF RoutesMeaning, BuiltMeaning, LocalTransport
<1>5. phase' = "running" => ValidateTransport'
  <2>1. ASSUME phase = "running" PROVE ValidateTransport'
    <3>1. built' = built /\ ValidateTransport
      BY <1>1, <2>1 DEF RoutesMeaning, BuiltMeaning
    <3> QED BY <3>1 DEF ValidateTransport, ResolveEffectiveTransport, RoutesBuilt, BuildRoutes, Mounted
  <2> QED BY <2>1
<1> QED BY <1>1, <1>2, <1>3, <1>4, <1>5 DEF BuiltMeaning

\* What a step may do to the routes.
Materialises ==
  /\ IsServer
  /\ EnsureRoutesBuilt
  /\ UNCHANGED transports \/ \E t \in {"local", "catalog"} : LocalTransport(t)
  /\ UNCHANGED <<options, phase, services, protocols, interceptors>>

Extends ==
  /\ Extensible
  /\ \/ \E s \in Service \ Protocol : services' = services \cup {s} /\ UNCHANGED <<protocols, interceptors>>
     \/ \E s \in Protocol : protocols' = protocols \cup {s} /\ UNCHANGED <<services, interceptors>>
     \/ interceptors < MaxInterceptors /\ interceptors' = interceptors + 1 /\ UNCHANGED <<services, protocols>>
  /\ UNCHANGED <<options, phase, built, transports>>

\* A call goes to a handler of this process only on a server.
LEMMA LocalIsServer ==
  ASSUME ServerTyped, NEW s \in Service, NEW e \in Endpoint, "local" \in Targets(s, e)
  PROVE  IsServer /\ s \in RoutesBuilt.registered
<1>1. Key(s, e) \in Service \X {""}
  BY DEF Key, Endpoint
<1>2. cache[Key(s, e)] \in Remote \cup {Undefined}
  BY <1>1 DEF ServerTyped
<1> QED BY <1>2, UndefinedAssumption DEF Targets, ResolverAnswers

LEMMA DispatchMaterialises ==
  ASSUME ServerTyped, NEW c, NEW r, r.service \in Service, r.endpoint \in Endpoint, Dispatch(c, r),
         UNCHANGED <<options, phase, services, protocols, interceptors>>
  PROVE  UNCHANGED server \/ Materialises
<1>1. PICK t \in Targets(r.service, r.endpoint) :
        IF t = "local" THEN LocalTransport("catalog") ELSE UNCHANGED <<built, transports>>
  BY DEF Dispatch
<1>2. CASE t = "local"
  <2>1. IsServer /\ LocalTransport("catalog")
    BY <1>1, <1>2, LocalIsServer
  <2> QED BY <2>1 DEF Materialises, LocalTransport
<1>3. CASE t # "local"
  BY <1>1, <1>3 DEF server
<1> QED BY <1>2, <1>3

\* A call that is opened is one of a service of the server, with the given options.
OpenRecord(p, s, e, timeout, own) ==
  [NoCall EXCEPT !.stage = "open", !.parent = p, !.own = own, !.service = s,
     !.endpoint = e, !.timeout = timeout]

LEMMA OpenFields ==
  ASSUME NEW p, NEW s, NEW e, NEW timeout, NEW own
  PROVE  LET r == OpenRecord(p, s, e, timeout, own)
         IN /\ "stage" \in DOMAIN r /\ r.stage = "open" /\ r.parent = p /\ r.own = own /\ r.service = s
            /\ r.endpoint = e /\ r.timeout = timeout
            /\ r.to = Undefined /\ r.deadline = Undefined /\ r.signal = 0
BY DEF OpenRecord, NoCall

LEMMA ServerStep ==
  ASSUME ServerTyped, [Next]_vars,
         \A c \in 1 .. MaxCalls : call[c].stage = "open" => call[c].service \in Service /\ call[c].endpoint \in Endpoint
  PROVE  UNCHANGED server \/ Materialises \/ Extends \/ Start
<1>1. CASE UNCHANGED vars \/ Tick \/ Send \/ CloseHandle \/ TransportPulls
  BY <1>1 DEF vars, Tick, Send, CloseHandle, TransportPulls
<1>2. CASE LocalClient
  BY <1>2 DEF LocalClient, Materialises, LocalTransport
<1>3. CASE AddInterceptor \/ \E s \in Protocol : AddProtocol(s)
  BY <1>3 DEF AddInterceptor, AddProtocol, Extends
<1>4. ASSUME NEW s \in Service \ Protocol, AddService(s) PROVE Extends
  BY <1>4 DEF AddService, Extends
<1>5. ASSUME NEW s \in Service \ Protocol, NEW e \in Endpoint, Client(s, e) PROVE Materialises
  <2>1. PICK t \in Targets(s, e) : IF t = "local" THEN LocalTransport("local")
                                   ELSE EnsureRoutesBuilt /\ UNCHANGED transports
    BY <1>5 DEF Client
  <2>2. IsServer /\ UNCHANGED <<options, phase, services, protocols, interceptors>>
    BY <1>5 DEF Client
  <2> QED BY <2>1, <2>2 DEF Materialises, LocalTransport
<1>6. ASSUME NEW s, NEW timeout, Inbound(s, timeout) PROVE UNCHANGED server
  BY <1>6 DEF Inbound
<1>7. ASSUME NEW p, NEW s \in Service \ Protocol, NEW k, NEW e \in Endpoint, NEW timeout, NEW own,
             CtxInvokes(p, s, k, e, timeout, own) \/ ClientInvokes(s, k, e, timeout, own)
      PROVE  UNCHANGED server \/ Materialises
  <2>1. PICK q \in {0, p} : Invoke(q, s, k, e, timeout, own)
    BY <1>7 DEF CtxInvokes, ClientInvokes
  <2> DEFINE r == OpenRecord(q, s, e, timeout, own)
  <2>2. UNCHANGED <<options, phase, services, protocols, interceptors>>
    BY <2>1 DEF Invoke
  <2>3. Dispatch(NextCall, r) \/ UNCHANGED <<built, transports>>
    BY <2>1 DEF Invoke, OpenRecord
  <2>4. r.service = s /\ r.endpoint = e
    BY OpenFields
  <2> HIDE DEF r
  <2> QED BY <2>2, <2>3, <2>4, DispatchMaterialises DEF server
<1>8. ASSUME NEW c \in 1 .. MaxCalls, FirstIteration(c) PROVE UNCHANGED server \/ Materialises
  BY <1>8, DispatchMaterialises DEF FirstIteration
<1>9. ASSUME NEW c, CallEnds(c) \/ DeadlineExceeded(c) \/ TransportAborts(c) \/ Abort(c)
      PROVE  UNCHANGED server
  BY <1>9 DEF CallEnds, DeadlineExceeded, TransportAborts, Abort, Finish
<1> QED BY <1>1, <1>2, <1>3, <1>4, <1>5, <1>6, <1>7, <1>8, <1>9 DEF Next

LEMMA BuiltStep ==
  ASSUME RoutesMeaning, UNCHANGED server \/ Materialises \/ Extends \/ Start
  PROVE  BuiltMeaning'
<1>0. ServerTyped /\ BuiltMeaning
  BY DEF RoutesMeaning
<1>1. CASE UNCHANGED server
  <2>1. BuildRoutes' = BuildRoutes /\ CreateLocalTransport' = CreateLocalTransport
        /\ (ValidateTransport <=> ValidateTransport')
    BY <1>1 DEF server, BuildRoutes, CreateLocalTransport, Mounted, ValidateTransport,
                ResolveEffectiveTransport, RoutesBuilt
  <2> QED BY <1>0, <1>1, <2>1 DEF BuiltMeaning, server
<1>2. CASE Materialises
  BY <1>2, MaterialiseStep DEF Materialises
<1>3. CASE Extends
  BY <1>0, <1>3 DEF Extends, Extensible, BuiltMeaning
<1>4. CASE Start
  <2>1. CASE UNCHANGED built /\ phase' = "stopped"
    BY <1>0, <1>4, <2>1 DEF Start, BuiltMeaning, BuildRoutes, CreateLocalTransport, Mounted
  <2>2. CASE EnsureRoutesBuilt /\ phase' = IF ValidateTransport THEN "running" ELSE "stopped"
    <3>1. UNCHANGED <<options, services, protocols, interceptors, transports>>
      BY <1>4 DEF Start
    <3>2. built' = BuildRoutes /\ BuildRoutes # Undefined /\ RoutesBuilt = BuildRoutes
      BY <1>0, <2>2, MadeIsDefined DEF EnsureRoutesBuilt, RoutesBuilt, BuiltMeaning
    <3>3. BuildRoutes' = BuildRoutes /\ CreateLocalTransport' = CreateLocalTransport
      BY <3>1 DEF BuildRoutes, CreateLocalTransport, Mounted
    <3>4. RoutesBuilt' = RoutesBuilt
      BY <3>2 DEF RoutesBuilt
    <3>5. ValidateTransport' <=> ValidateTransport
      BY <3>1, <3>4 DEF ValidateTransport, ResolveEffectiveTransport
    <3> QED BY <1>0, <2>2, <3>1, <3>2, <3>3, <3>5 DEF BuiltMeaning
  <2> QED BY <1>4, <2>1, <2>2 DEF Start
<1> QED BY <1>1, <1>2, <1>3, <1>4

-----------------------------------------------------------------------------
(* Where a route leads *)

\* Once the routes are materialised, the transport of a service is fixed: this
\* process for what is registered, else what the cache holds.
RouteTarget(s) == IF IsServer /\ s \in built.registered THEN "local" ELSE cache[<<s, "">>]

RouteMeaning(r) == \E s \in Service : r = <<<<s, "">>, RouteTarget(s)>> /\ RouteTarget(s) # Undefined

RoutesAgree ==
  /\ IsServer /\ built = Undefined => routes = {}
  /\ \A r \in routes : RouteMeaning(r)

\* Resolving a target, remembering it, and what that says of the routes.
LEMMA ResolveStep ==
  ASSUME ServerTyped, RoutesAgree, UNCHANGED options,
         IsServer => built' = RoutesBuilt /\ built' # Undefined,
         NEW s \in Service, NEW e \in Endpoint, NEW t \in Targets(s, e), Remember(s, e, t), Routed(s, e, t)
  PROVE  cache' \in [Service \X {""} -> Remote \cup {Undefined}] /\ RoutesAgree'
<1> DEFINE k == <<s, "">>
<1>0. Key(s, e) = k /\ k \in Service \X {""} /\ cache[k] \in Remote \cup {Undefined}
  BY DEF Key, Endpoint, ServerTyped
<1>1. /\ cache' = IF t \in Remote THEN [cache EXCEPT ![k] = t] ELSE cache
      /\ routes' = IF t \in Transport THEN routes \cup {<<k, t>>} ELSE routes
  BY <1>0 DEF Remember, Routed
<1>2. cache' \in [Service \X {""} -> Remote \cup {Undefined}]
  BY <1>1 DEF ServerTyped
<1>3. IsServer' <=> IsServer
  BY DEF IsServer
<1>4. (IsServer /\ s \in RoutesBuilt.registered) => t = "local"
  BY DEF Targets
<1>5. ~ (IsServer /\ s \in RoutesBuilt.registered) =>
        \/ cache[k] # Undefined /\ t = cache[k]
        \/ cache[k] = Undefined /\ t \in Remote \cup {"null", "throws"}
  BY <1>0 DEF Targets, ResolverAnswers
<1>6. t \in Transport => RouteTarget(s)' = t /\ t # Undefined
  <2>1. CASE IsServer /\ s \in RoutesBuilt.registered
    BY <1>3, <1>4, <2>1, UndefinedAssumption DEF RouteTarget
  <2>2. CASE ~ (IsServer /\ s \in RoutesBuilt.registered)
    <3>1. ASSUME t \in Transport PROVE t \in Remote /\ t # Undefined /\ cache'[k] = t
      <4>1. t \in Remote /\ t # Undefined
        BY <1>0, <1>5, <2>2, <3>1, UndefinedAssumption DEF Transport
      <4> QED BY <1>0, <1>1, <4>1 DEF ServerTyped
    <3> QED BY <1>3, <2>2, <3>1 DEF RouteTarget
  <2> QED BY <2>1, <2>2
<1>7. ASSUME NEW r \in routes PROVE RouteMeaning(r)'
  <2>1. PICK u \in Service : r = <<<<u, "">>, RouteTarget(u)>> /\ RouteTarget(u) # Undefined
    BY <1>7 DEF RoutesAgree, RouteMeaning
  <2>2. IsServer => built' = built
    BY <1>7 DEF RoutesAgree, RoutesBuilt
  <2>3. CASE IsServer /\ u \in built.registered
    BY <1>3, <2>1, <2>2, <2>3 DEF RouteTarget, RouteMeaning
  <2>4. CASE ~ (IsServer /\ u \in built.registered)
    <3>1. RouteTarget(u) = cache[<<u, "">>] /\ RouteTarget(u)' = cache'[<<u, "">>]
      BY <1>3, <2>2, <2>4 DEF RouteTarget
    <3>2. cache'[<<u, "">>] = cache[<<u, "">>]
      <4>1. CASE u = s
        <5>1. t = cache[k]
          BY <1>5, <2>1, <2>2, <2>4, <3>1, <4>1 DEF RoutesBuilt
        <5> QED BY <1>0, <1>1, <4>1, <5>1 DEF ServerTyped
      <4>2. CASE u # s
        <5>1. <<u, "">> # k /\ <<u, "">> \in Service \X {""}
          BY <4>2
        <5> QED BY <1>1, <5>1 DEF ServerTyped
      <4> QED BY <4>1, <4>2
    <3> QED BY <2>1, <3>1, <3>2 DEF RouteMeaning
  <2> QED BY <2>3, <2>4
<1>8. ASSUME NEW r \in routes' PROVE RouteMeaning(r)'
  <2>1. CASE r \in routes
    BY <1>7, <2>1
  <2>2. CASE r \notin routes
    BY <1>1, <1>6, <2>2 DEF RouteMeaning
  <2> QED BY <2>1, <2>2
<1> QED BY <1>2, <1>3, <1>8 DEF RoutesAgree

-----------------------------------------------------------------------------
(* The calls *)

\* Was, or is, record r a request handled by this process?
HandlerRecord(r) == r.to \in {"inbound", "local"}

Governed(c, r, calls) ==
  /\ r.own => r.signal = c
  /\ ~ r.own /\ r.parent # 0 => r.signal = calls[r.parent].signal

\* Record r at c, among calls: a call is made by an earlier one that is handled here,
\* within its deadline, unless nothing was left of it, and under the signal that
\* governs it.
CallOk(c, r, calls) ==
  /\ "stage" \in DOMAIN r /\ r.stage \in {"none", "open", "active", "done"}
  /\ r.stage \in {"none", "open"} => r.to = Undefined
  /\ r.stage = "open" => r.service \in Service /\ r.endpoint \in Endpoint /\ r.timeout \in Timeouts
  /\ r.deadline \in Int \cup {Undefined}
  /\ r.parent # 0 => r.parent \in 1 .. (c - 1) /\ HandlerRecord(calls[r.parent])
  /\ r.parent # 0 /\ r.to # Undefined /\ calls[r.parent].deadline # Undefined /\ ~ r.untimed =>
       r.deadline # Undefined /\ r.deadline <= calls[r.parent].deadline
  /\ r.to # Undefined => Governed(c, r, calls)
  /\ r.stage = "active" \/ HandlerRecord(r) => Governed(c, r, calls)
  /\ HandlerRecord(r) => r.own \/ r.parent # 0

\* What a record that replaces q must keep for the calls made by q's handler.
Keeps(r, q) == HandlerRecord(q) => r.to = q.to /\ r.deadline = q.deadline /\ r.signal = q.signal

LEMMA CallReplaced ==
  ASSUME DOMAIN call = 1 .. MaxCalls, \A d \in 1 .. MaxCalls : CallOk(d, call[d], call),
         NEW c \in 1 .. MaxCalls, NEW r, CallOk(c, r, call), Keeps(r, call[c]),
         call' = [call EXCEPT ![c] = r]
  PROVE  /\ DOMAIN call' = 1 .. MaxCalls
         /\ \A d \in 1 .. MaxCalls : CallOk(d, call'[d], call')
<1>0. MaxCalls \in Nat
  BY ConfigAssumption
<1>1. DOMAIN call' = 1 .. MaxCalls /\ call'[c] = r /\ \A d \in 1 .. MaxCalls : d # c => call'[d] = call[d]
  OBVIOUS
<1>2. ASSUME NEW d \in 1 .. MaxCalls PROVE CallOk(d, call'[d], call')
  <2>1. CallOk(d, call'[d], call)
    BY <1>1
  <2> DEFINE q == call'[d]
  <2>2. ASSUME q.parent # 0
        PROVE  /\ HandlerRecord(call'[q.parent])
               /\ call'[q.parent].deadline = call[q.parent].deadline
               /\ call'[q.parent].signal = call[q.parent].signal
    <3>1. q.parent \in 1 .. (d - 1) /\ HandlerRecord(call[q.parent])
      BY <2>1, <2>2 DEF CallOk
    <3>2. q.parent \in 1 .. MaxCalls
      BY <1>0, <3>1
    <3>3. CASE q.parent = c
      BY <1>1, <3>1, <3>3 DEF Keeps, HandlerRecord
    <3>4. CASE q.parent # c
      BY <1>1, <3>1, <3>2, <3>4
    <3> QED BY <3>3, <3>4
  <2> HIDE DEF q
  <2>3. CallOk(d, q, call)
    BY <2>1 DEF q
  <2>4. Governed(d, q, call) => Governed(d, q, call')
    BY <2>2 DEF Governed
  <2>5. CallOk(d, q, call')
    BY <2>2, <2>3, <2>4 DEF CallOk
  <2> QED BY <2>5 DEF q
<1> QED BY <1>1, <1>2

\* A call that is over without a handler of this process.
LEMMA OverOk ==
  ASSUME NEW c, NEW code
  PROVE  CallOk(c, Over(code), call) /\ Over(code).stage = "done"
<1>1. /\ "stage" \in DOMAIN Over(code) /\ Over(code).stage = "done" /\ Over(code).parent = 0 /\ Over(code).to = Undefined
      /\ Over(code).deadline = Undefined
  BY DEF Over, NoCall
<1>2. ~ HandlerRecord(Over(code))
  BY <1>1, UndefinedAssumption DEF HandlerRecord
<1> QED BY <1>1, <1>2 DEF CallOk

ActiveRecord(p, own, t, deadline, signal, untimed) ==
  [NoCall EXCEPT !.stage = "active", !.parent = p, !.own = own, !.to = t,
     !.deadline = deadline, !.signal = signal, !.untimed = untimed]

LEMMA ActiveFields ==
  ASSUME NEW p, NEW own, NEW t, NEW deadline, NEW signal, NEW untimed
  PROVE  LET r == ActiveRecord(p, own, t, deadline, signal, untimed)
         IN /\ "stage" \in DOMAIN r /\ r.stage = "active" /\ r.parent = p /\ r.own = own /\ r.to = t
            /\ r.deadline = deadline /\ r.signal = signal /\ r.untimed = untimed
BY DEF ActiveRecord, NoCall

\* The frame of a call: within the deadline of the request that makes it, if
\* something is left of it.
LEMMA FrameInTime ==
  ASSUME NEW c, NEW r, now \in Nat, r.timeout \in Timeouts,
         r.parent # 0 => call[r.parent].deadline \in Int \cup {Undefined}
  PROVE  LET f == BuildFrame(c, r)
         IN /\ f.deadline \in Int \cup {Undefined}
            /\ r.parent # 0 /\ call[r.parent].deadline # Undefined /\ ~ Untimed(r) =>
                 f.deadline # Undefined /\ f.deadline <= call[r.parent].deadline
            /\ f.signal = SignalOf(c, r.parent, r.own)
<1> DEFINE remaining == Remaining(r.parent)
           timeout == ClampTimeout(r.timeout, remaining)
           deadline == TransportDeadline(timeout)
<1>0. r.timeout \in Nat \cup {Undefined} /\ Undefined \notin Int
  <2>1. MaxTimeout \in Nat
    BY ConfigAssumption
  <2>2. Undefined \notin Int
    BY UndefinedAssumption
  <2> QED BY <2>1, <2>2 DEF Timeouts
<1>1. BuildFrame(c, r).deadline = deadline /\ BuildFrame(c, r).signal = SignalOf(c, r.parent, r.own)
  BY DEF BuildFrame
<1>2. /\ remaining \in Int \cup {Undefined}
      /\ r.parent # 0 /\ call[r.parent].deadline # Undefined =>
           remaining \in Int /\ call[r.parent].deadline \in Int /\ now + remaining = call[r.parent].deadline
  BY <1>0 DEF Remaining
<1>a. remaining \in Int /\ ~ Untimed(r) => remaining > 0 /\ r.timeout # 0
  BY <1>0 DEF Untimed
<1> HIDE DEF remaining
<1>3. /\ timeout \in Int \cup {Undefined}
      /\ remaining \in Int /\ ~ Untimed(r) => timeout \in Int /\ timeout <= remaining /\ timeout > 0
  BY <1>0, <1>2, <1>a DEF ClampTimeout
<1> HIDE DEF timeout
<1>4. /\ deadline \in Int \cup {Undefined}
      /\ r.parent # 0 /\ call[r.parent].deadline # Undefined /\ ~ Untimed(r) =>
           deadline # Undefined /\ deadline <= call[r.parent].deadline
  BY <1>0, <1>2, <1>3 DEF TransportDeadline
<1> QED BY <1>1, <1>4

\* A call handed over with such a frame is in order.
LEMMA FrameOk ==
  ASSUME NEW c \in 1 .. MaxCalls, NEW r, now \in Nat, r.timeout \in Timeouts,
         \A d \in 1 .. MaxCalls : CallOk(d, call[d], call),
         r.parent # 0 => r.parent \in 1 .. (c - 1) /\ HandlerRecord(call[r.parent]),
         NEW t, t # Undefined, t \in {"inbound", "local"} => r.own \/ r.parent # 0
  PROVE  CallOk(c, ActiveRecord(r.parent, r.own, t, BuildFrame(c, r).deadline, BuildFrame(c, r).signal, Untimed(r)), call)
<1> DEFINE n == ActiveRecord(r.parent, r.own, t, BuildFrame(c, r).deadline, BuildFrame(c, r).signal, Untimed(r))
<1>0. MaxCalls \in Nat
  BY ConfigAssumption
<1>1. r.parent # 0 => call[r.parent].deadline \in Int \cup {Undefined}
  BY <1>0 DEF CallOk
<1>2. /\ "stage" \in DOMAIN n /\ n.stage = "active" /\ n.parent = r.parent /\ n.own = r.own /\ n.to = t
      /\ n.deadline = BuildFrame(c, r).deadline /\ n.signal = BuildFrame(c, r).signal /\ n.untimed = Untimed(r)
  BY ActiveFields
<1>3. /\ n.deadline \in Int \cup {Undefined}
      /\ r.parent # 0 /\ call[r.parent].deadline # Undefined /\ ~ n.untimed =>
           n.deadline # Undefined /\ n.deadline <= call[r.parent].deadline
      /\ n.signal = SignalOf(c, r.parent, r.own)
  BY <1>1, <1>2, FrameInTime
<1> HIDE DEF n
<1>4. Governed(c, n, call)
  BY <1>2, <1>3 DEF Governed, SignalOf
<1>5. HandlerRecord(n) => n.own \/ n.parent # 0
  BY <1>2 DEF HandlerRecord
<1>6. CallOk(c, n, call)
  BY <1>2, <1>3, <1>4, <1>5 DEF CallOk
<1> QED BY <1>6 DEF n

CallsMeaning ==
  /\ DOMAIN call = 1 .. MaxCalls /\ now \in Nat
  /\ \A c \in 1 .. MaxCalls : CallOk(c, call[c], call)
  /\ \E n \in 0 .. MaxCalls : \A c \in 1 .. MaxCalls : call[c].stage # "none" <=> c <= n
  /\ \A c \in aborted : /\ c \in 1 .. MaxCalls
                        /\ call[c].stage = "done" \/ (call[c].stage = "active" /\ call[c].own)
  /\ IsServer => \A c \in 1 .. MaxCalls : call[c].stage = "open" => call[c].parent # 0
  /\ IsServer /\ built = Undefined => \A c \in 1 .. MaxCalls : call[c].stage = "none"

\* Calls are numbered without gaps.
LEMMA NextIsFresh ==
  ASSUME NEW n \in 0 .. MaxCalls, \A c \in 1 .. MaxCalls : call[c].stage # "none" <=> c <= n
  PROVE  NextCall = n + 1
<1>1. Used = 1 .. n
  <2>1. MaxCalls \in Nat
    BY ConfigAssumption
  <2> QED BY <2>1 DEF Used
<1>2. Cardinality(1 .. n) = n
  BY FS_Interval
<1> QED BY <1>1, <1>2 DEF NextCall

LEMMA CallsStep ==
  ASSUME CallsMeaning, UNCHANGED <<options, aborted, now>>, IsServer => built' # Undefined,
         NEW c \in 1 .. MaxCalls, NEW r, CallOk(c, r, call), Keeps(r, call[c]),
         call' = [call EXCEPT ![c] = r],
         r.stage # "none", call[c].stage = "none" => c = NextCall,
         c \in aborted => r.stage = "done",
         IsServer /\ r.stage = "open" => r.parent # 0
  PROVE  CallsMeaning'
<1>0. MaxCalls \in Nat
  BY ConfigAssumption
<1>1. DOMAIN call = 1 .. MaxCalls /\ \A d \in 1 .. MaxCalls : CallOk(d, call[d], call)
  BY DEF CallsMeaning
<1>2. DOMAIN call' = 1 .. MaxCalls /\ \A d \in 1 .. MaxCalls : CallOk(d, call'[d], call')
  BY <1>1, CallReplaced
<1>3. call'[c] = r /\ \A d \in 1 .. MaxCalls : d # c => call'[d] = call[d]
  BY <1>1
<1>4. \E n \in 0 .. MaxCalls : \A d \in 1 .. MaxCalls : call'[d].stage # "none" <=> d <= n
  <2>1. PICK n \in 0 .. MaxCalls : \A d \in 1 .. MaxCalls : call[d].stage # "none" <=> d <= n
    BY DEF CallsMeaning
  <2>2. NextCall = n + 1
    BY <2>1, NextIsFresh
  <2>3. CASE call[c].stage = "none"
    <3>1. c = n + 1 /\ n + 1 \in 0 .. MaxCalls
      BY <1>0, <2>2, <2>3
    <3>2. \A d \in 1 .. MaxCalls : call'[d].stage # "none" <=> d <= n + 1
      BY <1>0, <1>3, <2>1, <3>1
    <3> QED BY <3>1, <3>2
  <2>4. CASE call[c].stage # "none"
    BY <1>3, <2>1, <2>4
  <2> QED BY <2>3, <2>4
<1>5. \A d \in aborted' : /\ d \in 1 .. MaxCalls
                          /\ call'[d].stage = "done" \/ (call'[d].stage = "active" /\ call'[d].own)
  BY <1>3 DEF CallsMeaning
<1>6. IsServer' => IsServer /\ \A d \in 1 .. MaxCalls : call'[d].stage = "open" => call'[d].parent # 0
  BY <1>3 DEF CallsMeaning, IsServer
<1> QED BY <1>2, <1>4, <1>5, <1>6 DEF CallsMeaning

CatalogIInv == RoutesMeaning /\ RoutesAgree /\ CallsMeaning

\* Resolving a call and handing it over, when it is made or first iterated.
LEMMA DispatchStep ==
  ASSUME CatalogIInv, UNCHANGED <<options, phase, services, protocols, interceptors, aborted, now>>,
         NEW c \in 1 .. MaxCalls, NEW r, Dispatch(c, r),
         r.service \in Service, r.endpoint \in Endpoint, r.timeout \in Timeouts,
         r.parent # 0 => r.parent \in 1 .. (c - 1) /\ HandlerRecord(call[r.parent]),
         IsServer => r.parent # 0 /\ built # Undefined,
         call[c].stage \in {"none", "open"}, call[c].stage = "none" => c = NextCall
  PROVE  CallsMeaning' /\ RoutesAgree' /\ cache' \in [Service \X {""} -> Remote \cup {Undefined}]
<1>0. ServerTyped /\ RoutesAgree /\ CallsMeaning
  BY DEF CatalogIInv, RoutesMeaning
<1>1. PICK t \in Targets(r.service, r.endpoint) :
        /\ Remember(r.service, r.endpoint, t)
        /\ Routed(r.service, r.endpoint, t)
        /\ IF t = "local" THEN LocalTransport("catalog") ELSE UNCHANGED <<built, transports>>
        /\ call' = [call EXCEPT ![c] =
             CASE t = "throws" -> Over("Internal")
               [] t = "null" -> Over("Unavailable")
               [] OTHER -> ActiveRecord(r.parent, r.own, t, BuildFrame(c, r).deadline, BuildFrame(c, r).signal, Untimed(r))]
  BY DEF Dispatch, ActiveRecord
<1>2. IsServer => built' = RoutesBuilt /\ built' # Undefined
  BY <1>1 DEF LocalTransport, EnsureRoutesBuilt, RoutesBuilt
<1>3. cache' \in [Service \X {""} -> Remote \cup {Undefined}] /\ RoutesAgree'
  BY <1>0, <1>1, <1>2, ResolveStep
<1>4. t # Undefined /\ t # "inbound" /\ (t = "local" => IsServer)
  <2>1. Key(r.service, r.endpoint) \in Service \X {""}
    BY DEF Key, Endpoint
  <2>2. t \in Remote \cup {"local", "null", "throws"}
    BY <1>0, <2>1 DEF Targets, ResolverAnswers, ServerTyped
  <2> QED BY <1>0, <2>2, LocalIsServer, UndefinedAssumption
<1>5. \A d \in 1 .. MaxCalls : CallOk(d, call[d], call)
  BY <1>0 DEF CallsMeaning
<1>6. CallOk(c, ActiveRecord(r.parent, r.own, t, BuildFrame(c, r).deadline, BuildFrame(c, r).signal, Untimed(r)), call)
  BY <1>0, <1>4, <1>5, FrameOk DEF CallsMeaning
<1>7. ~ HandlerRecord(call[c]) /\ c \notin aborted
  <2>1. call[c].to = Undefined
    BY <1>5 DEF CallOk
  <2> QED BY <1>0, <2>1, UndefinedAssumption DEF HandlerRecord, CallsMeaning
<1>8. \E n : CallOk(c, n, call) /\ n.stage \in {"active", "done"} /\ call' = [call EXCEPT ![c] = n]
  <2>1. CASE t = "throws"
    <3>1. call' = [call EXCEPT ![c] = Over("Internal")]
      BY <1>1, <2>1
    <3> QED BY <3>1, OverOk
  <2>2. CASE t = "null"
    <3>1. call' = [call EXCEPT ![c] = Over("Unavailable")]
      BY <1>1, <2>2
    <3> QED BY <3>1, OverOk
  <2>3. CASE t # "throws" /\ t # "null"
    <3> DEFINE n == ActiveRecord(r.parent, r.own, t, BuildFrame(c, r).deadline, BuildFrame(c, r).signal, Untimed(r))
    <3>1. n.stage = "active"
      BY ActiveFields
    <3>2. call' = [call EXCEPT ![c] = n]
      BY <1>1, <2>3
    <3>3. CallOk(c, n, call)
      BY <1>6
    <3> HIDE DEF n
    <3> QED BY <3>1, <3>2, <3>3
  <2> QED BY <2>1, <2>2, <2>3
<1>9. PICK n : CallOk(c, n, call) /\ n.stage \in {"active", "done"} /\ call' = [call EXCEPT ![c] = n]
  BY <1>8
<1>10. n.stage # "none" /\ n.stage # "open" /\ Keeps(n, call[c])
  BY <1>7, <1>9 DEF Keeps
<1>11. CallsMeaning'
  BY <1>0, <1>2, <1>7, <1>9, <1>10, CallsStep
<1> QED BY <1>3, <1>11

\* Routes, once materialised, stay.
LEMMA BuiltStays ==
  ASSUME UNCHANGED server \/ Materialises \/ Extends \/ Start
  PROVE  /\ options' = options /\ (IsServer' <=> IsServer)
         /\ built # Undefined => built' = built
         /\ ~ IsServer => built' = built /\ phase' = phase
<1>1. options' = options
  BY DEF server, Materialises, Extends, Start
<1>2. built # Undefined => built' = built
  BY DEF server, Materialises, Extends, Start, EnsureRoutesBuilt, RoutesBuilt
<1>3. ~ IsServer => built' = built /\ phase' = phase
  BY DEF server, Materialises, Extends, Extensible, Start
<1> QED BY <1>1, <1>2, <1>3 DEF IsServer

LEMMA OneMore == \A n \in Nat : \A i \in 0 .. n : i < n => i + 1 \in 0 .. n
OBVIOUS

LEMMA ServerTypedStep ==
  ASSUME ServerTyped, UNCHANGED server \/ Materialises \/ Extends \/ Start,
         cache' \in [Service \X {""} -> Remote \cup {Undefined}]
  PROVE  ServerTyped'
<1>0. MaxInterceptors \in Nat
  BY ConfigAssumption
<1>1. /\ options' = options /\ (IsServer' <=> IsServer)
      /\ ~ IsServer => built' = built /\ phase' = phase
  BY BuiltStays
<1>2. services' \subseteq Service \ Protocol /\ protocols' \subseteq Protocol
  BY DEF ServerTyped, server, Materialises, Extends, Start
<1>3. interceptors' \in 0 .. MaxInterceptors
  <2>1. interceptors \in 0 .. MaxInterceptors
    BY DEF ServerTyped
  <2>2. \/ interceptors' = interceptors
        \/ interceptors < MaxInterceptors /\ interceptors' = interceptors + 1
    BY DEF server, Materialises, Extends, Start
  <2>3. interceptors < MaxInterceptors => interceptors + 1 \in 0 .. MaxInterceptors
    BY <1>0, <2>1, OneMore, Zenon
  <2> QED BY <2>1, <2>2, <2>3, Zenon
<1>4. phase' \in {"created", "running", "stopped"}
  BY DEF ServerTyped, server, Materialises, Extends, Start
<1> QED BY <1>1, <1>2, <1>3, <1>4 DEF ServerTyped

\* Steps that resolve nothing.
LEMMA RoutesKept ==
  ASSUME RoutesAgree, UNCHANGED server \/ Materialises \/ Extends \/ Start, UNCHANGED <<cache, routes>>
  PROVE  RoutesAgree'
<1>1. /\ IsServer' <=> IsServer
      /\ built # Undefined => built' = built
      /\ ~ IsServer => built' = built
  BY BuiltStays
<1>2. ASSUME NEW r \in routes PROVE RouteMeaning(r)'
  <2>1. PICK u \in Service : r = <<<<u, "">>, RouteTarget(u)>> /\ RouteTarget(u) # Undefined
    BY <1>2 DEF RoutesAgree, RouteMeaning
  <2>2. built' = built
    BY <1>1, <1>2 DEF RoutesAgree
  <2>3. RouteTarget(u)' = RouteTarget(u)
    BY <1>1, <2>2 DEF RouteTarget
  <2> QED BY <2>1, <2>3 DEF RouteMeaning
<1> QED BY <1>1, <1>2 DEF RoutesAgree

\* Steps that leave the calls alone.
LEMMA CallsKept ==
  ASSUME CallsMeaning, UNCHANGED server \/ Materialises \/ Extends \/ Start,
         UNCHANGED <<call, aborted>>, now' \in Nat
  PROVE  CallsMeaning'
<1>1. /\ IsServer' <=> IsServer
      /\ built # Undefined => built' = built
  BY BuiltStays
<1>2. \E n \in 0 .. MaxCalls : \A c \in 1 .. MaxCalls : call'[c].stage # "none" <=> c <= n
  BY DEF CallsMeaning
<1>3. \A c \in 1 .. MaxCalls : CallOk(c, call'[c], call')
  BY DEF CallsMeaning
<1> QED BY <1>1, <1>2, <1>3 DEF CallsMeaning

LEMMA InboundFields ==
  ASSUME NEW c, NEW deadline
  PROVE  LET r == [NoCall EXCEPT !.stage = "active", !.to = "inbound", !.own = TRUE,
                     !.signal = c, !.deadline = deadline]
         IN /\ "stage" \in DOMAIN r /\ r.stage = "active" /\ r.parent = 0 /\ r.own = TRUE /\ r.to = "inbound"
            /\ r.deadline = deadline /\ r.signal = c
BY DEF NoCall

LEMMA InboundStep ==
  ASSUME CallsMeaning, NEW s, NEW timeout \in Timeouts, Inbound(s, timeout)
  PROVE  CallsMeaning'
<1> DEFINE c == NextCall
           deadline == IF timeout = Undefined THEN Undefined ELSE now + timeout
           r == [NoCall EXCEPT !.stage = "active", !.to = "inbound", !.own = TRUE,
                   !.signal = c, !.deadline = deadline]
<1>0. MaxCalls \in Nat /\ MaxTimeout \in Nat
  BY ConfigAssumption
<1>1. /\ c = 1 /\ built # Undefined /\ call' = [call EXCEPT ![c] = r]
      /\ UNCHANGED <<server, aborted, now>>
  BY DEF Inbound
<1>2. PICK n \in 0 .. MaxCalls : \A d \in 1 .. MaxCalls : call[d].stage # "none" <=> d <= n
  BY DEF CallsMeaning
<1>3. n = 0
  BY <1>1, <1>2, NextIsFresh
<1>4. CASE MaxCalls = 0
  <2>1. call' = call
    BY <1>1, <1>4 DEF CallsMeaning
  <2> QED BY <1>1, <2>1, CallsKept DEF CallsMeaning
<1>5. CASE MaxCalls # 0
  <2>1. c \in 1 .. MaxCalls /\ call[c].stage = "none"
    BY <1>0, <1>1, <1>2, <1>3, <1>5
  <2>2. /\ "stage" \in DOMAIN r /\ r.stage = "active" /\ r.parent = 0 /\ r.own = TRUE /\ r.to = "inbound"
        /\ r.deadline = deadline /\ r.signal = c
    BY InboundFields
  <2> HIDE DEF r
  <2>3. deadline \in Int \cup {Undefined}
    <3>1. timeout \in Int \cup {Undefined} /\ now \in Nat
      BY <1>0 DEF Timeouts, CallsMeaning
    <3> QED BY <3>1
  <2> HIDE DEF deadline, c
  <2>4. Governed(c, r, call)
    BY <2>2 DEF Governed
  <2>5. CallOk(c, r, call)
    BY <2>2, <2>3, <2>4, UndefinedAssumption DEF CallOk
  <2>6. call[c].to = Undefined /\ c \notin aborted
    BY <2>1 DEF CallsMeaning, CallOk
  <2>7. Keeps(r, call[c])
    BY <2>6, UndefinedAssumption DEF Keeps, HandlerRecord
  <2>8. UNCHANGED <<options, aborted, now>> /\ built' = built
    BY <1>1 DEF server
  <2>9. c = NextCall
    BY DEF c
  <2> QED BY <1>1, <2>1, <2>2, <2>5, <2>6, <2>7, <2>8, <2>9, CallsStep
<1> QED BY <1>4, <1>5

\* The end of a call, whatever the reason.
LEMMA FinishStep ==
  ASSUME CallsMeaning, NEW c \in 1 .. MaxCalls, Finish(c)
  PROVE  CallsMeaning'
<1> DEFINE r == IF Handler(c) THEN [call[c] EXCEPT !.stage = "done"] ELSE Over("remote")
<1>0. /\ call[c].stage = "active" /\ CallOk(c, call[c], call) /\ UNCHANGED <<options, aborted, now, built>>
      /\ (IsServer => built # Undefined)
  BY DEF Finish, server, CallsMeaning
<1>1. call' = [call EXCEPT ![c] = r]
  BY DEF Finish, CallsMeaning
<1>2. CASE Handler(c)
  <2>1. r = [call[c] EXCEPT !.stage = "done"]
    BY <1>2
  <2>2. HandlerRecord(call[c])
    BY <1>2 DEF Handler, HandlerRecord
  <2> HIDE DEF r
  <2>3. "stage" \in DOMAIN r /\ r.stage = "done"
    BY <1>0, <2>1 DEF CallOk
  <2>4. /\ r.parent = call[c].parent /\ r.own = call[c].own /\ r.to = call[c].to
        /\ r.deadline = call[c].deadline /\ r.signal = call[c].signal /\ r.untimed = call[c].untimed
    BY <2>1
  <2>5. CallOk(c, r, call) /\ Keeps(r, call[c])
    BY <1>0, <2>2, <2>3, <2>4 DEF CallOk, Keeps, HandlerRecord, Governed
  <2> QED BY <1>0, <1>1, <2>3, <2>5, CallsStep
<1>3. CASE ~ Handler(c)
  <2>1. r = Over("remote") /\ ~ HandlerRecord(call[c])
    BY <1>0, <1>3 DEF Handler, HandlerRecord
  <2> HIDE DEF r
  <2>2. CallOk(c, r, call) /\ r.stage = "done" /\ Keeps(r, call[c])
    BY <2>1, OverOk DEF Keeps
  <2> QED BY <1>0, <1>1, <2>2, CallsStep
<1> QED BY <1>2, <1>3

\* A call or stream is made by a handler, or by a catalog client.
LEMMA InvokeStep ==
  ASSUME CatalogIInv, NEW p, NEW s \in Service, NEW k, NEW e \in Endpoint, NEW timeout \in Timeouts, NEW own,
         Invoke(p, s, k, e, timeout, own),
         \/ p \in 1 .. MaxCalls /\ Handler(p)
         \/ p = 0 /\ ~ IsServer
  PROVE  CallsMeaning' /\ RoutesAgree' /\ cache' \in [Service \X {""} -> Remote \cup {Undefined}]
<1> DEFINE c == NextCall
           r == OpenRecord(p, s, e, timeout, own)
<1>0. ServerTyped /\ RoutesAgree /\ CallsMeaning /\ MaxCalls \in Nat
  BY ConfigAssumption DEF CatalogIInv, RoutesMeaning
<1>1. /\ c <= MaxCalls
      /\ \/ Dispatch(c, r)
         \/ \E code : call' = [call EXCEPT ![c] = Over(code)] /\ UNCHANGED <<built, transports, cache, routes>>
         \/ call' = [call EXCEPT ![c] = r] /\ UNCHANGED <<built, transports, cache, routes>>
      /\ UNCHANGED <<options, phase, services, protocols, interceptors, aborted, now>>
  BY DEF Invoke, OpenRecord
<1>2. PICK n \in 0 .. MaxCalls : \A d \in 1 .. MaxCalls : call[d].stage # "none" <=> d <= n
  BY <1>0 DEF CallsMeaning
<1>3. c = n + 1
  BY <1>2, NextIsFresh
<1>4. c \in 1 .. MaxCalls /\ call[c].stage = "none"
  <2>1. n + 1 \in 1 .. MaxCalls /\ ~ (n + 1 <= n)
    BY <1>0, <1>1, <1>3
  <2> QED BY <1>2, <1>3, <2>1
<1>5. p # 0 => p \in 1 .. (c - 1) /\ HandlerRecord(call[p])
  <2>1. ASSUME p # 0 PROVE p \in 1 .. MaxCalls /\ call[p].stage = "active" /\ HandlerRecord(call[p])
    BY <2>1 DEF Handler, HandlerRecord
  <2> QED BY <1>0, <1>2, <1>3, <2>1
<1>6. IsServer => p # 0 /\ built # Undefined
  <2>1. MaxCalls \in Nat /\ (p \in 1 .. MaxCalls => p # 0)
    BY <1>0
  <2>2. p \in 1 .. MaxCalls /\ Handler(p) /\ IsServer => built # Undefined
    BY <1>0 DEF CallsMeaning, Handler
  <2> QED BY <2>1, <2>2
<1>7. call[c].to = Undefined /\ ~ HandlerRecord(call[c]) /\ c \notin aborted
  BY <1>0, <1>4, UndefinedAssumption DEF CallsMeaning, CallOk, HandlerRecord
<1>8. /\ "stage" \in DOMAIN r /\ r.stage = "open" /\ r.parent = p /\ r.own = own /\ r.service = s
      /\ r.endpoint = e /\ r.timeout = timeout
      /\ r.to = Undefined /\ r.deadline = Undefined /\ r.signal = 0
  BY OpenFields
<1>9. c = NextCall
  OBVIOUS
<1> HIDE DEF r, c
<1>10. CASE Dispatch(c, r)
  BY <1>1, <1>4, <1>5, <1>6, <1>8, <1>9, <1>10, DispatchStep
<1>11. ASSUME NEW q, call' = [call EXCEPT ![c] = q], UNCHANGED <<built, transports, cache, routes>>,
              CallOk(c, q, call), q.stage # "none", IsServer /\ q.stage = "open" => q.parent # 0
       PROVE  CallsMeaning' /\ RoutesAgree' /\ cache' \in [Service \X {""} -> Remote \cup {Undefined}]
  <2>1. Keeps(q, call[c])
    BY <1>7 DEF Keeps
  <2>2. IsServer => built' # Undefined
    BY <1>6, <1>11
  <2>3. CallsMeaning'
    BY <1>0, <1>1, <1>4, <1>7, <1>9, <1>11, <2>1, <2>2, CallsStep
  <2>4. UNCHANGED server
    BY <1>1, <1>11 DEF server
  <2> QED BY <1>0, <1>11, <2>3, <2>4, RoutesKept DEF ServerTyped
<1>12. ASSUME NEW code, call' = [call EXCEPT ![c] = Over(code)], UNCHANGED <<built, transports, cache, routes>>
       PROVE  CallsMeaning' /\ RoutesAgree' /\ cache' \in [Service \X {""} -> Remote \cup {Undefined}]
  <2>1. CallOk(c, Over(code), call) /\ Over(code).stage = "done"
    BY OverOk
  <2> QED BY <1>11, <1>12, <2>1
<1>13. CallOk(c, r, call)
  BY <1>5, <1>8, UndefinedAssumption DEF CallOk, HandlerRecord
<1>14. CASE call' = [call EXCEPT ![c] = r] /\ UNCHANGED <<built, transports, cache, routes>>
  BY <1>6, <1>8, <1>11, <1>13, <1>14
<1> QED BY <1>1, <1>10, <1>12, <1>14

LEMMA CatalogIInvInit == Init => CatalogIInv
<1> SUFFICES ASSUME Init PROVE CatalogIInv
  OBVIOUS
<1>1. RoutesMeaning
  BY RoutesMeaningInit
<1>2. RoutesAgree
  BY DEF Init, RoutesAgree
<1>3. CallsMeaning
  <2>1. DOMAIN call = 1 .. MaxCalls /\ now \in Nat /\ aborted = {}
    BY DEF Init
  <2>2. /\ NoCall.stage = "none" /\ NoCall.to = Undefined /\ NoCall.parent = 0
        /\ NoCall.deadline = Undefined /\ "stage" \in DOMAIN NoCall
    BY DEF NoCall
  <2>3. ASSUME NEW c \in 1 .. MaxCalls PROVE CallOk(c, call[c], call)
    <3>1. call[c] = NoCall
      BY DEF Init
    <3> QED BY <2>2, <3>1, UndefinedAssumption DEF CallOk, HandlerRecord
  <2>4. \A c \in 1 .. MaxCalls : call[c].stage = "none"
    BY <2>2 DEF Init
  <2>5. 0 \in 0 .. MaxCalls /\ \A c \in 1 .. MaxCalls : call[c].stage # "none" <=> c <= 0
    <3>1. MaxCalls \in Nat
      BY ConfigAssumption
    <3> QED BY <2>4, <3>1
  <2> QED BY <2>1, <2>3, <2>4, <2>5 DEF CallsMeaning
<1> QED BY <1>1, <1>2, <1>3 DEF CatalogIInv

LEMMA CatalogIInvStep == CatalogIInv /\ [Next]_vars => CatalogIInv'
<1> SUFFICES ASSUME CatalogIInv, [Next]_vars PROVE CatalogIInv'
  OBVIOUS
<1> DEFINE Moves == UNCHANGED server \/ Materialises \/ Extends \/ Start
           Goal == CallsMeaning' /\ RoutesAgree' /\ cache' \in [Service \X {""} -> Remote \cup {Undefined}]
<1>0. RoutesMeaning /\ ServerTyped /\ RoutesAgree /\ CallsMeaning
  BY DEF CatalogIInv, RoutesMeaning
<1>1. Moves
  <2>1. \A c \in 1 .. MaxCalls : call[c].stage = "open" => call[c].service \in Service /\ call[c].endpoint \in Endpoint
    BY <1>0 DEF CallsMeaning, CallOk
  <2> QED BY <1>0, <2>1, ServerStep
<1>2. ASSUME UNCHANGED <<cache, routes>>
      PROVE  RoutesAgree' /\ cache' \in [Service \X {""} -> Remote \cup {Undefined}]
  BY <1>0, <1>1, <1>2, RoutesKept DEF ServerTyped
<1>3. ASSUME UNCHANGED <<call, aborted>>, now' \in Nat
      PROVE  CallsMeaning'
  BY <1>0, <1>1, <1>3, CallsKept
<1> HIDE DEF Moves
<1>4. ASSUME UNCHANGED vars \/ LocalClient \/ AddInterceptor \/ Start \/ Tick \/ Send \/ CloseHandle \/ TransportPulls
      PROVE  Goal
  <2>1. UNCHANGED <<cache, routes, call, aborted>> /\ (now' = now \/ now' = now + 1)
    BY <1>4 DEF vars, LocalClient, AddInterceptor, Start, Tick, Send, CloseHandle, TransportPulls
  <2>2. now' \in Nat
    BY <1>0, <2>1 DEF CallsMeaning
  <2> QED BY <1>2, <1>3, <2>1, <2>2
<1>5. ASSUME NEW s, AddProtocol(s) \/ AddService(s) PROVE Goal
  <2>1. UNCHANGED <<cache, routes, call, aborted, now>>
    BY <1>5 DEF AddProtocol, AddService
  <2> QED BY <1>0, <1>2, <1>3, <2>1 DEF CallsMeaning
<1>6. ASSUME NEW s \in Service \ Protocol, NEW e \in Endpoint, Client(s, e) PROVE Goal
  <2>1. PICK t \in Targets(s, e) :
          /\ IF t = "local" THEN LocalTransport("local") ELSE EnsureRoutesBuilt /\ UNCHANGED transports
          /\ Remember(s, e, t) /\ Routed(s, e, t)
    BY <1>6 DEF Client
  <2>2. UNCHANGED <<options, phase, services, protocols, interceptors, call, aborted, now>>
    BY <1>6 DEF Client
  <2>3. EnsureRoutesBuilt /\ (UNCHANGED transports \/ LocalTransport("local"))
    BY <2>1 DEF LocalTransport
  <2>4. built' = RoutesBuilt /\ built' # Undefined
    BY <1>0, <2>2, <2>3, MaterialiseStep DEF EnsureRoutesBuilt
  <2>5. cache' \in [Service \X {""} -> Remote \cup {Undefined}] /\ RoutesAgree'
    BY <1>0, <2>1, <2>2, <2>4, ResolveStep
  <2>6. CallsMeaning'
    BY <1>0, <1>3, <2>2 DEF CallsMeaning
  <2> QED BY <2>5, <2>6
<1>7. ASSUME NEW s, NEW timeout \in Timeouts, Inbound(s, timeout) PROVE Goal
  <2>1. UNCHANGED <<cache, routes>>
    BY <1>7 DEF Inbound
  <2> QED BY <1>0, <1>2, <1>7, <2>1, InboundStep
<1>8. ASSUME NEW p \in 1 .. MaxCalls, NEW s \in Service \ Protocol, NEW k \in Kind, NEW e \in Endpoint,
             NEW timeout \in Timeouts, NEW own \in BOOLEAN, CtxInvokes(p, s, k, e, timeout, own)
      PROVE  Goal
  BY <1>8, InvokeStep DEF CtxInvokes
<1>9. ASSUME NEW s \in Service \ Protocol, NEW k \in Kind, NEW e \in Endpoint,
             NEW timeout \in Timeouts, NEW own \in BOOLEAN, ClientInvokes(s, k, e, timeout, own)
      PROVE  Goal
  BY <1>9, InvokeStep DEF ClientInvokes
<1>10. ASSUME NEW c \in 1 .. MaxCalls, FirstIteration(c) PROVE Goal
  <2>1. /\ call[c].stage = "open" /\ Dispatch(c, call[c])
        /\ UNCHANGED <<options, phase, services, protocols, interceptors, aborted, now>>
    BY <1>10 DEF FirstIteration
  <2>2. CallOk(c, call[c], call)
    BY <1>0 DEF CallsMeaning
  <2>3. /\ call[c].service \in Service /\ call[c].endpoint \in Endpoint /\ call[c].timeout \in Timeouts
        /\ call[c].parent # 0 => call[c].parent \in 1 .. (c - 1) /\ HandlerRecord(call[call[c].parent])
    BY <2>1, <2>2 DEF CallOk
  <2>4. IsServer => call[c].parent # 0 /\ built # Undefined
    BY <1>0, <2>1 DEF CallsMeaning
  <2> QED BY <2>1, <2>3, <2>4, DispatchStep
<1>11. ASSUME NEW c \in 1 .. MaxCalls, CallEnds(c) \/ DeadlineExceeded(c) \/ TransportAborts(c) PROVE Goal
  <2>1. Finish(c) /\ UNCHANGED <<cache, routes>>
    BY <1>11 DEF CallEnds, DeadlineExceeded, TransportAborts, Finish
  <2> QED BY <1>0, <1>2, <2>1, FinishStep
<1>12. ASSUME NEW c \in 1 .. MaxCalls, Abort(c) PROVE Goal
  <2>1. /\ UNCHANGED <<server, cache, routes, call, now>>
        /\ call[c].stage = "active" /\ call[c].own /\ aborted' = aborted \cup {c}
    BY <1>12 DEF Abort
  <2>2. \A d \in aborted' : /\ d \in 1 .. MaxCalls
                            /\ call'[d].stage = "done" \/ (call'[d].stage = "active" /\ call'[d].own)
    BY <1>0, <2>1 DEF CallsMeaning
  <2>3. UNCHANGED <<options, built>>
    BY <2>1 DEF server
  <2>4. /\ DOMAIN call' = 1 .. MaxCalls /\ now' \in Nat
        /\ \A d \in 1 .. MaxCalls : CallOk(d, call'[d], call')
        /\ \E n \in 0 .. MaxCalls : \A d \in 1 .. MaxCalls : call'[d].stage # "none" <=> d <= n
    BY <1>0, <2>1 DEF CallsMeaning
  <2>5. CallsMeaning'
    BY <1>0, <2>1, <2>2, <2>3, <2>4 DEF CallsMeaning, IsServer
  <2> QED BY <1>2, <2>1, <2>5
<1> HIDE DEF Goal
<1>13. Goal
  BY <1>4, <1>5, <1>6, <1>7, <1>8, <1>9, <1>10, <1>11, <1>12 DEF Next
<1>14. ServerTyped' /\ BuiltMeaning'
  BY <1>0, <1>1, <1>13, ServerTypedStep, BuiltStep DEF Moves, Goal
<1> QED BY <1>13, <1>14 DEF Goal, CatalogIInv, RoutesMeaning

LEMMA CatalogIInvAlways == Spec => []CatalogIInv
BY CatalogIInvInit, CatalogIInvStep, PTL DEF Spec

-----------------------------------------------------------------------------
(* The theorems *)

\* What a handle of ctx.stream() sends reaches the transport, in order and to the
\* last value, in every server and catalog client.
THEOREM InputArrives == Spec => []InputDelivered
<1>1. Init => QueueMeaning
  BY QueueMeaningInit DEF Init
<1>2. QueueMeaning /\ [Next]_vars => QueueMeaning'
  BY QueueStep, QueueMeaningStep
<1>3. QueueMeaning => InputDelivered
  BY DEF QueueMeaning
<1> QED BY <1>1, <1>2, <1>3, PTL DEF Spec

\* In-process calls meet the services and interceptors that HTTP requests meet.
THEOREM TransportsAgree == Spec => []TransportParity
<1>1. CatalogIInv => TransportParity
  <2> SUFFICES ASSUME CatalogIInv, built # Undefined
               PROVE  /\ built.registered = Mounted \cup protocols /\ built.interceptors = interceptors
                      /\ \A t \in DOMAIN transports : transports[t] # Undefined =>
                           /\ transports[t].registered = built.registered
                           /\ transports[t].interceptors = built.interceptors
    BY DEF TransportParity
  <2>1. BuiltMeaning
    BY DEF CatalogIInv, RoutesMeaning
  <2>2. built.registered = Mounted \cup protocols /\ built.interceptors = interceptors
    BY <2>1 DEF BuiltMeaning, BuildRoutes
  <2>3. ASSUME NEW t \in DOMAIN transports, transports[t] # Undefined
        PROVE  transports[t].registered = Mounted \cup protocols /\ transports[t].interceptors = interceptors
    BY <2>1, <2>3 DEF BuiltMeaning, CreateLocalTransport
  <2> QED BY <2>2, <2>3
<1> QED BY <1>1, CatalogIInvAlways, PTL

\* No server runs with a bidi-streaming method it cannot serve, unless told to.
THEOREM NoBidiHangs == Spec => []BidiIsServable
<1>1. CatalogIInv => BidiIsServable
  <2> SUFFICES ASSUME CatalogIInv, phase = "running", options.transportValidation = "error",
                      ~ options.tls, options.allowHTTP1 # FALSE,
                      NEW s \in Mounted
               PROVE  "bidi_streaming" \notin MethodKinds[s]
    BY DEF BidiIsServable
  <2>1. ServerTyped /\ BuiltMeaning
    BY DEF CatalogIInv, RoutesMeaning
  <2>2. ResolveEffectiveTransport = "plaintext-h1"
    BY DEF ResolveEffectiveTransport
  <2>3. built # Undefined /\ built = BuildRoutes /\ ValidateTransport
    BY <2>1 DEF BuiltMeaning
  <2>4. CollectStreamingMethods(built.userRegistry) = {}
    BY <2>2, <2>3 DEF ValidateTransport, RoutesBuilt
  <2>5. s \in Service /\ FileOf[s] \in built.userRegistry
    BY <2>1, <2>3 DEF ServerTyped, Mounted, BuildRoutes
  <2> QED BY <2>4, <2>5 DEF CollectStreamingMethods
<1> QED BY <1>1, CatalogIInvAlways, PTL

\* A route keeps its transport for good, whatever the resolver answers later.
THEOREM RoutesAreStable == Spec => []RouteStable
<1>1. CatalogIInv => RouteStable
  <2> SUFFICES ASSUME CatalogIInv, NEW q \in routes, NEW r \in routes, q[1] = r[1]
               PROVE  q = r
    BY DEF RouteStable
  <2>1. PICK s \in Service : q = <<<<s, "">>, RouteTarget(s)>>
    BY DEF CatalogIInv, RoutesAgree, RouteMeaning
  <2>2. PICK u \in Service : r = <<<<u, "">>, RouteTarget(u)>>
    BY DEF CatalogIInv, RoutesAgree, RouteMeaning
  <2>3. s = u
    BY <2>1, <2>2
  <2> QED BY <2>1, <2>2, <2>3
<1> QED BY <1>1, CatalogIInvAlways, PTL

\* A call gets no later deadline than the request it is made for, and where nothing
\* is left of that it has the request's signal, or one of its own.
THEOREM DeadlinesHold == Spec => []DeadlineInherited
<1>1. CatalogIInv => DeadlineInherited
  BY DEF CatalogIInv, CallsMeaning, CallOk, Governed, Used, DeadlineInherited
<1> QED BY <1>1, CatalogIInvAlways, PTL

-----------------------------------------------------------------------------
(* Governor is a recursive function, so it has first to be shown that there  *)
(* is one: the signals of the frames are it, and there is no other, because  *)
(* the caller of a call has a smaller number.                                *)

OwnGovernor(c) == c = 0 \/ call[c].own \/ call[c].parent = 0

GovernorUnfolds(f) ==
  f = [c \in 0 .. MaxCalls |-> IF OwnGovernor(c) THEN c ELSE f[call[c].parent]]

SignalGovernor == [c \in 0 .. MaxCalls |-> IF OwnGovernor(c) THEN c ELSE call[call[c].parent].signal]

\* The signal in the frame of a handled request is that of its governor.
LEMMA HandlersSignal ==
  ASSUME CallsMeaning, NEW p \in 1 .. MaxCalls, HandlerRecord(call[p])
  PROVE  call[p].signal = IF OwnGovernor(p) THEN p ELSE call[call[p].parent].signal
<1>0. MaxCalls \in Nat /\ p # 0
  BY ConfigAssumption
<1>1. CallOk(p, call[p], call)
  BY DEF CallsMeaning
<1>2. Governed(p, call[p], call) /\ (call[p].own \/ call[p].parent # 0)
  BY <1>1 DEF CallOk
<1> QED BY <1>0, <1>2 DEF Governed, OwnGovernor

\* A call without a signal of its own has a caller that is handled here.
LEMMA CallerIsEarlier ==
  ASSUME CallsMeaning, NEW c \in 0 .. MaxCalls, ~ OwnGovernor(c)
  PROVE  call[c].parent \in 1 .. MaxCalls /\ call[c].parent < c /\ HandlerRecord(call[call[c].parent])
<1>0. MaxCalls \in Nat /\ c \in 1 .. MaxCalls
  BY ConfigAssumption DEF OwnGovernor
<1>1. call[c].parent \in 1 .. (c - 1) /\ HandlerRecord(call[call[c].parent])
  BY <1>0 DEF CallsMeaning, CallOk, OwnGovernor
<1> QED BY <1>0, <1>1

LEMMA SignalsGovern ==
  ASSUME CallsMeaning
  PROVE  GovernorUnfolds(SignalGovernor)
<1>0. MaxCalls \in Nat
  BY ConfigAssumption
<1>1. ASSUME NEW c \in 0 .. MaxCalls, ~ OwnGovernor(c)
      PROVE  call[call[c].parent].signal = SignalGovernor[call[c].parent]
  <2> DEFINE p == call[c].parent
  <2>1. p \in 1 .. MaxCalls /\ HandlerRecord(call[p])
    BY <1>1, CallerIsEarlier
  <2> HIDE DEF p
  <2>2. call[p].signal = IF OwnGovernor(p) THEN p ELSE call[call[p].parent].signal
    BY <2>1, HandlersSignal
  <2>3. p \in 0 .. MaxCalls
    BY <1>0, <2>1
  <2>4. call[p].signal = SignalGovernor[p]
    BY <2>2, <2>3 DEF SignalGovernor
  <2> QED BY <2>4 DEF p
<1> QED BY <1>1 DEF GovernorUnfolds, SignalGovernor

LEMMA SmallestExists ==
  ASSUME NEW T \in SUBSET Nat, T # {}
  PROVE  \E x \in T : \A y \in T : ~ (y < x)
<1>1. \E x \in T : \A y \in T : ~ (<<y, x>> \in OpToRel(<, Nat))
  BY NatLessThanWellFounded, WFMin
<1> QED BY <1>1 DEF OpToRel

LEMMA GovernorIsSignal ==
  ASSUME CallsMeaning
  PROVE  Governor = SignalGovernor
<1> DEFINE g == CHOOSE f : GovernorUnfolds(f)
<1>1. Governor = g
  BY DEF Governor, GovernorUnfolds, OwnGovernor
<1>2. GovernorUnfolds(g)
  BY SignalsGovern
<1> HIDE DEF g
<1>3. GovernorUnfolds(SignalGovernor)
  BY SignalsGovern
<1> DEFINE T == {c \in 0 .. MaxCalls : g[c] # SignalGovernor[c]}
<1>4. T = {}
  <2> SUFFICES ASSUME T # {} PROVE FALSE
    OBVIOUS
  <2>1. T \in SUBSET Nat
    BY ConfigAssumption
  <2>2. PICK x \in T : \A y \in T : ~ (y < x)
    BY <2>1, SmallestExists
  <2>3. x \in 0 .. MaxCalls /\ g[x] # SignalGovernor[x]
    OBVIOUS
  <2>4. CASE OwnGovernor(x)
    BY <1>2, <1>3, <2>3, <2>4 DEF GovernorUnfolds
  <2>5. CASE ~ OwnGovernor(x)
    <3> DEFINE p == call[x].parent
    <3>1. p \in 1 .. MaxCalls /\ p < x
      BY <2>3, <2>5, CallerIsEarlier
    <3>2. g[x] = g[p] /\ SignalGovernor[x] = SignalGovernor[p]
      BY <1>2, <1>3, <2>3, <2>5 DEF GovernorUnfolds
    <3> HIDE DEF p
    <3>3. p \in 0 .. MaxCalls
      <4>1. MaxCalls \in Nat
        BY ConfigAssumption
      <4> QED BY <3>1, <4>1
    <3>4. p \in T
      BY <2>3, <3>2, <3>3
    <3> QED BY <2>2, <3>1, <3>4
  <2> QED BY <2>4, <2>5
<1>5. \A c \in 0 .. MaxCalls : g[c] = SignalGovernor[c]
  BY <1>4
<1>6. g = SignalGovernor
  BY <1>2, <1>3, <1>5 DEF GovernorUnfolds
<1> QED BY <1>1, <1>6

\* Cancelling a request reaches every call made for it, at any depth.
THEOREM CancellationReaches == Spec => []CancelReaches
<1>1. CatalogIInv => CancelReaches
  <2> SUFFICES ASSUME CatalogIInv, NEW c \in 1 .. MaxCalls, call[c].stage = "active", Governor[c] \in aborted
               PROVE  call[c].signal \in aborted
    BY DEF CancelReaches
  <2>0. CallsMeaning /\ MaxCalls \in Nat
    BY ConfigAssumption DEF CatalogIInv
  <2>1. SignalGovernor[c] \in aborted /\ c \in 0 .. MaxCalls /\ c # 0
    BY <2>0, GovernorIsSignal
  <2>2. CallOk(c, call[c], call) /\ Governed(c, call[c], call)
    BY <2>0 DEF CallsMeaning, CallOk
  <2>3. CASE call[c].own
    BY <2>1, <2>2, <2>3 DEF SignalGovernor, OwnGovernor, Governed
  <2>4. CASE ~ call[c].own /\ call[c].parent # 0
    BY <2>1, <2>2, <2>4 DEF SignalGovernor, OwnGovernor, Governed
  <2>5. CASE ~ call[c].own /\ call[c].parent = 0
    BY <2>0, <2>1, <2>5 DEF SignalGovernor, OwnGovernor, CallsMeaning
  <2> QED BY <2>3, <2>4, <2>5
<1> QED BY <1>1, CatalogIInvAlways, PTL
=============================================================================
