------------------------------- MODULE Server -------------------------------
(***************************************************************************)
(* The lifecycle of a server: Server.ts with the phases of                 *)
(* gracefulShutdown.ts and the TransportManager it drives (packages/core), *)
(* composed with the shutdown hooks of ShutdownManager.  The event bus is  *)
(* seen through the two calls the server makes, start() and stop().        *)
(*                                                                         *)
(* emit() calls its listeners synchronously, so a listener may call the    *)
(* server's operations in the middle of start() or stop(), and may throw   *)
(* into them.  While a listener runs (InListener), or executeAll traverses *)
(* the hooks (toVisit), no promise continuation, timer or I/O event runs.  *)
(***************************************************************************)
EXTENDS ShutdownManager

CONSTANTS
  Conn,              \* client connections
  BusModule,         \* the name "eventbus"
  BusHook            \* the hook start() registers under it

ASSUME ServerAssumption ==
  /\ BusModule \in Module
  /\ BusHook \in Handler

VARIABLES
  options,        \* CreateServerOptions, and how user code may misbehave; fixed
  state,          \* _state
  startPc,        \* where start() is
  stopPc,         \* where stop()'s first accepted call is
  stopPromise,    \* is _stopPromise set?
  aborted,        \* _abortController.signal.aborted
  signalHandlers, \* are handlers installed by _setupAutoShutdown?
  server,         \* is TransportManager._server set?
  address,        \* is TransportManager._address set?
  socket,         \* the listening socket behind it
  conns,          \* conns[c]: protocol of an open connection
  timedOut,       \* history: the shutdown timer fired before close() settled
  bus             \* the event bus

lifecycleVars == <<state, startPc, stopPc, stopPromise, aborted, signalHandlers>>
transportVars == <<server, address, socket, conns, timedOut>>
serverVars == <<options, lifecycleVars, transportVars, bus>>

State == {"created", "starting", "running", "stopping", "stopped"}
StartPc == {"idle", "emitStart", "setup", "busStart", "callListen", "listen", "emitReady",
            "cleanup", "resolved", "rejected"}
StopPc == {"idle", "emitStopping", "closing", "hooks", "resolved", "rejected", "threw"}
Options == [eventBus : BOOLEAN, forceClose : BOOLEAN, autoShutdown : BOOLEAN,
            protocols : {{"http1"}, {"http2"}, {"http1", "http2"}},
            faults : SUBSET {"listeners", "transport"}]

\* May a listener throw?  May user code close the server it gets from
\* server.transport?
ListenersThrow == "listeners" \in options.faults
TransportExposed == "transport" \in options.faults

ServerTypeOK ==
  /\ TypeOK
  /\ options \in Options
  /\ state \in State
  /\ startPc \in StartPc
  /\ stopPc \in StopPc
  /\ stopPromise \in BOOLEAN
  /\ aborted \in BOOLEAN
  /\ signalHandlers \in BOOLEAN
  /\ server \in BOOLEAN
  /\ address \in BOOLEAN
  /\ socket \in {"none", "binding", "listening", "closing", "closed"}
  /\ conns \in [Conn -> {"none", "http1", "http2"}]
  /\ timedOut \in BOOLEAN
  /\ bus \in {"stopped", "starting", "started", "stopping"}

ServerInit ==
  /\ Init
  /\ options \in Options
  /\ state = "created"
  /\ startPc = "idle"
  /\ stopPc = "idle"
  /\ stopPromise = FALSE
  /\ aborted = FALSE
  /\ signalHandlers = FALSE
  /\ server = FALSE
  /\ address = FALSE
  /\ socket = "none"
  /\ conns = [c \in Conn |-> "none"]
  /\ timedOut = FALSE
  /\ bus = "stopped"

\* Code that runs to completion: the listeners of emit(), and start() between
\* two awaits.
InSynchronousCode ==
  \/ startPc \in {"emitStart", "setup", "callListen", "emitReady"}
  \/ stopPc = "emitStopping"

\* Promise continuations, timers and I/O events wait for it, and for executeAll's
\* traversal.
EventLoop == ~ InSynchronousCode /\ toVisit = {}

-----------------------------------------------------------------------------
(* start() *)

\* start() up to emit("start"), which is outside its try block.
Start ==
  /\ state = "created"
  /\ state' = "starting"
  /\ startPc' = "emitStart"
  /\ UNCHANGED <<vars, options, stopPc, stopPromise, aborted, signalHandlers,
                 transportVars, bus>>

\* The listeners of "start" return, or one throws and start() rejects.
StartEmitted ==
  /\ startPc = "emitStart"
  /\ \/ startPc' = "setup"
     \/ ListenersThrow /\ startPc' = "rejected"
  /\ UNCHANGED <<vars, options, state, stopPc, stopPromise, aborted, signalHandlers,
                 transportVars, bus>>

\* Variation: the catch block leaves the event bus running.
CatchStartNoBus ==
  /\ startPc' = "rejected"
  /\ state' = "stopped"
  /\ UNCHANGED bus

\* start()'s catch block: with an event bus, its stop() is awaited first.
CatchStart ==
  IF options.eventBus
  THEN /\ startPc' = "cleanup"
       /\ bus' = IF bus = "started" THEN "stopping" ELSE bus
       /\ UNCHANGED state
  ELSE /\ startPc' = "rejected"
       /\ state' = "stopped"
       /\ UNCHANGED bus

\* The catalog check, route building and transport validation may throw; else
\* the event bus, if there is one, is started.
Setup ==
  /\ startPc = "setup"
  /\ \/ CatchStart
     \/ /\ startPc' = IF options.eventBus THEN "busStart" ELSE "callListen"
        /\ bus' = IF options.eventBus THEN "starting" ELSE bus
        /\ UNCHANGED state
  /\ UNCHANGED <<vars, options, stopPc, stopPromise, aborted, signalHandlers,
                 transportVars>>

\* eventBus.start() resolves: its stop() is registered as the hook "eventbus".
BusStarted ==
  /\ EventLoop
  /\ startPc = "busStart"
  /\ AddHook(BusModule, {}, BusHook)
  /\ bus' = "started"
  /\ startPc' = "callListen"
  /\ UNCHANGED <<options, state, stopPc, stopPromise, aborted, signalHandlers,
                 transportVars>>

\* eventBus.start() rejects, having released what it had acquired.
BusStartFails ==
  /\ EventLoop
  /\ startPc = "busStart"
  /\ bus' = "stopped"
  /\ startPc' = "cleanup"
  /\ UNCHANGED <<vars, options, state, stopPc, stopPromise, aborted, signalHandlers,
                 transportVars>>

\* TransportManager.listen is called: the TLS files cannot be read, or the
\* server is created and begins to bind.
CallListen ==
  /\ startPc = "callListen"
  /\ \/ CatchStart /\ UNCHANGED <<server, socket>>
     \/ /\ startPc' = "listen"
        /\ server' = TRUE
        /\ socket' = "binding"
        /\ UNCHANGED <<state, bus>>
  /\ UNCHANGED <<vars, options, stopPc, stopPromise, aborted, signalHandlers,
                 address, conns, timedOut>>

\* The port is bound: state, signal handlers and emit("ready").
Listening ==
  /\ EventLoop
  /\ startPc = "listen"
  /\ socket' = "listening"
  /\ address' = TRUE
  /\ state' = "running"
  /\ signalHandlers' = options.autoShutdown
  /\ startPc' = "emitReady"
  /\ UNCHANGED <<vars, options, stopPc, stopPromise, aborted,
                 server, conns, timedOut, bus>>

\* Binding fails (the port is taken): the server object stays referenced.
ListenFails ==
  /\ EventLoop
  /\ startPc = "listen"
  /\ socket' = "closed"
  /\ CatchStart
  /\ UNCHANGED <<vars, options, stopPc, stopPromise, aborted, signalHandlers,
                 server, address, conns, timedOut>>

\* The listeners of "ready" return and start() resolves, or one throws into
\* start()'s try block.
ReadyEmitted ==
  /\ startPc = "emitReady"
  /\ stopPc # "emitStopping"
  /\ \/ startPc' = "resolved" /\ UNCHANGED <<state, bus>>
     \/ ListenersThrow /\ CatchStart
  /\ UNCHANGED <<vars, options, stopPc, stopPromise, aborted, signalHandlers,
                 transportVars>>

\* The catch block after the event bus has stopped, whatever stop() has done to
\* the state in the meantime.
StartCleanedUp ==
  /\ EventLoop
  /\ startPc = "cleanup"
  /\ bus = "stopped"
  /\ state' = "stopped"
  /\ startPc' = "rejected"
  /\ UNCHANGED <<vars, options, stopPc, stopPromise, aborted, signalHandlers,
                 transportVars, bus>>

-----------------------------------------------------------------------------
(* stop() *)

\* stop(), called by the program, a listener, a hook or a signal handler.  In any
\* other state it changes nothing: it returns _stopPromise or throws.
Stop ==
  /\ CallerCanRun
  /\ state = "running"
  /\ state' = "stopping"
  /\ stopPc' = "emitStopping"
  /\ UNCHANGED <<vars, options, startPc, stopPromise, aborted, signalHandlers, transportVars, bus>>

\* stop() from the return of the "stopping" listeners to performGracefulShutdown's
\* race (a running server has a transport, so its early return is not taken); a
\* listener that throws leaves the state as it is.
StoppingEmitted ==
  /\ stopPc = "emitStopping"
  /\ \/ /\ ListenersThrow
        /\ stopPc' = "threw"
        /\ UNCHANGED <<stopPromise, aborted, signalHandlers, socket>>
     \/ /\ stopPc' = "closing"
        /\ aborted' = TRUE
        /\ stopPromise' = TRUE
        /\ signalHandlers' = FALSE
        /\ socket' = IF socket = "listening" THEN "closing" ELSE socket
  /\ UNCHANGED <<vars, options, state, startPc, server, address, conns, timedOut, bus>>

\* Variation: close() is not awaited.
CloseNotAwaited ==
  /\ EventLoop
  /\ stopPc = "closing"
  /\ socket = "closing"
  /\ stopPc' = "hooks"
  /\ ExecuteAll
  /\ UNCHANGED <<options, state, startPc, stopPromise, aborted, signalHandlers,
                 transportVars, bus>>

\* transport.close() wins the race once no connection is left; the hooks follow.
CloseResolves ==
  /\ EventLoop
  /\ stopPc = "closing"
  /\ socket = "closing"
  /\ \A c \in Conn : conns[c] = "none"
  /\ socket' = "closed"
  /\ stopPc' = "hooks"
  /\ ExecuteAll
  /\ UNCHANGED <<options, state, startPc, stopPromise, aborted, signalHandlers,
                 server, address, conns, timedOut, bus>>

\* The shutdown timer wins: sessions are destroyed if forceCloseOnTimeout is set
\* (only HTTP/2 sessions are known); the hooks follow either way.  A rejection of
\* close() is due before any timer.
TimerFires ==
  /\ EventLoop
  /\ stopPc = "closing"
  /\ socket = "closing"
  /\ timedOut' = TRUE
  /\ conns' = [c \in Conn |-> IF options.forceClose /\ conns[c] = "http2" THEN "none" ELSE conns[c]]
  /\ stopPc' = "hooks"
  /\ ExecuteAll
  /\ UNCHANGED <<options, state, startPc, stopPromise, aborted, signalHandlers,
                 server, address, socket, bus>>

\* Variation: the catch block leaves the state alone.
CatchStopKeepsState ==
  /\ stopPc' = "rejected"
  /\ stopPromise' = FALSE
  /\ UNCHANGED state

\* stop()'s catch block.
CatchStop ==
  /\ state' = "stopped"
  /\ stopPc' = "rejected"
  /\ stopPromise' = FALSE

\* transport.close() rejects: the server was not listening any more.
CloseRejects ==
  /\ EventLoop
  /\ stopPc = "closing"
  /\ socket = "closed"
  /\ CatchStop
  /\ UNCHANGED <<vars, options, startPc, aborted, signalHandlers, transportVars, bus>>

\* Variation: executeAll is not awaited.
HooksNotAwaited ==
  /\ EventLoop
  /\ stopPc = "hooks"
  /\ server' = FALSE
  /\ address' = FALSE
  /\ state' = "stopped"
  /\ stopPc' = "resolved"
  /\ stopPromise' = FALSE
  /\ UNCHANGED <<vars, options, startPc, aborted, signalHandlers,
                 socket, conns, timedOut, bus>>

\* executeAll resolves: the transport is disposed and "stop" emitted; a listener
\* that throws makes stop() reject.
HooksDone ==
  /\ EventLoop
  /\ stopPc = "hooks"
  /\ execution = "resolved"
  /\ server' = FALSE
  /\ address' = FALSE
  /\ \/ /\ state' = "stopped"
        /\ stopPc' = "resolved"
        /\ stopPromise' = FALSE
     \/ ListenersThrow /\ CatchStop
  /\ UNCHANGED <<vars, options, startPc, aborted, signalHandlers,
                 socket, conns, timedOut, bus>>

\* executeAll rejects: the transport is not disposed.
HooksFailed ==
  /\ EventLoop
  /\ stopPc = "hooks"
  /\ execution = "rejected"
  /\ CatchStop
  /\ UNCHANGED <<vars, options, startPc, aborted, signalHandlers, transportVars, bus>>

-----------------------------------------------------------------------------
(* Hooks *)

\* onShutdown, by the program, a listener or a hook.
OnShutdown(name, dependencies, h) ==
  /\ state # "stopped"
  /\ h # BusHook
  /\ AddHook(name, dependencies, h)
  /\ UNCHANGED serverVars

\* The hook "eventbus" calls eventBus.stop() when it is called; being an async
\* function, it does not throw synchronously.
BusHookCalled ==
  /\ ~ (hstate[BusHook] = "idle" /\ hstate'[BusHook] = "failed")
  /\ bus' = IF hstate[BusHook] = "idle" /\ hstate'[BusHook] = "running" /\ bus = "started"
            THEN "stopping" ELSE bus

HookStep(m) ==
  /\ ~ InSynchronousCode
  /\ Visit(m) \/ RunHandlers(m) \/ DependencyFailed(m)
  /\ BusHookCalled
  /\ UNCHANGED <<options, lifecycleVars, transportVars>>

\* A hook's promise settles; that of "eventbus" with eventBus.stop().
HookSettles(m, h, outcome) ==
  /\ EventLoop
  /\ h = BusHook => bus = "stopped"
  /\ HandlerSettles(m, h, outcome)
  /\ UNCHANGED serverVars

HooksSettle ==
  /\ EventLoop
  /\ ExecuteAllSettles
  /\ UNCHANGED serverVars

-----------------------------------------------------------------------------
(* The environment *)

BusStops ==
  /\ EventLoop
  /\ bus = "stopping"
  /\ bus' = "stopped"
  /\ UNCHANGED <<vars, options, lifecycleVars, transportVars>>

Connect(c, protocol) ==
  /\ EventLoop
  /\ socket = "listening"
  /\ conns[c] = "none"
  /\ protocol \in options.protocols
  /\ conns' = [conns EXCEPT ![c] = protocol]
  /\ UNCHANGED <<vars, options, lifecycleVars, server, address, socket, timedOut, bus>>

Disconnect(c) ==
  /\ EventLoop
  /\ conns[c] # "none"
  /\ conns' = [conns EXCEPT ![c] = "none"]
  /\ UNCHANGED <<vars, options, lifecycleVars, server, address, socket, timedOut, bus>>

\* User code closes the server object that server.transport hands out.
UserClosesTransport ==
  /\ TransportExposed
  /\ CallerCanRun
  /\ socket = "listening"
  /\ socket' = "closed"
  /\ UNCHANGED <<vars, options, lifecycleVars, server, address, conns, timedOut, bus>>

-----------------------------------------------------------------------------
StartStep ==
  \/ StartEmitted \/ Setup \/ BusStarted \/ BusStartFails \/ CallListen
  \/ Listening \/ ListenFails \/ ReadyEmitted \/ StartCleanedUp

StopStep ==
  \/ StoppingEmitted \/ CloseResolves \/ TimerFires \/ CloseRejects
  \/ HooksDone \/ HooksFailed

ServerNext ==
  \/ Start \/ Stop
  \/ StartStep \/ StopStep
  \/ \E name \in Module, dependencies \in SUBSET Module, h \in Handler :
       OnShutdown(name, dependencies, h)
  \/ \E m \in Module : HookStep(m)
  \/ \E m \in Module, h \in Handler, outcome \in {"ok", "failed"} : HookSettles(m, h, outcome)
  \/ HooksSettle
  \/ BusStops
  \/ \E c \in Conn, protocol \in {"http1", "http2"} : Connect(c, protocol)
  \/ \E c \in Conn : Disconnect(c)
  \/ UserClosesTransport

allVars == <<vars, serverVars>>

ServerSpec == ServerInit /\ [][ServerNext]_allVars

\* What the event loop, the timer, the operating system's answer to listen(),
\* the event bus and the hooks must eventually do; clients need never leave.
ServerFairness ==
  /\ WF_allVars(StartStep)
  /\ WF_allVars(StopStep)
  /\ \A m \in Module : WF_allVars(HookStep(m))
  /\ \A m \in Module, h \in Handler :
       WF_allVars(\E outcome \in {"ok", "failed"} : HookSettles(m, h, outcome))
  /\ WF_allVars(HooksSettle)
  /\ WF_allVars(BusStops)

FairServerSpec == ServerSpec /\ ServerFairness

-----------------------------------------------------------------------------
(* Properties *)

\* stop() resolves only when everything is released: the hooks registered
\* before executeAll have completed and none is executing, the event bus has
\* stopped, no socket accepts connections, the transport is disposed and the
\* signal handlers are removed.
CleanStop ==
  stopPc = "resolved" =>
    /\ ResolvedIsQuiet /\ execution = "resolved"
    /\ bus = "stopped"
    /\ socket \in {"closing", "closed"}
    /\ ~ server /\ ~ address /\ ~ signalHandlers

\* No hook is called before the handlers were told to abort, the server stopped
\* accepting connections, and the open ones ended or ran out of time: a hook may
\* close what request handlers use.
HooksAfterRequests ==
  \A m \in Module : launched[m] # {} =>
    /\ aborted
    /\ socket # "listening"
    /\ timedOut \/ \A c \in Conn : conns[c] = "none"

\* A start() that fails after the event bus was started stops the bus again,
\* also when a concurrent stop() is shutting it down.
FailedStartStopsBus == startPc = "rejected" => bus = "stopped"

HookCalled == \E m \in Module : launched[m] # {}

\* The contract is about servers whose user code behaves; the others are mapped to
\* a server that is never started.
Behaves == options.faults = {}
Contract == INSTANCE ServerContract WITH
  phase <- IF Behaves THEN state ELSE "created",
  accepting <- (Behaves /\ socket = "listening"),
  hooksCalled <- (Behaves /\ HookCalled)

\* A server whose listeners behave and whose transport is left alone keeps the
\* contract: states in order, connections accepted while running only, hooks
\* only after that, and start() and stop() both come to an end whatever the
\* clients do.
ContractSpec == Contract!Spec
=============================================================================
