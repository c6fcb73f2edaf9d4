----------------------------- MODULE Resilience -----------------------------
(***************************************************************************)
(* The resilience interceptors of packages/interceptors, composed by       *)
(* createDefaultInterceptors() and createMethodFilterInterceptor().  A     *)
(* request goes down the chain to the handler, and its outcome comes back  *)
(* up, one interceptor a step.  The policies themselves are cockatiel's    *)
(* (external), modelled from how the interceptors use them.  The timeout   *)
(* is aggressive: it answers the caller and leaves the work inside it to   *)
(* itself, so a request may be two threads, "inner" and "outer".           *)
(***************************************************************************)
EXTENDS Naturals, Sequences, FiniteSets

CONSTANTS
  Request,         \* the requests there may be, one call of a method each
  Configuration,   \* the configurations considered: methods, options, filters, predicate
  Capacity, QueueSize, Threshold, MaxRetries,  \* options of the interceptors
  RetryableCodes,  \* retryableCodes
  HandlerOutcome,  \* how handlers end: "ok", a code, or "thrown" for other errors
  Undefined        \* a value that is not set

ASSUME LimitsAssumption ==
  Capacity \in Nat \ {0} /\ QueueSize \in Nat /\ Threshold \in Nat \ {0} /\ MaxRetries \in Nat

Interceptor == {"errorHandler", "timeout", "bulkhead", "circuitBreaker", "retry", "fallback"}

\* A method is its service and its own name; there are interceptors for each, and for "*".
ASSUME ConfigurationAssumption ==
  \A c \in Configuration :
    /\ c.streams \subseteq BOOLEAN
    /\ c.filters["*"] \in Seq(Interceptor)
    /\ \A m \in c.methods : c.filters[m[1]] \in Seq(Interceptor) /\ c.filters[m[2]] \in Seq(Interceptor)

ASSUME UndefinedAssumption ==
  Undefined \notin HandlerOutcome \cup [stream : BOOLEAN, chain : Seq(Interceptor)]

VARIABLES
  config,    \* the configuration
  call,      \* call[r]: whether it is a stream, and its interceptors
  thread,    \* thread[r, part]: where it is and what it brings up
  attempts,  \* attempts[r]: the retries of r
  active,    \* the bulkhead: the requests that have a slot
  queue,     \* and the ones that wait for one
  circuit,   \* the breaker: its state, count, current test, may it be tested
  tests,     \* the requests that entered the breaker as a test
  last       \* history: last[r]: how the last call of the handler for r ended

vars == <<config, call, thread, attempts, active, queue, circuit, tests, last>>

-----------------------------------------------------------------------------
(* The chain.  Validation and serialization are part of the handler.       *)

IsOptionsObject(value) == value = "object"

Enabled(options, name) ==
  LET value == options[name] IN
  CASE name = "errorHandler" -> value # "false"
    [] name = "fallback" -> IsOptionsObject(value)
    [] OTHER -> value = "true" \/ IsOptionsObject(value)

\* The interceptor, where the options enable it.
Pushed(name) == IF Enabled(config.options, name) THEN <<name>> ELSE <<>>

\* Variation: the bulkhead outside the timeout.
BulkheadOutside ==
  Pushed("errorHandler") \o Pushed("bulkhead") \o Pushed("timeout") \o Pushed("circuitBreaker") \o Pushed("retry") \o Pushed("fallback")

\* Variation: the retries outside the circuit breaker.
RetryOutside ==
  Pushed("errorHandler") \o Pushed("timeout") \o Pushed("bulkhead") \o Pushed("retry") \o Pushed("circuitBreaker") \o Pushed("fallback")

DefaultInterceptors ==
  Pushed("errorHandler") \o Pushed("timeout") \o Pushed("bulkhead") \o Pushed("circuitBreaker") \o Pushed("retry") \o Pushed("fallback")

\* The interceptors of a method: those of "*", of its service, its own.
MethodFilter(filters, m) == filters["*"] \o filters[m[1]] \o filters[m[2]]

\* The chain a request takes.
ComposeInterceptors(m) == DefaultInterceptors \o MethodFilter(config.filters, m)
Chain(r) == call[r].chain

-----------------------------------------------------------------------------
(* Errors *)

INFRASTRUCTURE_CODES ==
  {"unknown", "deadline_exceeded", "internal", "unavailable", "data_loss", "resource_exhausted"}

DefaultFailurePredicate(error) == error = "thrown" \/ error \in INFRASTRUCTURE_CODES

\* Variation: a predicate that throws rejects the error.
IsFailureUnlessThrown(error) ==
  IF config.predicate = Undefined THEN DefaultFailurePredicate(error)
  ELSE error \in config.predicate.failures \ config.predicate.throws

\* A predicate that throws counts the error.
IsFailure(error) ==
  IF config.predicate = Undefined THEN DefaultFailurePredicate(error)
  ELSE error \in config.predicate.failures \cup config.predicate.throws

\* The error handler gives every error a code.
Normalized(outcome) == IF outcome = "thrown" THEN "internal" ELSE outcome

Retryable(outcome) == outcome # "ok" /\ (IF outcome = "thrown" THEN "unknown" ELSE outcome) \in RetryableCodes

-----------------------------------------------------------------------------
(* Threads *)

NoThread == [at |-> 0, going |-> "none", brings |-> Undefined]

Init ==
  /\ config \in Configuration
  /\ call = [r \in Request |-> Undefined]
  /\ thread = [t \in Request \X {"inner", "outer"} |-> NoThread]
  /\ attempts = [r \in Request |-> 0]
  /\ active = {} /\ queue = <<>>
  /\ circuit = [state |-> "closed", count |-> 0, test |-> Undefined, ripe |-> FALSE]
  /\ tests = {}
  /\ last = [r \in Request |-> Undefined]

Inner(r) == <<r, "inner">>
Outer(r) == <<r, "outer">>

\* Streams pass the resilience interceptors (skipStreaming, which is on by default).
Skips(r, kind) == call[r].stream /\ kind # "errorHandler"

\* A call goes down without an await: the error handler, the timeout (whose timer
\* starts), the retry and the fallback call what is next, the others for a stream.
Stops(r) == {i \in DOMAIN Chain(r) : Chain(r)[i] \in {"bulkhead", "circuitBreaker"} /\ ~ Skips(r, Chain(r)[i])}
Deeper(r, from) ==
  [at |-> CHOOSE i \in Stops(r) \cup {Len(Chain(r)) + 1} :
            i > from /\ \A j \in Stops(r) : j > from => i <= j,
   going |-> "down", brings |-> Undefined]

Down(r) == Deeper(r, thread[Inner(r)].at)
Stays(t, going, brings) == [at |-> thread[t].at, going |-> going, brings |-> brings]
Shallower(t, outcome) == [at |-> thread[t].at - 1, going |-> "up", brings |-> outcome]
Moves(t, th) == thread' = [thread EXCEPT ![t] = th]

\* Is t, going this way, at an interceptor of this kind?
At(t, going, kind) ==
  LET r == t[1] IN
  /\ thread[t].going = going
  /\ thread[t].at \in 1 .. Len(Chain(r))
  /\ Chain(r)[thread[t].at] = kind

Running(r) == thread[Inner(r)].going = "down" /\ thread[Inner(r)].at = Len(Chain(r)) + 1

Arrive(r) ==
  /\ call[r] = Undefined
  /\ UNCHANGED <<config, attempts, active, queue, circuit, tests, last>>
  /\ \E m \in config.methods, stream \in config.streams :
       call' = [call EXCEPT ![r] = [stream |-> stream, chain |-> ComposeInterceptors(m)]]
  /\ thread' = [thread EXCEPT ![Inner(r)] = Deeper(r, 0)']

HandlerReturns(r) ==
  /\ Running(r)
  /\ \E outcome \in HandlerOutcome :
       /\ Moves(Inner(r), Shallower(Inner(r), outcome))
       /\ last' = [last EXCEPT ![r] = outcome]
  /\ UNCHANGED <<config, call, attempts, active, queue, circuit, tests>>

PassUp(t) ==
  /\ \E kind \in {"bulkhead", "circuitBreaker", "timeout", "retry", "fallback"} : At(t, "up", kind) /\ Skips(t[1], kind)
  /\ Moves(t, Shallower(t, thread[t].brings))
  /\ UNCHANGED <<config, call, attempts, active, queue, circuit, tests, last>>

ErrorHandler(t) ==
  /\ At(t, "up", "errorHandler")
  /\ Moves(t, Shallower(t, Normalized(thread[t].brings)))
  /\ UNCHANGED <<config, call, attempts, active, queue, circuit, tests, last>>

\* The outcome leaves the chain: the caller has it.
Answer(t) ==
  /\ thread[t].going = "up" /\ thread[t].at = 0
  /\ Moves(t, [NoThread EXCEPT !.going = "ended"])
  /\ UNCHANGED <<config, call, attempts, active, queue, circuit, tests, last>>

-----------------------------------------------------------------------------
(* timeout.ts *)

TimeoutAt(r) == {i \in DOMAIN Chain(r) : Chain(r)[i] = "timeout"}

\* The timer ends first: the call fails, what it called goes on.
TimesOut(r) ==
  /\ thread[Inner(r)].going \notin {"none", "ended"} /\ ~ Skips(r, "timeout")
  /\ thread[Outer(r)] = NoThread
  /\ \E i \in TimeoutAt(r) :
       /\ i < thread[Inner(r)].at \/ (i = thread[Inner(r)].at /\ thread[Inner(r)].going = "up")
       /\ thread' = [thread EXCEPT ![Outer(r)] = [at |-> i - 1, going |-> "up", brings |-> "deadline_exceeded"]]
  /\ UNCHANGED <<config, call, attempts, active, queue, circuit, tests, last>>

\* The outcome comes before the timer, or too late for anybody.
InTime(r) ==
  LET t == Inner(r) IN
  /\ At(t, "up", "timeout") /\ ~ Skips(r, "timeout")
  /\ Moves(t, IF thread[Outer(r)] = NoThread THEN Shallower(t, thread[t].brings) ELSE [NoThread EXCEPT !.going = "ended"])
  /\ UNCHANGED <<config, call, attempts, active, queue, circuit, tests, last>>

-----------------------------------------------------------------------------
(* bulkhead.ts *)

BulkheadEnter(r) ==
  LET t == Inner(r) IN
  /\ At(t, "down", "bulkhead") /\ ~ Skips(r, "bulkhead")
  /\ \/ /\ Cardinality(active) < Capacity
        /\ active' = active \cup {r} /\ queue' = queue
        /\ Moves(t, Down(r))
     \/ /\ Cardinality(active) >= Capacity /\ Len(queue) < QueueSize
        /\ queue' = Append(queue, r) /\ active' = active
        /\ Moves(t, Stays(t, "queued", Undefined))
     \/ /\ Cardinality(active) >= Capacity /\ Len(queue) >= QueueSize
        /\ Moves(t, Shallower(t, "resource_exhausted"))
        /\ UNCHANGED <<active, queue>>
  /\ UNCHANGED <<config, call, attempts, circuit, tests, last>>

\* The slot goes to the first of the queue.
BulkheadLeave(t) ==
  /\ At(t, "up", "bulkhead") /\ ~ Skips(t[1], "bulkhead")
  /\ IF queue = <<>>
     THEN /\ active' = active \ {t[1]} /\ queue' = queue
          /\ Moves(t, Shallower(t, thread[t].brings))
     ELSE /\ active' = (active \ {t[1]}) \cup {Head(queue)} /\ queue' = Tail(queue)
          /\ thread' = [thread EXCEPT ![t] = Shallower(t, thread[t].brings), ![Inner(Head(queue))] = Down(Head(queue))]
  /\ UNCHANGED <<config, call, attempts, circuit, tests, last>>

-----------------------------------------------------------------------------
(* circuit-breaker.ts *)

\* A half-open circuit lets one request through and the others wait for it.
BreakerEnter(r) ==
  LET t == Inner(r) IN
  /\ At(t, "down", "circuitBreaker") /\ ~ Skips(r, "circuitBreaker")
  /\ \/ /\ circuit.state = "closed"
        /\ Moves(t, Down(r))
        /\ UNCHANGED <<circuit, tests>>
     \/ /\ circuit.state = "open" /\ ~ circuit.ripe
        /\ Moves(t, Shallower(t, "unavailable"))
        /\ UNCHANGED <<circuit, tests>>
     \/ /\ circuit.state = "open" /\ circuit.ripe
        /\ Moves(t, Down(r))
        /\ circuit' = [circuit EXCEPT !.state = "half-open", !.test = r, !.ripe = FALSE]
        /\ tests' = tests \cup {r}
     \/ /\ circuit.state = "half-open"
        /\ Moves(t, Stays(t, "waiting", circuit.test))
        /\ UNCHANGED <<circuit, tests>>
  /\ UNCHANGED <<config, call, attempts, active, queue, last>>

Opened(c) == IF c.state = "open" THEN c ELSE [c EXCEPT !.state = "open", !.test = Undefined, !.ripe = FALSE]
Closed(c) == IF c.state = "half-open" THEN [c EXCEPT !.state = "closed", !.test = Undefined] ELSE c

\* What an outcome of a request that found the circuit closed does to it.
Counted(c, outcome) ==
  IF outcome = "ok" THEN [c EXCEPT !.count = 0]
  ELSE IF ~ IsFailure(outcome) THEN c
  ELSE IF c.count + 1 >= Threshold THEN Opened([c EXCEPT !.count = Threshold])
  ELSE [c EXCEPT !.count = c.count + 1]

\* And the outcome of a test: an error that is no failure closes the circuit and
\* leaves the count as it is, so that the next failure opens it again.
Tested(c, outcome) ==
  IF outcome = "ok" THEN Closed([c EXCEPT !.count = 0])
  ELSE IF ~ IsFailure(outcome) THEN Closed(c)
  ELSE Opened(c)

BreakerLeave(r) ==
  LET t == Inner(r)
      outcome == thread[t].brings
      rejected == {u \in DOMAIN thread : thread[u].going = "waiting" /\ thread[u].brings = r}
  IN
  /\ At(t, "up", "circuitBreaker") /\ ~ Skips(r, "circuitBreaker")
  /\ circuit' = IF r \in tests THEN Tested(circuit, outcome) ELSE Counted(circuit, outcome)
  /\ thread' = [u \in DOMAIN thread |->
                  IF u = t THEN Shallower(t, outcome)
                  ELSE IF u \in rejected THEN Stays(u, "down", Undefined)
                  ELSE thread[u]]
  /\ tests' = tests \ {r}
  /\ UNCHANGED <<config, call, attempts, active, queue, last>>

HalfOpenAfter ==
  /\ circuit.state = "open" /\ ~ circuit.ripe
  /\ circuit' = [circuit EXCEPT !.ripe = TRUE]
  /\ UNCHANGED <<config, call, thread, attempts, active, queue, tests, last>>

-----------------------------------------------------------------------------
(* retry.ts and fallback.ts *)

RetryOrGiveUp(r) ==
  LET t == Inner(r) outcome == thread[t].brings IN
  /\ At(t, "up", "retry") /\ ~ Skips(r, "retry")
  /\ IF Retryable(outcome) /\ attempts[r] < MaxRetries
     THEN /\ attempts' = [attempts EXCEPT ![r] = @ + 1]
          /\ Moves(t, Stays(t, "backoff", Undefined))
     ELSE /\ Moves(t, Shallower(t, outcome))
          /\ attempts' = attempts
  /\ UNCHANGED <<config, call, active, queue, circuit, tests, last>>

\* The delay is over; nothing tells the policy that the caller has gone.
BackoffEnds(r) ==
  /\ At(Inner(r), "backoff", "retry")
  /\ Moves(Inner(r), Down(r))
  /\ UNCHANGED <<config, call, attempts, active, queue, circuit, tests, last>>

\* The fallback's handler may fail too, with an error of its own or the one it got.
Fallback(r) ==
  LET t == Inner(r) IN
  /\ At(t, "up", "fallback") /\ ~ Skips(r, "fallback")
  /\ \E outcome \in IF thread[t].brings = "ok" THEN {"ok"} ELSE {"ok", "thrown"} \cup HandlerOutcome : Moves(t, Shallower(t, outcome))
  /\ UNCHANGED <<config, call, attempts, active, queue, circuit, tests, last>>

-----------------------------------------------------------------------------
Next ==
  \/ HalfOpenAfter
  \/ \E r \in Request :
       \/ Arrive(r) \/ HandlerReturns(r) \/ TimesOut(r) \/ InTime(r) \/ BulkheadEnter(r)
       \/ BreakerEnter(r) \/ BreakerLeave(r) \/ RetryOrGiveUp(r) \/ BackoffEnds(r) \/ Fallback(r)
  \/ \E t \in DOMAIN thread : PassUp(t) \/ ErrorHandler(t) \/ Answer(t) \/ BulkheadLeave(t)

Spec == Init /\ [][Next]_vars

-----------------------------------------------------------------------------
(* What the proofs ask of the filters of a configuration.  The policies of a    *)
(* kind are one in this module, so no chain has two of them.                    *)

\* The filters of a method have no timeout, and a bulkhead only where the options
\* have none.
BulkheadInside ==
  \A c \in Configuration : \A m \in c.methods :
    LET f == MethodFilter(c.filters, m) IN
    \A i \in DOMAIN f :
      /\ f[i] # "timeout"
      /\ f[i] = "bulkhead" => ~ Enabled(c.options, "bulkhead") /\ \A j \in DOMAIN f : f[j] = "bulkhead" => i = j

\* The filters have no circuit breaker, and inside the one of the options nothing
\* but retries and, where the options have one too, fallbacks.
BreakerOutside ==
  \A c \in Configuration : \A m \in c.methods :
    LET f == MethodFilter(c.filters, m) IN
    \A i \in DOMAIN f :
      /\ f[i] # "circuitBreaker"
      /\ Enabled(c.options, "circuitBreaker") => f[i] = "retry" \/ (f[i] = "fallback" /\ Enabled(c.options, "fallback"))

-----------------------------------------------------------------------------
(* Properties *)

Guarded(r, kind) == call[r] # Undefined /\ ~ Skips(r, kind) /\ kind \in {Chain(r)[i] : i \in DOMAIN Chain(r)}

\* Never more handlers run than the bulkhead has slots, the ones whose callers were
\* told that they had timed out included, and retried ones too.
HandlersWithinCapacity ==
  Cardinality({r \in Request : Guarded(r, "bulkhead") /\ Running(r)}) <= Capacity

\* "One logical request increments the failure counter once": the circuit is not
\* closed only if so many requests, not attempts, have failed for good.
CountsRequests ==
  circuit.state # "closed" =>
    Cardinality({r \in Request : last[r] # Undefined /\ last[r] # "ok" /\ ~ Running(r)}) >= Threshold

\* A half-open circuit closes only on the word of a test that did not fail, as the
\* predicate has it; a predicate that throws does not close it.
ClosesOnSuccess ==
  [][circuit.state = "half-open" /\ circuit'.state = "closed" =>
       \E r \in tests \ tests' :
         \/ last[r] = "ok" \/ Enabled(config.options, "fallback")
         \/ IF config.predicate = Undefined THEN ~ DefaultFailurePredicate(last[r])
            ELSE last[r] \notin config.predicate.failures \cup config.predicate.throws]_vars
=============================================================================
