----------------------- MODULE ResilienceHealthProofs ------------------------
(***************************************************************************)
(* Proofs about the two components a server is given from outside: the     *)
(* resilience chain, for any number of requests, any options and limits,   *)
(* and filters that nest as BulkheadInside and BreakerOutside say; and the *)
(* registry of health statuses, for any names, servers and streams.        *)
(***************************************************************************)
EXTENDS Resilience, HealthManager, FiniteSetTheorems, SequenceTheorems, WellFoundedInduction, TLAPS

-----------------------------------------------------------------------------
(* The invariants of the resilience chain *)

Thread == Request \X {"inner", "outer"}
Call == [stream : BOOLEAN, chain : Seq(Interceptor)]

\* Where a call has an interceptor of this kind that it does not pass.
Places(c, kind) == {i \in DOMAIN c.chain : c.chain[i] = kind /\ ~ c.stream}

Circuit == [state : {"closed", "open", "half-open"}, count : Nat, test : Request \cup {Undefined}, ripe : BOOLEAN]

\* A thread that there is not.
Idle(th) == th.going = "none" /\ th.at = 0

Shape ==
  /\ config \in Configuration
  /\ call \in [Request -> Call \cup {Undefined}]
  /\ DOMAIN thread = Thread
  /\ \A t \in Thread : thread[t].at \in Nat
  /\ \A t \in Thread : call[t[1]] = Undefined => Idle(thread[t])
  /\ queue \in Seq(Request)
  /\ circuit \in Circuit
  /\ tests \subseteq Request
  /\ DOMAIN last = Request

\* The queue has every request once, and each of them waits where it came in.
QueueWaits ==
  /\ \A i \in DOMAIN queue :
       /\ thread[Inner(queue[i])].going = "queued"
       /\ thread[Inner(queue[i])].at \in DOMAIN call[queue[i]].chain
  /\ \A i, j \in DOMAIN queue : queue[i] = queue[j] => i = j

Basic == Shape /\ QueueWaits

\* A chain has one bulkhead, and no timeout inside it.
BulkheadOrder(c) ==
  \A i, j \in DOMAIN c : c[j] = "bulkhead" => (c[i] = "bulkhead" => i = j) /\ (c[i] = "timeout" => i < j)

\* A chain has one circuit breaker, no retries outside it and little else inside.
BreakerOrder(options, c) ==
  \A i, j \in DOMAIN c :
    c[j] = "circuitBreaker" =>
      /\ i < j => c[i] # "retry" /\ c[i] # "circuitBreaker"
      /\ j < i => c[i] = "retry" \/ (c[i] = "fallback" /\ Enabled(options, "fallback"))

\* Is a thread inside interceptor b, or leaving it?
Within(th, b) ==
  \/ th.going = "up" /\ th.at >= b
  \/ th.going \in {"down", "queued", "waiting", "backoff"} /\ th.at > b

\* Is it out of interceptor k for good?
Past(th, k) == th.going = "ended" \/ (th.going = "up" /\ th.at < k)

BulkheadInv ==
  /\ \A r \in Request : call[r] # Undefined => BulkheadOrder(call[r].chain)
  /\ IsFiniteSet(active) /\ Cardinality(active) <= Capacity
  /\ \A r \in Request : call[r] # Undefined =>
       \A b \in Places(call[r], "bulkhead") :
         /\ Within(thread[Inner(r)], b) => r \in active
         /\ thread[Outer(r)].at < b

\* What comes up at the circuit breaker is how the last call of the handler ended,
\* unless a fallback has replaced an error.
Truthful(options, outcome, ended) ==
  /\ outcome = "ok" \/ (ended # Undefined /\ ended # "ok")
  /\ outcome = ended \/ Enabled(options, "fallback")

\* The requests that have left the circuit breaker with a handler that failed.
Failed ==
  {r \in Request :
     /\ call[r] # Undefined /\ last[r] # Undefined /\ last[r] # "ok"
     /\ \E k \in Places(call[r], "circuitBreaker") : Past(thread[Inner(r)], k)}

Handled == {r \in Request : last[r] # Undefined}

BreakerInv ==
  /\ \A r \in Request : call[r] # Undefined =>
       /\ BreakerOrder(config.options, call[r].chain)
       /\ \A k \in Places(call[r], "circuitBreaker") :
            thread[Inner(r)].going = "up" /\ thread[Inner(r)].at >= k
              => Truthful(config.options, thread[Inner(r)].brings, last[r])
  /\ IsFiniteSet(Handled)
  /\ circuit.count <= Cardinality(Failed)
  /\ circuit.state # "closed" \/ tests # {} => Cardinality(Failed) >= Threshold

-----------------------------------------------------------------------------
(* The operators *)

\* A set of natural numbers that is not empty has a least one.
LEMMA LeastNat ==
  ASSUME NEW S \in SUBSET Nat, S # {}
  PROVE  \E i \in S : \A j \in S : i <= j
<1>1. IsWellFoundedOn(OpToRel(<, Nat), Nat)
  BY NatLessThanWellFounded
<1>2. PICK i \in S : \A j \in S : ~ (<<j, i>> \in OpToRel(<, Nat))
  BY <1>1, WFMin
<1>3. ASSUME NEW j \in S PROVE i <= j
  <2>1. i \in Nat /\ j \in Nat /\ ~ (j < i)
    BY <1>2 DEF OpToRel
  <2> QED BY <2>1
<1> QED BY <1>3

\* Deeper() finds the first interceptor after this one where a call stops, or the handler.
LEMMA NextStop ==
  ASSUME NEW n \in Nat, NEW S \in SUBSET (1 .. n), NEW from \in Nat, from <= n
  PROVE  LET i == CHOOSE i \in S \cup {n + 1} : i > from /\ \A j \in S : j > from => i <= j IN
         i \in S \cup {n + 1} /\ i > from /\ \A j \in S : j > from => i <= j
<1> DEFINE T == {j \in S \cup {n + 1} : j > from}
<1>1. T \in SUBSET Nat /\ n + 1 \in T
  <2>1. n + 1 \in Nat /\ n + 1 > from /\ \A j \in 1 .. n : j \in Nat
    OBVIOUS
  <2>2. \A j \in S \cup {n + 1} : j \in Nat
    BY <2>1
  <2> QED BY <2>1, <2>2
<1> HIDE DEF T
<1>2. PICK i \in T : \A j \in T : i <= j
  BY <1>1, LeastNat
<1>3. i \in S \cup {n + 1} /\ i > from /\ \A j \in S : j > from => i <= j
  BY <1>2 DEF T
<1> QED BY <1>3

\* A call goes on inside the interceptor it comes from, and passes no bulkhead or
\* circuit breaker that it does not skip.
LEMMA DeeperFacts ==
  ASSUME NEW r \in Request, call[r] \in Call, NEW from \in Nat, from <= Len(call[r].chain)
  PROVE  /\ Deeper(r, from).going = "down"
         /\ Deeper(r, from).at \in Nat
         /\ Deeper(r, from).at > from
         /\ \A b \in Places(call[r], "bulkhead") : b > from => Deeper(r, from).at <= b
<1> DEFINE n == Len(call[r].chain)
           S == Stops(r)
           i == CHOOSE i \in S \cup {n + 1} : i > from /\ \A j \in S : j > from => i <= j
<1>1. n \in Nat /\ DOMAIN call[r].chain = 1 .. n
  BY DEF Call
<1>2. S \in SUBSET (1 .. n)
  BY <1>1 DEF Stops, Chain
<1>3. \A b \in Places(call[r], "bulkhead") : b \in S
  BY DEF Places, Stops, Chain, Skips
<1>4. Deeper(r, from).going = "down" /\ Deeper(r, from).at = i
  BY DEF Deeper, Chain
<1> HIDE DEF n, S
<1>5. i \in S \cup {n + 1} /\ i > from /\ \A j \in S : j > from => i <= j
  BY <1>1, <1>2, NextStop DEF n
<1> HIDE DEF i
<1>6. n + 1 \in Nat /\ \A j \in 1 .. n : j \in Nat
  BY <1>1
<1>7. i \in Nat
  BY <1>2, <1>5, <1>6
<1>8. \A b \in Places(call[r], "bulkhead") : b > from => i <= b
  BY <1>3, <1>5
<1> QED BY <1>4, <1>5, <1>7, <1>8

LEMMA EndedFields ==
  LET th == [NoThread EXCEPT !.going = "ended"] IN th.at = 0 /\ th.going = "ended"
  BY DEF NoThread

-----------------------------------------------------------------------------
(* The order of the chain *)

\* The place of an interceptor in createDefaultInterceptors().
Rank(kind) ==
  IF kind = "errorHandler" THEN 1 ELSE IF kind = "timeout" THEN 2 ELSE IF kind = "bulkhead" THEN 3
  ELSE IF kind = "circuitBreaker" THEN 4 ELSE IF kind = "retry" THEN 5 ELSE 6

\* The interceptors in s are enabled, among the first n, and in their order.
Ranked(s, n) ==
  /\ s \in Seq(Interceptor)
  /\ \A i \in DOMAIN s : Enabled(config.options, s[i]) /\ Rank(s[i]) <= n
  /\ \A i, j \in DOMAIN s : i < j => Rank(s[i]) < Rank(s[j])

LEMMA ConcatCases ==
  ASSUME NEW s \in Seq(Interceptor), NEW t \in Seq(Interceptor)
  PROVE  /\ s \o t \in Seq(Interceptor)
         /\ Len(s) \in Nat
         /\ \A i \in DOMAIN (s \o t) :
              /\ i \in Nat
              /\ \/ i \in DOMAIN s /\ i <= Len(s) /\ (s \o t)[i] = s[i]
                 \/ i - Len(s) \in DOMAIN t /\ i > Len(s) /\ (s \o t)[i] = t[i - Len(s)]
  OBVIOUS

LEMMA PushedRanked ==
  ASSUME NEW s, NEW n \in Nat, Ranked(s, n), NEW kind \in Interceptor, Rank(kind) = n + 1
  PROVE  Ranked(s \o Pushed(kind), n + 1)
<1>1. s \in Seq(Interceptor)
  BY DEF Ranked
<1>2. \A i \in DOMAIN s : Rank(s[i]) \in Nat
  BY DEF Rank
<1>3. CASE ~ Enabled(config.options, kind)
  <2>1. s \o Pushed(kind) = s
    BY <1>1, <1>3 DEF Pushed
  <2>2. \A i \in DOMAIN s : Rank(s[i]) <= n + 1
    BY <1>2 DEF Ranked
  <2> QED BY <2>1, <2>2 DEF Ranked
<1>4. CASE Enabled(config.options, kind)
  <2> DEFINE t == <<kind>>
             u == s \o t
  <2>1. s \o Pushed(kind) = u /\ t \in Seq(Interceptor) /\ DOMAIN t = {1} /\ t[1] = kind
    BY <1>4 DEF Pushed
  <2> HIDE DEF t
  <2>2. /\ u \in Seq(Interceptor) /\ Len(s) \in Nat
        /\ \A i \in DOMAIN u :
             /\ i \in Nat
             /\ \/ i \in DOMAIN s /\ i <= Len(s) /\ u[i] = s[i]
                \/ i - Len(s) \in DOMAIN t /\ i > Len(s) /\ u[i] = t[i - Len(s)]
    BY <1>1, <2>1, ConcatCases
  <2> HIDE DEF u
  <2>3. \A i \in DOMAIN u : i \in Nat /\ ((i \in DOMAIN s /\ u[i] = s[i]) \/ (i = Len(s) + 1 /\ u[i] = kind))
    <3> SUFFICES ASSUME NEW i \in DOMAIN u
                 PROVE  i \in Nat /\ ((i \in DOMAIN s /\ u[i] = s[i]) \/ (i = Len(s) + 1 /\ u[i] = kind))
      OBVIOUS
    <3>1. i \in Nat /\ Len(s) \in Nat
      BY <2>2
    <3>2. CASE i \in DOMAIN s /\ u[i] = s[i]
      BY <3>1, <3>2
    <3>3. CASE i - Len(s) \in DOMAIN t /\ u[i] = t[i - Len(s)]
      <4>1. i - Len(s) = 1 /\ u[i] = kind
        BY <2>1, <3>3
      <4>2. i = Len(s) + 1
        BY <3>1, <4>1
      <4> QED BY <3>1, <4>1, <4>2
    <3> QED BY <2>2, <3>2, <3>3
  <2>4. \A i \in DOMAIN s : i <= Len(s)
    BY <1>1
  <2>5. \A i \in DOMAIN u : Enabled(config.options, u[i]) /\ Rank(u[i]) <= n + 1
    BY <1>2, <1>4, <2>3 DEF Ranked
  <2>6. ASSUME NEW i \in DOMAIN u, NEW j \in DOMAIN u, i < j PROVE Rank(u[i]) < Rank(u[j])
    <3>1. i \in DOMAIN s /\ u[i] = s[i]
      BY <2>2, <2>3, <2>4, <2>6
    <3>2. CASE j \in DOMAIN s /\ u[j] = s[j]
      BY <2>6, <3>1, <3>2 DEF Ranked
    <3>3. CASE u[j] = kind
      <4>1. Rank(s[i]) <= n /\ Rank(s[i]) \in Nat
        BY <1>2, <3>1 DEF Ranked
      <4> QED BY <3>1, <3>3, <4>1
    <3> QED BY <2>3, <3>2, <3>3
  <2> QED BY <2>1, <2>2, <2>5, <2>6 DEF Ranked
<1> QED BY <1>3, <1>4

\* Whatever the options, createDefaultInterceptors() keeps to its order.
LEMMA DefaultRanked == Ranked(DefaultInterceptors, 6)
<1> DEFINE s1 == <<>> \o Pushed("errorHandler")
           s2 == s1 \o Pushed("timeout")
           s3 == s2 \o Pushed("bulkhead")
           s4 == s3 \o Pushed("circuitBreaker")
           s5 == s4 \o Pushed("retry")
           s6 == s5 \o Pushed("fallback")
<1>1. Pushed("errorHandler") \in Seq(Interceptor)
  <2>1. "errorHandler" \in Interceptor
    BY DEF Interceptor
  <2>2. <<"errorHandler">> \in Seq(Interceptor) /\ <<>> \in Seq(Interceptor)
    BY <2>1
  <2> QED BY <2>2 DEF Pushed
<1>2. s1 = Pushed("errorHandler")
  BY <1>1
<1>3. DefaultInterceptors = s6
  BY <1>2 DEF DefaultInterceptors
<1>4. Ranked(<<>>, 0)
  BY DEF Ranked
<1>5. Interceptor = {"errorHandler", "timeout", "bulkhead", "circuitBreaker", "retry", "fallback"}
  BY DEF Interceptor
<1>6. /\ Rank("errorHandler") = 1 /\ Rank("timeout") = 2 /\ Rank("bulkhead") = 3
      /\ Rank("circuitBreaker") = 4 /\ Rank("retry") = 5 /\ Rank("fallback") = 6
  BY DEF Rank
<1> HIDE DEF s1, s2, s3, s4, s5, s6
<1>7. Ranked(s1, 1)
  <2>1. 0 \in Nat /\ 0 + 1 = 1
    OBVIOUS
  <2>2. Ranked(s1, 0 + 1)
    BY <1>4, <1>5, <1>6, <2>1, PushedRanked DEF s1
  <2> QED BY <2>1, <2>2
<1>8. Ranked(s2, 2)
  BY <1>5, <1>6, <1>7, PushedRanked DEF s2
<1>9. Ranked(s3, 3)
  BY <1>5, <1>6, <1>8, PushedRanked DEF s3
<1>10. Ranked(s4, 4)
  BY <1>5, <1>6, <1>9, PushedRanked DEF s4
<1>11. Ranked(s5, 5)
  BY <1>5, <1>6, <1>10, PushedRanked DEF s5
<1>12. Ranked(s6, 6)
  BY <1>5, <1>6, <1>11, PushedRanked DEF s6
<1> QED BY <1>3, <1>12

\* Where the interceptors of a chain come from: the options, or the filters of the method.
LEMMA ChainParts ==
  ASSUME config \in Configuration, NEW m \in config.methods
  PROVE  LET c == ComposeInterceptors(m)
             d == DefaultInterceptors
             f == MethodFilter(config.filters, m)
         IN  /\ c \in Seq(Interceptor) /\ d \in Seq(Interceptor) /\ f \in Seq(Interceptor)
             /\ Len(d) \in Nat
             /\ \A i \in DOMAIN c :
                  /\ i \in Nat
                  /\ \/ i \in DOMAIN d /\ i <= Len(d) /\ c[i] = d[i]
                     \/ i - Len(d) \in DOMAIN f /\ i > Len(d) /\ c[i] = f[i - Len(d)]
<1> DEFINE d == DefaultInterceptors
           f == MethodFilter(config.filters, m)
<1>1. d \in Seq(Interceptor)
  BY DefaultRanked DEF Ranked
<1>2. /\ config.filters["*"] \in Seq(Interceptor)
      /\ config.filters[m[1]] \in Seq(Interceptor) /\ config.filters[m[2]] \in Seq(Interceptor)
  BY ConfigurationAssumption
<1>3. f \in Seq(Interceptor)
  <2>1. config.filters["*"] \o config.filters[m[1]] \in Seq(Interceptor)
    BY <1>2, ConcatCases
  <2> QED BY <1>2, <2>1, ConcatCases DEF MethodFilter
<1>4. ComposeInterceptors(m) = d \o f
  BY DEF ComposeInterceptors
<1> HIDE DEF d, f
<1>5. /\ d \o f \in Seq(Interceptor) /\ Len(d) \in Nat
      /\ \A i \in DOMAIN (d \o f) :
           /\ i \in Nat
           /\ \/ i \in DOMAIN d /\ i <= Len(d) /\ (d \o f)[i] = d[i]
              \/ i - Len(d) \in DOMAIN f /\ i > Len(d) /\ (d \o f)[i] = f[i - Len(d)]
  BY <1>1, <1>3, ConcatCases
<1> QED BY <1>1, <1>3, <1>4, <1>5 DEF d, f

\* The order of two of the default interceptors, by their ranks.
LEMMA RankOrder ==
  ASSUME NEW i \in DOMAIN DefaultInterceptors, NEW j \in DOMAIN DefaultInterceptors,
         Rank(DefaultInterceptors[i]) < Rank(DefaultInterceptors[j])
  PROVE  i < j
<1> DEFINE d == DefaultInterceptors
<1>1. /\ d \in Seq(Interceptor)
      /\ \A x, y \in DOMAIN d : x < y => Rank(d[x]) < Rank(d[y])
  BY DefaultRanked DEF Ranked
<1>2. Rank(d[i]) \in Nat /\ Rank(d[j]) \in Nat
  BY DEF Rank
<1>3. i \in Nat /\ j \in Nat
  BY <1>1
<1> HIDE DEF d
<1>4. Rank(d[i]) < Rank(d[j])
  BY DEF d
<1>5. i # j
  BY <1>2, <1>4
<1>6. ~ (j < i)
  BY <1>1, <1>2, <1>4 DEF d
<1> QED BY <1>3, <1>5, <1>6

\* The timeout is outside the bulkhead in every chain.
LEMMA ChainBulkheadOrder ==
  ASSUME BulkheadInside, config \in Configuration, NEW m \in config.methods
  PROVE  BulkheadOrder(ComposeInterceptors(m))
<1> DEFINE c == ComposeInterceptors(m)
           d == DefaultInterceptors
           f == MethodFilter(config.filters, m)
<1>1. /\ c \in Seq(Interceptor) /\ Len(d) \in Nat
      /\ \A i \in DOMAIN c :
           /\ i \in Nat
           /\ \/ i \in DOMAIN d /\ i <= Len(d) /\ c[i] = d[i]
              \/ i - Len(d) \in DOMAIN f /\ i > Len(d) /\ c[i] = f[i - Len(d)]
  BY ChainParts
<1>2. \A i \in DOMAIN d : Enabled(config.options, d[i])
  BY DefaultRanked DEF Ranked
<1>3. \A i \in DOMAIN f :
        /\ f[i] # "timeout"
        /\ f[i] = "bulkhead" => ~ Enabled(config.options, "bulkhead") /\ \A j \in DOMAIN f : f[j] = "bulkhead" => i = j
  BY DEF BulkheadInside
<1>4. ASSUME NEW i \in DOMAIN d, NEW j \in DOMAIN d, d[i] = "timeout", d[j] = "bulkhead" PROVE i < j
  <2>1. Rank(d[i]) < Rank(d[j])
    BY <1>4 DEF Rank
  <2> QED BY <2>1, RankOrder
<1>5. ASSUME NEW i \in DOMAIN d, NEW j \in DOMAIN d, d[i] = d[j] PROVE i = j
  <2>1. /\ d \in Seq(Interceptor)
        /\ \A x, y \in DOMAIN d : x < y => Rank(d[x]) < Rank(d[y])
    BY DefaultRanked DEF Ranked
  <2>2. i \in Nat /\ j \in Nat
    BY <2>1
  <2>3. Rank(d[i]) \in Nat /\ Rank(d[i]) = Rank(d[j])
    BY <1>5 DEF Rank
  <2> HIDE DEF d
  <2>4. ~ (i < j) /\ ~ (j < i)
    BY <2>1, <2>3
  <2> QED BY <2>2, <2>4
<1> HIDE DEF c, d, f
<1> SUFFICES ASSUME NEW i \in DOMAIN c, NEW j \in DOMAIN c, c[j] = "bulkhead"
             PROVE  (c[i] = "bulkhead" => i = j) /\ (c[i] = "timeout" => i < j)
  BY DEF BulkheadOrder, c
<1>6. i \in Nat /\ j \in Nat
  BY <1>1
<1>7. CASE i \in DOMAIN d /\ c[i] = d[i] /\ j \in DOMAIN d /\ c[j] = d[j]
  BY <1>4, <1>5, <1>7
<1>8. CASE i \in DOMAIN d /\ c[i] = d[i] /\ i <= Len(d) /\ j - Len(d) \in DOMAIN f /\ c[j] = f[j - Len(d)] /\ j > Len(d)
  <2>1. c[i] # "bulkhead"
    BY <1>2, <1>3, <1>8
  <2>2. i < j
    BY <1>1, <1>6, <1>8
  <2> QED BY <2>1, <2>2
<1>9. CASE j \in DOMAIN d /\ c[j] = d[j] /\ i - Len(d) \in DOMAIN f /\ c[i] = f[i - Len(d)]
  BY <1>2, <1>3, <1>9
<1>10. CASE i - Len(d) \in DOMAIN f /\ c[i] = f[i - Len(d)] /\ j - Len(d) \in DOMAIN f /\ c[j] = f[j - Len(d)]
  <2>1. c[i] # "timeout" /\ (c[i] = "bulkhead" => i - Len(d) = j - Len(d))
    BY <1>3, <1>10
  <2>2. i - Len(d) = j - Len(d) => i = j
    BY <1>1, <1>6
  <2> QED BY <2>1, <2>2
<1> QED BY <1>1, <1>7, <1>8, <1>9, <1>10

\* The circuit breaker is outside the retries in every chain.
LEMMA ChainBreakerOrder ==
  ASSUME BreakerOutside, config \in Configuration, NEW m \in config.methods
  PROVE  BreakerOrder(config.options, ComposeInterceptors(m))
<1> DEFINE c == ComposeInterceptors(m)
           d == DefaultInterceptors
           f == MethodFilter(config.filters, m)
<1>1. /\ c \in Seq(Interceptor) /\ d \in Seq(Interceptor) /\ Len(d) \in Nat
      /\ \A i \in DOMAIN c :
           /\ i \in Nat
           /\ \/ i \in DOMAIN d /\ i <= Len(d) /\ c[i] = d[i]
              \/ i - Len(d) \in DOMAIN f /\ i > Len(d) /\ c[i] = f[i - Len(d)]
  BY ChainParts
<1>2. \A i \in DOMAIN d : Enabled(config.options, d[i])
  BY DefaultRanked DEF Ranked
<1>3. \A i \in DOMAIN f :
        /\ f[i] # "circuitBreaker"
        /\ Enabled(config.options, "circuitBreaker") =>
             f[i] = "retry" \/ (f[i] = "fallback" /\ Enabled(config.options, "fallback"))
  BY DEF BreakerOutside
<1>4. \A x, y \in DOMAIN d : x < y => Rank(d[x]) < Rank(d[y])
  BY DefaultRanked DEF Ranked
<1> HIDE DEF c, d, f
<1> SUFFICES ASSUME NEW i \in DOMAIN c, NEW j \in DOMAIN c, c[j] = "circuitBreaker"
             PROVE  /\ i < j => c[i] # "retry" /\ c[i] # "circuitBreaker"
                    /\ j < i => c[i] = "retry" \/ (c[i] = "fallback" /\ Enabled(config.options, "fallback"))
  BY DEF BreakerOrder, c
<1>5. j \in DOMAIN d /\ c[j] = d[j] /\ j <= Len(d) /\ Enabled(config.options, "circuitBreaker")
  BY <1>1, <1>2, <1>3
<1>6. i \in Nat /\ j \in Nat /\ Len(d) \in Nat
  BY <1>1
<1>7. CASE i \in DOMAIN d /\ c[i] = d[i]
  <2>1. d[i] \in Interceptor /\ Enabled(config.options, d[i])
    BY <1>1, <1>2, <1>7
  <2>2. Rank(d[j]) = 4
    BY <1>5 DEF Rank
  <2>3. ASSUME i < j PROVE d[i] # "retry" /\ d[i] # "circuitBreaker"
    <3>1. Rank(d[i]) < 4
      BY <1>4, <1>5, <1>7, <2>2, <2>3
    <3> QED BY <3>1 DEF Rank
  <2>4. ASSUME j < i PROVE d[i] = "retry" \/ d[i] = "fallback"
    <3>1. 4 < Rank(d[i])
      BY <1>4, <1>5, <1>7, <2>2, <2>4
    <3> QED BY <2>1, <3>1 DEF Rank, Interceptor
  <2> QED BY <1>7, <2>1, <2>3, <2>4
<1>8. CASE i - Len(d) \in DOMAIN f /\ i > Len(d) /\ c[i] = f[i - Len(d)]
  <2>1. ~ (i < j)
    BY <1>5, <1>6, <1>8
  <2> QED BY <1>3, <1>5, <1>8, <2>1
<1> QED BY <1>1, <1>7, <1>8

-----------------------------------------------------------------------------
(* How threads move *)

Rose(th, new) == th.going \in {"up", "down"} /\ th.at # 0 /\ new.going = "up" /\ new.at = th.at - 1

Ended(th, new) == th.going = "up" /\ new.going = "ended" /\ new.at = 0

Stood(c, th, new) ==
  /\ new.at = th.at
  /\ \/ th.going = "up" /\ new.going = "backoff" /\ th.at \in DOMAIN c.chain /\ c.chain[th.at] = "retry"
     \/ th.going = "down" /\ new.going \in {"waiting", "queued"}
     \/ th.going = "waiting" /\ new.going = "down"

\* It enters a bulkhead only with a slot.
Sank(c, th, new, slot) ==
  /\ th.going \in {"down", "backoff", "queued"} /\ th.at \in DOMAIN c.chain
  /\ new.going = "down" /\ new.at \in Nat /\ new.at > th.at
  /\ \A b \in Places(c, "bulkhead") : b > th.at => new.at <= b
  /\ c.chain[th.at] = "bulkhead" => slot

Moved(c, th, new, slot) == Rose(th, new) \/ Ended(th, new) \/ Stood(c, th, new) \/ Sank(c, th, new, slot)

\* What a step may do to the threads of a request that is there.
Motion ==
  \A r \in Request : call[r] # Undefined =>
    /\ \/ thread'[Inner(r)] = thread[Inner(r)]
       \/ Moved(call[r], thread[Inner(r)], thread'[Inner(r)], r \in active')
    /\ \/ thread'[Outer(r)].at <= thread[Outer(r)].at
       \/ \E i \in Places(call[r], "timeout") : thread'[Outer(r)].at = i - 1

LEMMA ThreadParts ==
  ASSUME NEW t \in Thread
  PROVE  t[1] \in Request /\ (t = Inner(t[1]) \/ t = Outer(t[1]))
  BY DEF Thread, Inner, Outer

LEMMA ThreadsOf ==
  ASSUME NEW r \in Request
  PROVE  /\ Inner(r) \in Thread /\ Outer(r) \in Thread /\ Inner(r)[1] = r /\ Outer(r)[1] = r
         /\ \A q : Inner(r) # Outer(q)
         /\ \A q : Inner(r) = Inner(q) => q = r
         /\ \A q : Outer(r) = Outer(q) => q = r
  BY DEF Thread, Inner, Outer

\* A thread at an interceptor belongs to a call.
LEMMA AtFacts ==
  ASSUME Shape, NEW t \in Thread, NEW going, going # "none", NEW kind, At(t, going, kind)
  PROVE  LET c == call[t[1]] th == thread[t] IN
         /\ c # Undefined /\ c \in Call
         /\ th.going = going
         /\ th.at \in Nat /\ th.at # 0 /\ th.at - 1 \in Nat /\ th.at <= Len(c.chain)
         /\ th.at \in DOMAIN c.chain /\ c.chain[th.at] = kind
<1>1. t[1] \in Request /\ thread[t].going = going /\ thread[t].at \in Nat
  BY ThreadParts DEF At, Shape
<1>2. call[t[1]] # Undefined
  BY <1>1 DEF Shape, Idle
<1>3. call[t[1]] \in Call
  BY <1>1, <1>2 DEF Shape
<1> DEFINE s == call[t[1]].chain
<1>4. s \in Seq(Interceptor)
  BY <1>3 DEF Call
<1>5. thread[t].at \in 1 .. Len(s) /\ s[thread[t].at] = kind
  BY DEF At, Chain
<1>6. Len(s) \in Nat /\ DOMAIN s = 1 .. Len(s)
  BY <1>4
<1> HIDE DEF s
<1>7. /\ thread[t].at # 0 /\ thread[t].at - 1 \in Nat /\ thread[t].at <= Len(s)
      /\ thread[t].at \in DOMAIN s
  BY <1>1, <1>5, <1>6
<1> QED BY <1>1, <1>2, <1>3, <1>5, <1>7 DEF s

\* One thread moves.
LEMMA MoveStep ==
  ASSUME Basic, NEW t \in Thread, NEW th,
         Moves(t, th), th.at \in Nat,
         call[t[1]] # Undefined, thread[t].going # "queued",
         t = Inner(t[1]) => Moved(call[t[1]], thread[t], th, t[1] \in active'),
         t = Outer(t[1]) => th.at <= thread[t].at,
         UNCHANGED <<config, call, queue>>,
         circuit' \in Circuit, tests' \subseteq Request, DOMAIN last' = Request
  PROVE  Basic' /\ Motion
<1>1. /\ DOMAIN thread = Thread /\ thread' = [thread EXCEPT ![t] = th]
      /\ \A u \in Thread : thread[u].at \in Nat
      /\ \A u \in Thread : call[u[1]] = Undefined => Idle(thread[u])
  BY DEF Basic, Shape, Moves
<1>2. /\ DOMAIN thread' = Thread /\ thread'[t] = th
      /\ \A u \in Thread : u # t => thread'[u] = thread[u]
  BY <1>1
<1>3. Shape'
  <2>1. \A u \in Thread : thread'[u].at \in Nat
    BY <1>1, <1>2
  <2>2. \A u \in Thread : call[u[1]] = Undefined => Idle(thread'[u])
    BY <1>1, <1>2
  <2> QED BY <1>2, <2>1, <2>2 DEF Basic, Shape
<1>4. QueueWaits'
  <2>1. ASSUME NEW i \in DOMAIN queue
        PROVE  thread'[Inner(queue[i])] = thread[Inner(queue[i])]
    <3>1. queue[i] \in Request /\ thread[Inner(queue[i])].going = "queued"
      BY DEF Basic, Shape, QueueWaits
    <3> QED BY <1>2, <3>1, ThreadsOf
  <2> QED BY <2>1 DEF Basic, QueueWaits
<1>5. Motion
  <2> SUFFICES ASSUME NEW r \in Request, call[r] # Undefined
               PROVE  /\ \/ thread'[Inner(r)] = thread[Inner(r)]
                         \/ Moved(call[r], thread[Inner(r)], thread'[Inner(r)], r \in active')
                      /\ thread'[Outer(r)].at <= thread[Outer(r)].at
    BY DEF Motion
  <2>1. Inner(r) \in Thread /\ Outer(r) \in Thread /\ Inner(r)[1] = r /\ Outer(r)[1] = r
    BY ThreadsOf
  <2>2. CASE t = Inner(r)
    <3>1. Outer(r) # t
      BY <2>2, ThreadsOf
    <3>2. thread'[Outer(r)] = thread[Outer(r)] /\ thread[Outer(r)].at \in Nat
      BY <1>1, <1>2, <2>1, <3>1
    <3>3. t[1] = r /\ thread'[Inner(r)] = th
      BY <1>2, <2>1, <2>2
    <3>4. Moved(call[r], thread[Inner(r)], thread'[Inner(r)], r \in active')
      BY <2>2, <3>3
    <3>5. thread'[Outer(r)].at <= thread[Outer(r)].at
      BY <3>2
    <3> QED BY <3>4, <3>5
  <2>3. CASE t = Outer(r)
    <3>1. Inner(r) # t
      BY <2>3, ThreadsOf
    <3>2. t[1] = r /\ thread'[Outer(r)] = th
      BY <1>2, <2>1, <2>3
    <3> QED BY <1>2, <2>1, <2>3, <3>1, <3>2
  <2>4. CASE t # Inner(r) /\ t # Outer(r)
    <3>1. thread'[Outer(r)] = thread[Outer(r)] /\ thread[Outer(r)].at \in Nat /\ thread'[Inner(r)] = thread[Inner(r)]
      BY <1>1, <1>2, <2>1, <2>4
    <3> QED BY <3>1
  <2> QED BY <2>2, <2>3, <2>4
<1> QED BY <1>3, <1>4, <1>5 DEF Basic

\* A thread goes up from an interceptor.
LEMMA RiseStep ==
  ASSUME Basic, NEW t \in Thread, NEW outcome,
         thread[t].going \in {"up", "down"}, thread[t].at # 0,
         Moves(t, Shallower(t, outcome)),
         UNCHANGED <<config, call, queue>>,
         circuit' \in Circuit, tests' \subseteq Request, DOMAIN last' = Request
  PROVE  Basic' /\ Motion
<1> DEFINE th == Shallower(t, outcome)
<1>1. th.going = "up" /\ th.at = thread[t].at - 1
  BY DEF Shallower
<1>2. thread[t].at \in Nat /\ thread[t].at # 0
  BY DEF Basic, Shape
<1> HIDE DEF th
<1>3. th.at \in Nat /\ th.at <= thread[t].at
  BY <1>1, <1>2
<1>4. call[t[1]] # Undefined
  BY DEF Basic, Shape, Idle
<1>5. Moved(call[t[1]], thread[t], th, t[1] \in active')
  BY <1>1 DEF Moved, Rose
<1>6. Moves(t, th)
  BY DEF th
<1> QED BY <1>3, <1>4, <1>5, <1>6, MoveStep

\* A call goes on, from an interceptor to the next one where it stops.
LEMMA SinkStep ==
  ASSUME Basic, NEW r \in Request, NEW going \in {"down", "backoff"}, NEW kind, At(Inner(r), going, kind),
         kind = "bulkhead" => r \in active',
         Moves(Inner(r), Down(r)),
         UNCHANGED <<config, call, queue>>,
         circuit' \in Circuit, tests' \subseteq Request, DOMAIN last' = Request
  PROVE  Basic' /\ Motion
<1> DEFINE t == Inner(r)
           th == Down(r)
<1>1. t \in Thread /\ t[1] = r /\ t = Inner(r)
  BY ThreadsOf
<1>2. Shape /\ going # "none"
  BY DEF Basic
<1>3. /\ call[r] # Undefined /\ call[r] \in Call
      /\ thread[t].going = going
      /\ thread[t].at \in Nat /\ thread[t].at <= Len(call[r].chain)
      /\ thread[t].at \in DOMAIN call[r].chain /\ call[r].chain[thread[t].at] = kind
  BY <1>1, <1>2, AtFacts
<1>4. th = Deeper(r, thread[t].at)
  BY DEF Down
<1> HIDE DEF th
<1>5. /\ th.going = "down" /\ th.at \in Nat /\ th.at > thread[t].at
      /\ \A b \in Places(call[r], "bulkhead") : b > thread[t].at => th.at <= b
  BY <1>3, <1>4, DeeperFacts
<1>6. Moved(call[r], thread[t], th, r \in active')
  BY <1>3, <1>5 DEF Moved, Sank
<1>7. t # Outer(r)
  BY ThreadsOf
<1>8. thread[t].going # "queued" /\ Moves(t, th)
  BY <1>3 DEF th
<1> HIDE DEF t
<1> QED BY <1>1, <1>3, <1>5, <1>6, <1>7, <1>8, MoveStep

\* A call waits where it is.
LEMMA StandStep ==
  ASSUME Basic, NEW r \in Request, NEW going \in {"down", "up"}, NEW kind, At(Inner(r), going, kind),
         NEW next, NEW brings, Moves(Inner(r), Stays(Inner(r), next, brings)),
         \/ going = "up" /\ kind = "retry" /\ next = "backoff"
         \/ going = "down" /\ next = "waiting",
         UNCHANGED <<config, call, queue, last>>,
         circuit' \in Circuit, tests' \subseteq Request
  PROVE  Basic' /\ Motion
<1> DEFINE t == Inner(r)
           th == Stays(t, next, brings)
<1>1. t \in Thread /\ t[1] = r /\ t = Inner(r)
  BY ThreadsOf
<1>2. Shape /\ going # "none"
  BY DEF Basic
<1>3. /\ call[r] # Undefined /\ call[r] \in Call
      /\ thread[t].going = going /\ thread[t].at \in Nat
      /\ thread[t].at \in DOMAIN call[r].chain /\ call[r].chain[thread[t].at] = kind
  BY <1>1, <1>2, AtFacts
<1>4. th.at = thread[t].at /\ th.going = next
  BY DEF Stays
<1> HIDE DEF th
<1>5. Moved(call[r], thread[t], th, r \in active')
  BY <1>3, <1>4 DEF Moved, Stood
<1>6. t # Outer(r)
  BY ThreadsOf
<1>7. thread[t].going # "queued" /\ Moves(t, th) /\ th.at \in Nat /\ DOMAIN last' = Request
  BY <1>3, <1>4 DEF th, Basic, Shape
<1> HIDE DEF t
<1> QED BY <1>1, <1>3, <1>5, <1>6, <1>7, MoveStep

\* A thread that comes up is done.
LEMMA EndStep ==
  ASSUME Basic, NEW t \in Thread, thread[t].going = "up",
         Moves(t, [NoThread EXCEPT !.going = "ended"]),
         UNCHANGED <<config, call, queue, circuit, tests, last>>
  PROVE  Basic' /\ Motion
<1> DEFINE th == [NoThread EXCEPT !.going = "ended"]
<1>1. th.at = 0 /\ th.going = "ended"
  BY EndedFields
<1>2. Moves(t, th)
  OBVIOUS
<1> HIDE DEF th
<1>3. call[t[1]] # Undefined /\ thread[t].at \in Nat
  BY DEF Basic, Shape, Idle
<1>4. Moved(call[t[1]], thread[t], th, t[1] \in active')
  BY <1>1 DEF Moved, Ended
<1>5. th.at \in Nat /\ th.at <= thread[t].at
  BY <1>1, <1>3
<1>6. circuit' \in Circuit /\ tests' \subseteq Request /\ DOMAIN last' = Request
  BY DEF Basic, Shape
<1> QED BY <1>2, <1>3, <1>4, <1>5, <1>6, MoveStep

LEMMA HandlerReturnsMoves ==
  ASSUME Basic, NEW r \in Request, HandlerReturns(r)
  PROVE  Basic' /\ Motion
<1>1. PICK outcome \in HandlerOutcome :
        /\ Moves(Inner(r), Shallower(Inner(r), outcome))
        /\ last' = [last EXCEPT ![r] = outcome]
  BY DEF HandlerReturns
<1>2. Inner(r) \in Thread /\ Inner(r)[1] = r
  BY ThreadsOf
<1>3. thread[Inner(r)].going = "down" /\ thread[Inner(r)].at = Len(call[r].chain) + 1
  BY DEF HandlerReturns, Running, Chain
<1>4. call[r] \in Call
  BY <1>2, <1>3 DEF Basic, Shape, Idle
<1>5. Len(call[r].chain) \in Nat
  BY <1>4 DEF Call
<1>6. thread[Inner(r)].at # 0
  BY <1>3, <1>5
<1>7. /\ UNCHANGED <<config, call, queue>>
      /\ circuit' \in Circuit /\ tests' \subseteq Request /\ DOMAIN last' = Request
  BY <1>1 DEF HandlerReturns, Basic, Shape
<1> QED BY <1>1, <1>2, <1>3, <1>6, <1>7, RiseStep

\* The outcome of an interceptor goes up.
LEMMA UpStep ==
  ASSUME Basic, NEW t \in Thread, NEW kind, At(t, "up", kind), NEW outcome,
         Moves(t, Shallower(t, outcome)),
         UNCHANGED <<config, call, queue, circuit, tests, last>>
  PROVE  Basic' /\ Motion
<1>1. Shape /\ "up" # "none"
  BY DEF Basic
<1>2. thread[t].going = "up" /\ thread[t].at # 0
  BY <1>1, AtFacts
<1>3. circuit' \in Circuit /\ tests' \subseteq Request /\ DOMAIN last' = Request
  BY DEF Basic, Shape
<1> QED BY <1>2, <1>3, RiseStep

LEMMA PassUpMoves ==
  ASSUME Basic, NEW t \in Thread, PassUp(t)
  PROVE  Basic' /\ Motion
  BY UpStep DEF PassUp

LEMMA ErrorHandlerMoves ==
  ASSUME Basic, NEW t \in Thread, ErrorHandler(t)
  PROVE  Basic' /\ Motion
  BY UpStep DEF ErrorHandler

LEMMA AnswerMoves ==
  ASSUME Basic, NEW t \in Thread, Answer(t)
  PROVE  Basic' /\ Motion
  BY EndStep DEF Answer

LEMMA InTimeMoves ==
  ASSUME Basic, NEW r \in Request, InTime(r)
  PROVE  Basic' /\ Motion
<1> DEFINE t == Inner(r)
<1>1. t \in Thread
  BY ThreadsOf
<1>2. At(t, "up", "timeout") /\ UNCHANGED <<config, call, queue, circuit, tests, last>>
  BY DEF InTime
<1>3. CASE thread[Outer(r)] = NoThread
  <2>1. Moves(t, Shallower(t, thread[t].brings))
    BY <1>3 DEF InTime
  <2> QED BY <1>1, <1>2, <2>1, UpStep
<1>4. CASE thread[Outer(r)] # NoThread
  <2>1. Moves(t, [NoThread EXCEPT !.going = "ended"]) /\ thread[t].going = "up"
    BY <1>2, <1>4 DEF InTime, At
  <2> QED BY <1>1, <1>2, <2>1, EndStep
<1> QED BY <1>3, <1>4

LEMMA FallbackMoves ==
  ASSUME Basic, NEW r \in Request, Fallback(r)
  PROVE  Basic' /\ Motion
<1>1. Inner(r) \in Thread
  BY ThreadsOf
<1>2. PICK outcome : Moves(Inner(r), Shallower(Inner(r), outcome))
  BY DEF Fallback
<1> QED BY <1>1, <1>2, UpStep DEF Fallback

LEMMA RetryOrGiveUpMoves ==
  ASSUME Basic, NEW r \in Request, RetryOrGiveUp(r)
  PROVE  Basic' /\ Motion
<1> DEFINE t == Inner(r)
<1>1. t \in Thread
  BY ThreadsOf
<1>2. At(t, "up", "retry") /\ UNCHANGED <<config, call, queue, circuit, tests, last>>
  BY DEF RetryOrGiveUp
<1>3. circuit' \in Circuit /\ tests' \subseteq Request
  BY <1>2 DEF Basic, Shape
<1>4. CASE Retryable(thread[t].brings) /\ attempts[r] < MaxRetries
  <2>1. Moves(t, Stays(t, "backoff", Undefined))
    BY <1>4 DEF RetryOrGiveUp
  <2> QED BY <1>1, <1>2, <1>3, <2>1, StandStep
<1>5. CASE ~ (Retryable(thread[t].brings) /\ attempts[r] < MaxRetries)
  <2>1. Moves(t, Shallower(t, thread[t].brings))
    BY <1>5 DEF RetryOrGiveUp
  <2> QED BY <1>1, <1>2, <2>1, UpStep
<1> QED BY <1>4, <1>5

LEMMA BackoffEndsMoves ==
  ASSUME Basic, NEW r \in Request, BackoffEnds(r)
  PROVE  Basic' /\ Motion
<1>1. circuit' \in Circuit /\ tests' \subseteq Request /\ DOMAIN last' = Request
  BY DEF BackoffEnds, Basic, Shape
<1>2. UNCHANGED <<config, call, queue>> /\ At(Inner(r), "backoff", "retry") /\ Moves(Inner(r), Down(r))
  BY DEF BackoffEnds
<1> QED BY <1>1, <1>2, SinkStep

\* What the outcomes do to the circuit.
LEMMA OpenedFacts ==
  ASSUME NEW c \in Circuit
  PROVE  Opened(c) \in Circuit /\ Opened(c).state = "open" /\ Opened(c).count = c.count
  BY DEF Opened, Circuit

LEMMA ClosedFacts ==
  ASSUME NEW c \in Circuit
  PROVE  /\ Closed(c) \in Circuit /\ Closed(c).count = c.count
         /\ Closed(c).state = IF c.state = "half-open" THEN "closed" ELSE c.state
  BY DEF Closed, Circuit

\* Another count.
LEMMA CountFacts ==
  ASSUME NEW c \in Circuit, NEW n \in Nat
  PROVE  LET d == [c EXCEPT !.count = n] IN d \in Circuit /\ d.state = c.state /\ d.count = n
  BY DEF Circuit

LEMMA CountedFacts ==
  ASSUME NEW c \in Circuit, NEW outcome
  PROVE  LET d == Counted(c, outcome) IN
         /\ d \in Circuit
         /\ d.state = c.state \/ d.state = "open"
         /\ outcome = "ok" \/ ~ IsFailure(outcome) => d.state = c.state /\ d.count <= c.count
         /\ d.count <= c.count + 1 /\ (d.state # c.state => c.count + 1 >= Threshold)
<1>1. c.count \in Nat /\ Threshold \in Nat
  BY LimitsAssumption DEF Circuit
<1>2. CASE outcome = "ok"
  <2>1. Counted(c, outcome) = [c EXCEPT !.count = 0] /\ 0 \in Nat
    BY <1>2 DEF Counted
  <2> QED BY <1>1, <2>1, CountFacts
<1>3. CASE outcome # "ok" /\ ~ IsFailure(outcome)
  BY <1>1, <1>3 DEF Counted
<1>4. CASE outcome # "ok" /\ IsFailure(outcome) /\ c.count + 1 >= Threshold
  <2>1. Counted(c, outcome) = Opened([c EXCEPT !.count = Threshold])
    BY <1>4 DEF Counted
  <2> DEFINE e == [c EXCEPT !.count = Threshold]
  <2>2. /\ Counted(c, outcome) \in Circuit
        /\ Counted(c, outcome).state = "open" /\ Counted(c, outcome).count = Threshold
    <3>1. e \in Circuit /\ e.count = Threshold /\ Counted(c, outcome) = Opened(e)
      BY <1>1, <2>1, CountFacts
    <3> HIDE DEF e
    <3> QED BY <3>1, OpenedFacts
  <2>3. Threshold <= c.count + 1
    BY <1>1, <1>4
  <2> QED BY <1>4, <2>2, <2>3
<1>5. CASE outcome # "ok" /\ IsFailure(outcome) /\ ~ (c.count + 1 >= Threshold)
  <2>1. Counted(c, outcome) = [c EXCEPT !.count = c.count + 1] /\ c.count + 1 \in Nat
    BY <1>1, <1>5 DEF Counted
  <2>2. /\ Counted(c, outcome) \in Circuit
        /\ Counted(c, outcome).state = c.state /\ Counted(c, outcome).count = c.count + 1
    BY <2>1, CountFacts
  <2> QED BY <1>1, <1>5, <2>2
<1> QED BY <1>2, <1>3, <1>4, <1>5

LEMMA TestedFacts ==
  ASSUME NEW c \in Circuit, NEW outcome
  PROVE  LET d == Tested(c, outcome) IN
         /\ d \in Circuit /\ d.count <= c.count
         /\ c.state = "half-open" /\ d.state = "closed" => outcome = "ok" \/ ~ IsFailure(outcome)
<1>1. c.count \in Nat
  BY DEF Circuit
<1>2. CASE outcome # "ok" /\ IsFailure(outcome)
  <2>1. Tested(c, outcome) = Opened(c)
    BY <1>2 DEF Tested
  <2> QED BY <1>1, <2>1, OpenedFacts
<1>3. CASE outcome # "ok" /\ ~ IsFailure(outcome)
  <2>1. Tested(c, outcome) = Closed(c)
    BY <1>3 DEF Tested
  <2> QED BY <1>1, <1>3, <2>1, ClosedFacts
<1>4. CASE outcome = "ok"
  <2>1. Tested(c, outcome) = Closed([c EXCEPT !.count = 0]) /\ 0 \in Nat
    BY <1>4 DEF Tested
  <2> DEFINE e == [c EXCEPT !.count = 0]
  <2>2. Tested(c, outcome) \in Circuit /\ Tested(c, outcome).count = 0
    <3>1. e \in Circuit /\ e.count = 0 /\ Tested(c, outcome) = Closed(e)
      BY <2>1, CountFacts
    <3> HIDE DEF e
    <3> QED BY <3>1, ClosedFacts
  <2> QED BY <1>1, <1>4, <2>2
<1> QED BY <1>2, <1>3, <1>4

LEMMA BreakerEnterMoves ==
  ASSUME Basic, NEW r \in Request, BreakerEnter(r)
  PROVE  Basic' /\ Motion
<1> DEFINE t == Inner(r)
<1>1. t \in Thread
  BY ThreadsOf
<1>2. At(t, "down", "circuitBreaker") /\ UNCHANGED <<config, call, queue, last>>
  BY DEF BreakerEnter
<1>3. DOMAIN last' = Request /\ circuit \in Circuit /\ tests \subseteq Request /\ Shape
  BY <1>2 DEF Basic, Shape
<1>4. circuit' \in Circuit /\ tests' \subseteq Request
  <2>1. CASE UNCHANGED <<circuit, tests>>
    BY <1>3, <2>1
  <2>2. CASE /\ circuit' = [circuit EXCEPT !.state = "half-open", !.test = r, !.ripe = FALSE]
             /\ tests' = tests \cup {r}
    BY <1>3, <2>2 DEF Circuit
  <2> QED BY <2>1, <2>2 DEF BreakerEnter
<1>5. CASE Moves(t, Down(r))
  BY <1>2, <1>3, <1>4, <1>5, SinkStep
<1>6. CASE Moves(t, Shallower(t, "unavailable"))
  <2>1. thread[t].going = "down" /\ thread[t].at # 0
    BY <1>1, <1>2, <1>3, AtFacts
  <2> QED BY <1>1, <1>2, <1>3, <1>4, <1>6, <2>1, RiseStep
<1>7. CASE Moves(t, Stays(t, "waiting", circuit.test))
  BY <1>2, <1>3, <1>4, <1>7, StandStep
<1> QED BY <1>5, <1>6, <1>7 DEF BreakerEnter

\* The requests that wait for a test go on when it is over.
LEMMA BreakerLeaveThreads ==
  ASSUME Basic, NEW r \in Request, BreakerLeave(r)
  PROVE  /\ DOMAIN thread' = Thread
         /\ thread'[Inner(r)].going = "up" /\ thread'[Inner(r)].at = thread[Inner(r)].at - 1
         /\ \A u \in Thread : u # Inner(r) =>
              \/ thread'[u] = thread[u]
              \/ thread[u].going = "waiting" /\ thread'[u].going = "down" /\ thread'[u].at = thread[u].at
<1> DEFINE t == Inner(r)
           rejected == {u \in DOMAIN thread : thread[u].going = "waiting" /\ thread[u].brings = r}
<1>1. t \in Thread /\ DOMAIN thread = Thread
  BY ThreadsOf DEF Basic, Shape
<1>2. thread' = [u \in DOMAIN thread |->
                   IF u = t THEN Shallower(t, thread[t].brings)
                   ELSE IF u \in rejected THEN Stays(u, "down", Undefined) ELSE thread[u]]
  BY DEF BreakerLeave
<1>3. \A u \in rejected : thread[u].going = "waiting"
  OBVIOUS
<1> HIDE DEF rejected, t
<1>4. DOMAIN thread' = Thread /\ thread'[t] = Shallower(t, thread[t].brings)
  BY <1>1, <1>2
<1>5. \A u \in Thread : u # t => thread'[u] = IF u \in rejected THEN Stays(u, "down", Undefined) ELSE thread[u]
  BY <1>1, <1>2
<1>6. \A u \in Thread : u # t =>
        \/ thread'[u] = thread[u]
        \/ thread[u].going = "waiting" /\ thread'[u].going = "down" /\ thread'[u].at = thread[u].at
  <2>1. \A u : Stays(u, "down", Undefined).going = "down" /\ Stays(u, "down", Undefined).at = thread[u].at
    BY DEF Stays
  <2> QED BY <1>3, <1>5, <2>1
<1>7. thread'[t].going = "up" /\ thread'[t].at = thread[t].at - 1
  BY <1>4 DEF Shallower
<1> QED BY <1>4, <1>6, <1>7 DEF t

LEMMA BreakerLeaveMoves ==
  ASSUME Basic, NEW r \in Request, BreakerLeave(r)
  PROVE  Basic' /\ Motion
<1> DEFINE t == Inner(r)
<1>1. t \in Thread /\ t[1] = r /\ Shape /\ "up" # "none"
  BY ThreadsOf DEF Basic
<1>2. At(t, "up", "circuitBreaker") /\ UNCHANGED <<config, call, queue, last, active>>
  BY DEF BreakerLeave
<1>3. /\ call[r] # Undefined /\ thread[t].going = "up"
      /\ thread[t].at # 0 /\ thread[t].at - 1 \in Nat
  BY <1>1, <1>2, AtFacts
<1>4. /\ DOMAIN thread' = Thread
      /\ thread'[t].going = "up" /\ thread'[t].at = thread[t].at - 1
      /\ \A u \in Thread : u # t =>
           \/ thread'[u] = thread[u]
           \/ thread[u].going = "waiting" /\ thread'[u].going = "down" /\ thread'[u].at = thread[u].at
  BY BreakerLeaveThreads
<1>5. circuit' \in Circuit /\ tests' \subseteq Request
  BY <1>1, TestedFacts, CountedFacts DEF BreakerLeave, Shape
<1> HIDE DEF t
<1>6. Shape'
  <2>1. \A u \in Thread : thread'[u].at \in Nat
    BY <1>1, <1>3, <1>4 DEF Shape
  <2>2. \A u \in Thread : call[u[1]] = Undefined => Idle(thread'[u])
    BY <1>1, <1>3, <1>4 DEF Shape, Idle
  <2> QED BY <1>1, <1>2, <1>4, <1>5, <2>1, <2>2 DEF Shape
<1>7. QueueWaits'
  <2>1. ASSUME NEW i \in DOMAIN queue
        PROVE  thread'[Inner(queue[i])] = thread[Inner(queue[i])]
    <3>1. queue[i] \in Request /\ thread[Inner(queue[i])].going = "queued"
      BY DEF Basic, Shape, QueueWaits
    <3>2. Inner(queue[i]) \in Thread /\ Inner(queue[i]) # t
      BY <1>3, <3>1, ThreadsOf
    <3> QED BY <1>4, <3>1, <3>2
  <2> QED BY <1>2, <2>1 DEF Basic, QueueWaits
<1>8. Motion
  <2> SUFFICES ASSUME NEW q \in Request, call[q] # Undefined
               PROVE  /\ \/ thread'[Inner(q)] = thread[Inner(q)]
                         \/ Moved(call[q], thread[Inner(q)], thread'[Inner(q)], q \in active')
                      /\ thread'[Outer(q)].at <= thread[Outer(q)].at
    BY DEF Motion
  <2>1. Inner(q) \in Thread /\ Outer(q) \in Thread /\ Outer(q) # t
    BY ThreadsOf DEF t
  <2>2. thread'[Outer(q)].at = thread[Outer(q)].at /\ thread[Outer(q)].at \in Nat
    BY <1>1, <1>4, <2>1 DEF Shape
  <2>3. thread'[Outer(q)].at <= thread[Outer(q)].at
    BY <2>2
  <2>4. CASE Inner(q) = t
    BY <1>3, <1>4, <2>3, <2>4 DEF Moved, Rose
  <2>5. CASE Inner(q) # t
    BY <1>4, <2>1, <2>3, <2>5 DEF Moved, Stood
  <2> QED BY <2>4, <2>5
<1> QED BY <1>6, <1>7, <1>8 DEF Basic

\* A request that finds no slot goes to the end of the queue.
LEMMA EnqueueMoves ==
  ASSUME Basic, NEW r \in Request, At(Inner(r), "down", "bulkhead"),
         queue' = Append(queue, r), Moves(Inner(r), Stays(Inner(r), "queued", Undefined)),
         UNCHANGED <<config, call, circuit, tests, last>>
  PROVE  Basic' /\ Motion
<1> DEFINE t == Inner(r)
           th == Stays(t, "queued", Undefined)
<1>1. t \in Thread /\ t[1] = r /\ Shape /\ "down" # "none"
  BY ThreadsOf DEF Basic
<1>2. /\ call[r] # Undefined /\ thread[t].going = "down" /\ thread[t].at \in Nat
      /\ thread[t].at \in DOMAIN call[r].chain
  BY <1>1, AtFacts
<1>3. th.going = "queued" /\ th.at = thread[t].at
  BY DEF Stays
<1>4. thread' = [thread EXCEPT ![t] = th] /\ DOMAIN thread = Thread
  BY <1>1 DEF Moves, Shape
<1> HIDE DEF th, t
<1>5. /\ DOMAIN thread' = Thread /\ thread'[t] = th
      /\ \A u \in Thread : u # t => thread'[u] = thread[u]
  BY <1>1, <1>4
<1>6. queue \in Seq(Request) /\ queue' \in Seq(Request)
  BY <1>1 DEF Shape
<1>7. \A i \in DOMAIN queue : queue[i] \in Request /\ thread[Inner(queue[i])].going = "queued" /\ Inner(queue[i]) # t
  BY <1>2, <1>6 DEF Basic, QueueWaits
<1>8. Shape'
  <2>1. \A u \in Thread : thread'[u].at \in Nat
    BY <1>1, <1>2, <1>3, <1>5 DEF Shape
  <2>2. \A u \in Thread : call[u[1]] = Undefined => Idle(thread'[u])
    BY <1>1, <1>2, <1>5 DEF Shape
  <2> QED BY <1>1, <1>5, <1>6, <2>1, <2>2 DEF Shape
<1>9. QueueWaits'
  <2>1. \A i \in DOMAIN queue' : (i \in DOMAIN queue /\ queue'[i] = queue[i]) \/ (i = Len(queue) + 1 /\ queue'[i] = r)
    BY <1>6
  <2>2. \A i \in DOMAIN queue : thread'[Inner(queue[i])] = thread[Inner(queue[i])]
    BY <1>5, <1>7, ThreadsOf
  <2>3. \A i \in DOMAIN queue' :
          /\ thread'[Inner(queue'[i])].going = "queued"
          /\ thread'[Inner(queue'[i])].at \in DOMAIN call[queue'[i]].chain
    BY <1>2, <1>3, <1>5, <2>1, <2>2 DEF Basic, QueueWaits, t
  <2>4. \A i, j \in DOMAIN queue' : queue'[i] = queue'[j] => i = j
    <3>1. \A i \in DOMAIN queue : queue[i] # r
      BY <1>7 DEF t
    <3> QED BY <2>1, <3>1 DEF Basic, QueueWaits
  <2> QED BY <2>3, <2>4 DEF QueueWaits
<1>10. Motion
  <2> SUFFICES ASSUME NEW q \in Request, call[q] # Undefined
               PROVE  /\ \/ thread'[Inner(q)] = thread[Inner(q)]
                         \/ Moved(call[q], thread[Inner(q)], thread'[Inner(q)], q \in active')
                      /\ thread'[Outer(q)].at <= thread[Outer(q)].at
    BY DEF Motion
  <2>1. Inner(q) \in Thread /\ Outer(q) \in Thread /\ Outer(q) # t
    BY ThreadsOf DEF t
  <2>2. thread'[Outer(q)] = thread[Outer(q)] /\ thread[Outer(q)].at \in Nat
    BY <1>1, <1>5, <2>1 DEF Shape
  <2>3. thread'[Outer(q)].at <= thread[Outer(q)].at
    BY <2>2
  <2>4. CASE Inner(q) = t
    BY <1>2, <1>3, <1>5, <2>3, <2>4 DEF Moved, Stood
  <2>5. CASE Inner(q) # t
    BY <1>5, <2>1, <2>3, <2>5
  <2> QED BY <2>4, <2>5
<1> QED BY <1>8, <1>9, <1>10 DEF Basic

LEMMA BulkheadEnterMoves ==
  ASSUME Basic, NEW r \in Request, BulkheadEnter(r)
  PROVE  Basic' /\ Motion
<1> DEFINE t == Inner(r)
<1>1. t \in Thread /\ Shape /\ "down" # "none"
  BY ThreadsOf DEF Basic
<1>2. At(t, "down", "bulkhead") /\ UNCHANGED <<config, call, circuit, tests, last>>
  BY DEF BulkheadEnter
<1>3. circuit' \in Circuit /\ tests' \subseteq Request /\ DOMAIN last' = Request
  BY <1>1, <1>2 DEF Shape
<1>4. CASE active' = active \cup {r} /\ queue' = queue /\ Moves(t, Down(r))
  <2>1. r \in active'
    BY <1>4
  <2> QED BY <1>2, <1>3, <1>4, <2>1, SinkStep
<1>5. CASE queue' = Append(queue, r) /\ Moves(t, Stays(t, "queued", Undefined))
  BY <1>2, <1>5, EnqueueMoves
<1>6. CASE Moves(t, Shallower(t, "resource_exhausted")) /\ UNCHANGED <<active, queue>>
  <2>1. thread[t].going = "down" /\ thread[t].at # 0
    BY <1>1, <1>2, AtFacts
  <2> QED BY <1>1, <1>2, <1>3, <1>6, <2>1, RiseStep
<1> QED BY <1>4, <1>5, <1>6 DEF BulkheadEnter

\* The slot of a request that leaves goes to the first of the queue.
LEMMA HandOverMoves ==
  ASSUME Basic, NEW t \in Thread, BulkheadLeave(t), queue # <<>>
  PROVE  Basic' /\ Motion
<1> DEFINE h == Head(queue)
           u == Inner(h)
           up == Shallower(t, thread[t].brings)
           down == Down(h)
<1>1. Shape /\ QueueWaits /\ "up" # "none" /\ queue \in Seq(Request)
  BY DEF Basic, Shape
<1>2. /\ At(t, "up", "bulkhead") /\ UNCHANGED <<config, call, circuit, tests, last>>
      /\ thread' = [thread EXCEPT ![t] = up, ![u] = down]
      /\ h \in active' /\ queue' = Tail(queue)
  BY DEF BulkheadLeave
<1>3. /\ call[t[1]] # Undefined /\ thread[t].going = "up"
      /\ thread[t].at \in Nat /\ thread[t].at # 0 /\ thread[t].at - 1 \in Nat
  BY <1>1, <1>2, AtFacts
<1>4. up.going = "up" /\ up.at = thread[t].at - 1
  BY DEF Shallower
<1>5. /\ Len(queue) \in Nat /\ DOMAIN queue = 1 .. Len(queue) /\ 1 \in DOMAIN queue /\ h = queue[1] /\ h \in Request
      /\ queue' \in Seq(Request)
      /\ \A i \in DOMAIN queue' : i + 1 \in DOMAIN queue /\ queue'[i] = queue[i + 1] /\ i \in Nat /\ i # 0
  BY <1>1, <1>2
<1> HIDE DEF up, h
<1>6. /\ u \in Thread /\ u[1] = h
      /\ thread[u].going = "queued" /\ thread[u].at \in DOMAIN call[h].chain /\ thread[u].at \in Nat
  BY <1>1, <1>5, ThreadsOf DEF QueueWaits, Shape
<1>7. call[h] # Undefined /\ call[h] \in Call
  BY <1>1, <1>5, <1>6 DEF Shape, Idle
<1>8. thread[u].at <= Len(call[h].chain)
  <2>1. call[h].chain \in Seq(Interceptor)
    BY <1>7 DEF Call
  <2> QED BY <1>6, <2>1
<1>9. down = Deeper(h, thread[u].at)
  BY DEF Down
<1> HIDE DEF down, u
<1>10. /\ down.going = "down" /\ down.at \in Nat /\ down.at > thread[u].at
       /\ \A b \in Places(call[h], "bulkhead") : b > thread[u].at => down.at <= b
  BY <1>5, <1>6, <1>7, <1>8, <1>9, DeeperFacts
<1>11. t # u /\ DOMAIN thread = Thread
  BY <1>1, <1>3, <1>6 DEF Shape
<1>12. /\ DOMAIN thread' = Thread /\ thread'[t] = up /\ thread'[u] = down
       /\ \A v \in Thread : v # t /\ v # u => thread'[v] = thread[v]
  BY <1>2, <1>6, <1>11
<1>13. Shape'
  <2>1. \A v \in Thread : thread'[v].at \in Nat
    BY <1>1, <1>3, <1>4, <1>10, <1>12 DEF Shape
  <2>2. \A v \in Thread : call[v[1]] = Undefined => Idle(thread'[v])
    BY <1>1, <1>3, <1>6, <1>7, <1>12 DEF Shape
  <2> QED BY <1>1, <1>2, <1>5, <1>12, <2>1, <2>2 DEF Shape
<1>14. QueueWaits'
  <2>1. ASSUME NEW i \in DOMAIN queue'
        PROVE  /\ thread'[Inner(queue'[i])].going = "queued"
               /\ thread'[Inner(queue'[i])].at \in DOMAIN call[queue'[i]].chain
    <3>1. i + 1 \in DOMAIN queue /\ queue'[i] = queue[i + 1] /\ i + 1 # 1
      BY <1>5
    <3>2. queue[i + 1] # h /\ queue[i + 1] \in Request
      BY <1>1, <1>5, <3>1 DEF QueueWaits
    <3>3. /\ thread[Inner(queue[i + 1])].going = "queued"
          /\ thread[Inner(queue[i + 1])].at \in DOMAIN call[queue[i + 1]].chain
      BY <1>1, <3>1 DEF QueueWaits
    <3>4. Inner(queue[i + 1]) \in Thread /\ Inner(queue[i + 1]) # u
      BY <1>5, <3>2, ThreadsOf DEF u
    <3>5. Inner(queue[i + 1]) # t
      BY <1>3, <3>3
    <3>6. thread'[Inner(queue[i + 1])] = thread[Inner(queue[i + 1])]
      BY <1>12, <3>4, <3>5
    <3> QED BY <3>1, <3>3, <3>6
  <2>2. ASSUME NEW i \in DOMAIN queue', NEW j \in DOMAIN queue', queue'[i] = queue'[j]
        PROVE  i = j
    <3>1. i \in Nat /\ j \in Nat /\ i + 1 = j + 1
      BY <1>1, <1>5, <2>2 DEF QueueWaits
    <3> QED BY <3>1
  <2> QED BY <1>2, <2>1, <2>2 DEF QueueWaits
<1>15. Motion
  <2> SUFFICES ASSUME NEW q \in Request, call[q] # Undefined
               PROVE  /\ \/ thread'[Inner(q)] = thread[Inner(q)]
                         \/ Moved(call[q], thread[Inner(q)], thread'[Inner(q)], q \in active')
                      /\ thread'[Outer(q)].at <= thread[Outer(q)].at
    BY DEF Motion
  <2>1. Inner(q) \in Thread /\ Outer(q) \in Thread /\ Outer(q) # u
    BY <1>5, ThreadsOf DEF u
  <2>2. thread'[Outer(q)].at <= thread[Outer(q)].at
    <3>1. thread[Outer(q)].at \in Nat
      BY <1>1, <2>1 DEF Shape
    <3>2. CASE Outer(q) = t
      BY <1>3, <1>4, <1>12, <3>2
    <3>3. CASE Outer(q) # t
      <4>1. thread'[Outer(q)] = thread[Outer(q)]
        BY <1>12, <2>1, <3>3
      <4> QED BY <3>1, <4>1
    <3> QED BY <3>2, <3>3
  <2>3. CASE Inner(q) = t
    BY <1>3, <1>4, <1>12, <2>2, <2>3 DEF Moved, Rose
  <2>4. CASE Inner(q) = u
    <3>1. q = h /\ h \in active'
      BY <1>2, <1>5, <2>4, ThreadsOf DEF u
    <3>2. Moved(call[q], thread[Inner(q)], thread'[Inner(q)], q \in active')
      BY <1>6, <1>10, <1>12, <2>4, <3>1 DEF Moved, Sank
    <3> QED BY <2>2, <3>2
  <2>5. CASE Inner(q) # t /\ Inner(q) # u
    BY <1>12, <2>1, <2>2, <2>5
  <2> QED BY <2>3, <2>4, <2>5
<1> QED BY <1>13, <1>14, <1>15 DEF Basic

LEMMA BulkheadLeaveMoves ==
  ASSUME Basic, NEW t \in Thread, BulkheadLeave(t)
  PROVE  Basic' /\ Motion
<1>1. CASE queue = <<>>
  <2>1. /\ At(t, "up", "bulkhead") /\ Moves(t, Shallower(t, thread[t].brings))
        /\ UNCHANGED <<config, call, queue, circuit, tests, last>>
    BY <1>1 DEF BulkheadLeave
  <2> QED BY <2>1, UpStep
<1>2. CASE queue # <<>>
  BY <1>2, HandOverMoves
<1> QED BY <1>1, <1>2

\* The timer of a timeout ends: another thread goes up from there.
LEMMA TimesOutMoves ==
  ASSUME Basic, NEW r \in Request, TimesOut(r)
  PROVE  Basic' /\ Motion
<1> DEFINE t == Outer(r)
<1>1. /\ t \in Thread /\ t[1] = r /\ Inner(r) \in Thread /\ Inner(r)[1] = r
      /\ \A q \in Request : Inner(q) # t /\ (Outer(q) = t => q = r)
      /\ Shape /\ DOMAIN thread = Thread
  BY ThreadsOf DEF Basic, Shape
<1>2. thread[Inner(r)].going # "none" /\ ~ call[r].stream /\ UNCHANGED <<config, call, active, queue, circuit, tests, last>>
  BY DEF TimesOut, Skips
<1>3. call[r] # Undefined /\ call[r] \in Call
  BY <1>1, <1>2 DEF Shape, Idle
<1>4. PICK i \in TimeoutAt(r) :
        thread' = [thread EXCEPT ![t] = [at |-> i - 1, going |-> "up", brings |-> "deadline_exceeded"]]
  BY DEF TimesOut
<1>5. i \in Places(call[r], "timeout")
  BY <1>2 DEF TimeoutAt, Places, Chain
<1>6. i - 1 \in Nat
  <2>1. call[r].chain \in Seq(Interceptor)
    BY <1>3 DEF Call
  <2>2. i \in DOMAIN call[r].chain
    BY <1>5 DEF Places
  <2> QED BY <2>1, <2>2
<1> HIDE DEF t
<1>7. /\ DOMAIN thread' = Thread /\ thread'[t].at = i - 1
      /\ \A u \in Thread : u # t => thread'[u] = thread[u]
  BY <1>1, <1>4
<1>8. Shape'
  <2>1. \A u \in Thread : thread'[u].at \in Nat
    BY <1>1, <1>6, <1>7 DEF Shape
  <2>2. \A u \in Thread : call[u[1]] = Undefined => Idle(thread'[u])
    BY <1>1, <1>3, <1>7 DEF Shape
  <2> QED BY <1>1, <1>2, <1>7, <2>1, <2>2 DEF Shape
<1>9. QueueWaits'
  <2>1. \A i1 \in DOMAIN queue : queue[i1] \in Request
    BY <1>1 DEF Shape
  <2>2. \A i1 \in DOMAIN queue : thread'[Inner(queue[i1])] = thread[Inner(queue[i1])]
    BY <1>1, <1>7, <2>1, ThreadsOf
  <2> QED BY <1>2, <2>2 DEF Basic, QueueWaits
<1>10. Motion
  <2> SUFFICES ASSUME NEW q \in Request, call[q] # Undefined
               PROVE  /\ thread'[Inner(q)] = thread[Inner(q)]
                      /\ \/ thread'[Outer(q)].at <= thread[Outer(q)].at
                         \/ \E j \in Places(call[q], "timeout") : thread'[Outer(q)].at = j - 1
    BY DEF Motion
  <2>1. Inner(q) \in Thread /\ Outer(q) \in Thread /\ thread[Outer(q)].at \in Nat
    BY <1>1, ThreadsOf DEF Shape
  <2>2. thread'[Inner(q)] = thread[Inner(q)]
    BY <1>1, <1>7, <2>1
  <2>3. CASE Outer(q) = t
    BY <1>1, <1>5, <1>7, <2>2, <2>3
  <2>4. CASE Outer(q) # t
    <3>1. thread'[Outer(q)] = thread[Outer(q)]
      BY <1>7, <2>1, <2>4
    <3>2. thread'[Outer(q)].at <= thread[Outer(q)].at
      BY <2>1, <3>1
    <3> QED BY <2>2, <3>2
  <2> QED BY <2>3, <2>4
<1> QED BY <1>8, <1>9, <1>10 DEF Basic

\* A request that arrives comes to the first interceptor where it stops.
LEMMA ArriveFacts ==
  ASSUME Basic, NEW r \in Request, Arrive(r)
  PROVE  \E m \in config.methods :
           /\ call' = [call EXCEPT ![r] = call'[r]] /\ call'[r] \in Call /\ call'[r].chain = ComposeInterceptors(m)
           /\ thread' = [thread EXCEPT ![Inner(r)] = thread'[Inner(r)]]
           /\ thread'[Inner(r)].going = "down" /\ thread'[Inner(r)].at \in Nat
           /\ \A b \in Places(call'[r], "bulkhead") : thread'[Inner(r)].at <= b
<1>1. Shape /\ Inner(r) \in Thread /\ DOMAIN thread = Thread /\ DOMAIN call = Request
  BY ThreadsOf DEF Basic, Shape
<1>2. PICK m \in config.methods, stream \in config.streams :
        call' = [call EXCEPT ![r] = [stream |-> stream, chain |-> ComposeInterceptors(m)]]
  BY DEF Arrive
<1>3. ComposeInterceptors(m) \in Seq(Interceptor) /\ stream \in BOOLEAN
  BY <1>1, <1>2, ChainParts, ConfigurationAssumption DEF Shape
<1> DEFINE c == [stream |-> stream, chain |-> ComposeInterceptors(m)]
           n == Len(c.chain)
           S == {i \in DOMAIN c.chain : c.chain[i] \in {"bulkhead", "circuitBreaker"} /\ ~ (c.stream /\ c.chain[i] # "errorHandler")}
           i == CHOOSE i \in S \cup {n + 1} : i > 0 /\ \A j \in S : j > 0 => i <= j
<1>4. c \in Call /\ c.chain = ComposeInterceptors(m)
  BY <1>3 DEF Call
<1>5. call' = [call EXCEPT ![r] = c] /\ call'[r] = c
  BY <1>1, <1>2
<1> HIDE DEF c
<1>6. n \in Nat /\ DOMAIN c.chain = 1 .. n /\ 0 \in Nat /\ 0 <= n
  BY <1>4 DEF Call
<1>7. S \in SUBSET (1 .. n)
  BY <1>6
<1>8. \A b \in Places(c, "bulkhead") : b \in S /\ b > 0
  <2>1. \A b \in 1 .. n : b > 0
    BY <1>6
  <2> QED BY <1>6, <2>1 DEF Places
<1>9. thread' = [thread EXCEPT ![Inner(r)] = [at |-> i, going |-> "down", brings |-> Undefined]]
  BY <1>5 DEF Arrive, Deeper, Stops, Chain, Skips
<1> HIDE DEF S, n
<1>10. i \in S \cup {n + 1} /\ \A j \in S : j > 0 => i <= j
  BY <1>6, <1>7, NextStop
<1> HIDE DEF i
<1>11. i \in Nat
  <2>1. n + 1 \in Nat /\ \A j \in 1 .. n : j \in Nat
    BY <1>6
  <2> QED BY <1>7, <1>10, <2>1
<1>12. /\ thread'[Inner(r)].going = "down" /\ thread'[Inner(r)].at = i
       /\ thread' = [thread EXCEPT ![Inner(r)] = thread'[Inner(r)]]
  BY <1>1, <1>9
<1> QED BY <1>4, <1>5, <1>8, <1>10, <1>11, <1>12

LEMMA ArriveMoves ==
  ASSUME Basic, NEW r \in Request, Arrive(r)
  PROVE  Basic' /\ Motion
<1> DEFINE t == Inner(r)
<1>1. /\ t \in Thread /\ Shape /\ DOMAIN thread = Thread /\ call \in [Request -> Call \cup {Undefined}]
      /\ \A q \in Request : Outer(q) # t /\ (Inner(q) = t => q = r)
  BY ThreadsOf DEF Basic, Shape
<1>2. /\ call' = [call EXCEPT ![r] = call'[r]] /\ call'[r] \in Call
      /\ thread' = [thread EXCEPT ![t] = thread'[t]]
      /\ thread'[t].at \in Nat
  BY ArriveFacts
<1>3. call[r] = Undefined /\ UNCHANGED <<config, active, queue, circuit, tests, last>>
  BY DEF Arrive
<1>4. call'[r] # Undefined
  BY <1>2, UndefinedAssumption DEF Call
<1>5. thread[t].going = "none"
  BY <1>1, <1>3, ThreadsOf DEF Shape, Idle
<1> HIDE DEF t
<1>6. DOMAIN thread' = Thread /\ \A u \in Thread : u # t => thread'[u] = thread[u]
  BY <1>1, <1>2
<1>7. call' \in [Request -> Call \cup {Undefined}] /\ \A q \in Request : q # r => call'[q] = call[q]
  BY <1>1, <1>2
<1>8. Shape'
  <2>1. \A u \in Thread : thread'[u].at \in Nat
    BY <1>1, <1>2, <1>6 DEF Shape
  <2>2. ASSUME NEW u \in Thread, call'[u[1]] = Undefined PROVE Idle(thread'[u])
    <3>1. u[1] \in Request /\ u[1] # r
      BY <1>4, <2>2, ThreadParts
    <3>2. u # t
      BY <3>1, ThreadsOf DEF t
    <3> QED BY <1>1, <1>6, <1>7, <2>2, <3>1, <3>2 DEF Shape
  <2> QED BY <1>1, <1>3, <1>6, <1>7, <2>1, <2>2 DEF Shape
<1>9. QueueWaits'
  <2>1. \A i \in DOMAIN queue : queue[i] \in Request /\ thread[Inner(queue[i])].going = "queued"
    BY <1>1 DEF Shape, Basic, QueueWaits
  <2>2. \A i \in DOMAIN queue : queue[i] # r /\ Inner(queue[i]) \in Thread /\ Inner(queue[i]) # t
    BY <1>1, <1>5, <2>1, ThreadsOf DEF t
  <2>3. \A i \in DOMAIN queue : thread'[Inner(queue[i])] = thread[Inner(queue[i])] /\ call'[queue[i]] = call[queue[i]]
    BY <1>6, <1>7, <2>1, <2>2
  <2> QED BY <1>3, <2>3 DEF Basic, QueueWaits
<1>10. Motion
  <2> SUFFICES ASSUME NEW q \in Request, call[q] # Undefined
               PROVE  thread'[Inner(q)] = thread[Inner(q)] /\ thread'[Outer(q)].at <= thread[Outer(q)].at
    BY DEF Motion
  <2>1. q # r /\ Inner(q) \in Thread /\ Outer(q) \in Thread
    BY <1>3, ThreadsOf
  <2>2. /\ thread'[Inner(q)] = thread[Inner(q)] /\ thread'[Outer(q)] = thread[Outer(q)]
        /\ thread[Outer(q)].at \in Nat
    BY <1>1, <1>6, <2>1 DEF Shape
  <2> QED BY <2>2
<1> QED BY <1>8, <1>9, <1>10 DEF Basic

\* Nothing moves.
LEMMA StillMoves ==
  ASSUME Basic, UNCHANGED <<config, call, thread, queue, tests, last>>, circuit' \in Circuit
  PROVE  Basic' /\ Motion
<1>1. Shape'
  BY DEF Basic, Shape
<1>2. QueueWaits'
  BY DEF Basic, QueueWaits
<1>3. Motion
  <2> SUFFICES ASSUME NEW q \in Request
               PROVE  thread'[Outer(q)].at <= thread[Outer(q)].at
    BY DEF Motion
  <2>1. thread'[Outer(q)].at = thread[Outer(q)].at /\ thread[Outer(q)].at \in Nat
    BY ThreadsOf DEF Basic, Shape
  <2> QED BY <2>1
<1> QED BY <1>1, <1>2, <1>3 DEF Basic

LEMMA HalfOpenAfterMoves ==
  ASSUME Basic, HalfOpenAfter
  PROVE  Basic' /\ Motion
<1>1. circuit' \in Circuit
  BY DEF HalfOpenAfter, Basic, Shape, Circuit
<1> QED BY <1>1, StillMoves DEF HalfOpenAfter

LEMMA InitBasic == Init => Basic
<1> SUFFICES ASSUME Init PROVE Basic
  OBVIOUS
<1>1. /\ DOMAIN thread = Thread /\ \A t \in Thread : thread[t] = NoThread
  BY DEF Init, Thread
<1>2. NoThread.at = 0 /\ NoThread.going = "none"
  BY DEF NoThread
<1>3. Shape
  <2>1. \A t \in Thread : thread[t].at \in Nat /\ Idle(thread[t])
    BY <1>1, <1>2 DEF Idle
  <2>2. circuit \in Circuit
    BY DEF Init, Circuit
  <2>3. call \in [Request -> Call \cup {Undefined}]
    BY DEF Init
  <2> QED BY <1>1, <2>1, <2>2, <2>3 DEF Init, Shape
<1>4. QueueWaits
  BY DEF Init, QueueWaits
<1> QED BY <1>3, <1>4 DEF Basic

LEMMA NextMoves ==
  ASSUME Basic, [Next]_vars
  PROVE  Basic' /\ Motion
<1>1. CASE HalfOpenAfter
  BY <1>1, HalfOpenAfterMoves
<1>2. ASSUME NEW r \in Request,
             \/ Arrive(r) \/ HandlerReturns(r) \/ TimesOut(r) \/ InTime(r) \/ BulkheadEnter(r)
             \/ BreakerEnter(r) \/ BreakerLeave(r) \/ RetryOrGiveUp(r) \/ BackoffEnds(r) \/ Fallback(r)
      PROVE  Basic' /\ Motion
  BY <1>2, ArriveMoves, HandlerReturnsMoves, TimesOutMoves, InTimeMoves, BulkheadEnterMoves, BreakerEnterMoves,
     BreakerLeaveMoves, RetryOrGiveUpMoves, BackoffEndsMoves, FallbackMoves
<1>3. ASSUME NEW t \in DOMAIN thread, PassUp(t) \/ ErrorHandler(t) \/ Answer(t) \/ BulkheadLeave(t)
      PROVE  Basic' /\ Motion
  <2>1. t \in Thread
    BY DEF Basic, Shape
  <2> QED BY <1>3, <2>1, PassUpMoves, ErrorHandlerMoves, AnswerMoves, BulkheadLeaveMoves
<1>4. CASE UNCHANGED vars
  <2>1. circuit' \in Circuit /\ UNCHANGED <<config, call, thread, queue, tests, last>>
    BY <1>4 DEF Basic, Shape, vars
  <2> QED BY <2>1, StillMoves
<1> QED BY <1>1, <1>2, <1>3, <1>4 DEF Next

-----------------------------------------------------------------------------
(* The bulkhead *)

\* Calls do not change, but for the one that arrives.
LEMMA CallStep ==
  ASSUME [Next]_vars
  PROVE  call' = call \/ \E r \in Request : Arrive(r)
  BY DEF Next, vars, HalfOpenAfter, HandlerReturns, TimesOut, InTime, BulkheadEnter, BreakerEnter, BreakerLeave,
         RetryOrGiveUp, BackoffEnds, Fallback, PassUp, ErrorHandler, Answer, BulkheadLeave

LEMMA ActiveStep ==
  ASSUME Basic, [Next]_vars
  PROVE  \/ active' = active
         \/ \E r \in Request : BulkheadEnter(r)
         \/ \E t \in Thread : BulkheadLeave(t)
  BY DEF Next, vars, HalfOpenAfter, Arrive, HandlerReturns, TimesOut, InTime, BreakerEnter, BreakerLeave,
         RetryOrGiveUp, BackoffEnds, Fallback, PassUp, ErrorHandler, Answer, Basic, Shape

\* A thread comes to be inside a bulkhead only with a slot.
LEMMA WithinMoved ==
  ASSUME NEW c \in Call, NEW th, th.at \in Nat, NEW new, NEW slot,
         NEW b \in Places(c, "bulkhead"), Moved(c, th, new, slot), Within(new, b)
  PROVE  Within(th, b) \/ slot
<1>1. c.chain \in Seq(Interceptor)
  BY DEF Call
<1>2. b \in DOMAIN c.chain /\ c.chain[b] = "bulkhead"
  BY DEF Places
<1>3. b \in Nat
  BY <1>1, <1>2
<1>4. CASE Rose(th, new)
  <2>1. th.at - 1 >= b /\ th.going \in {"up", "down"}
    BY <1>4 DEF Rose, Within
  <2>2. th.at > b /\ th.at >= b
    BY <1>3, <2>1
  <2> QED BY <2>1, <2>2 DEF Within
<1>5. CASE Ended(th, new)
  BY <1>5 DEF Ended, Within
<1>6. CASE Stood(c, th, new)
  <2>1. th.at > b /\ th.going \in {"up", "down", "waiting"}
    BY <1>6 DEF Stood, Within
  <2>2. th.at >= b
    BY <1>3, <2>1
  <2> QED BY <2>1, <2>2 DEF Within
<1>7. CASE Sank(c, th, new, slot)
  <2>1. new.at > b /\ new.at \in Nat /\ th.going \in {"down", "backoff", "queued"}
    BY <1>7 DEF Sank, Within
  <2>2. ~ (b > th.at)
    <3>1. b > th.at => new.at <= b
      BY <1>7 DEF Sank
    <3> QED BY <1>3, <2>1, <3>1
  <2>3. CASE th.at = b
    BY <1>2, <1>7, <2>3 DEF Sank
  <2>4. CASE th.at # b
    <3>1. th.at > b
      BY <1>3, <2>2, <2>4
    <3> QED BY <2>1, <3>1 DEF Within
  <2> QED BY <2>3, <2>4
<1> QED BY <1>4, <1>5, <1>6, <1>7 DEF Moved

\* The thread that leaves the bulkhead has its slot; no caller that timed out does it.
LEMMA LeaverHolds ==
  ASSUME Basic, BulkheadInv, NEW t \in Thread, BulkheadLeave(t)
  PROVE  LET r == t[1] IN
         /\ r \in Request /\ t = Inner(r) /\ call[r] # Undefined /\ r \in active
         /\ thread[t].at \in Places(call[r], "bulkhead") /\ thread[t].at \in Nat
         /\ thread'[t].going = "up" /\ thread'[t].at = thread[t].at - 1
         /\ active \ {r} \subseteq active'
<1> DEFINE r == t[1]
           b == thread[t].at
<1>1. Shape /\ "up" # "none" /\ r \in Request /\ (t = Inner(r) \/ t = Outer(r))
  BY ThreadParts DEF Basic
<1>2. At(t, "up", "bulkhead") /\ ~ call[r].stream
  BY DEF BulkheadLeave, Skips
<1>3. /\ call[r] # Undefined /\ call[r] \in Call /\ thread[t].going = "up"
      /\ b \in Nat /\ b \in DOMAIN call[r].chain /\ call[r].chain[b] = "bulkhead"
  BY <1>1, <1>2, AtFacts
<1>4. b \in Places(call[r], "bulkhead")
  BY <1>2, <1>3 DEF Places
<1>5. thread[Outer(r)].at < b /\ (Within(thread[Inner(r)], b) => r \in active)
  BY <1>1, <1>3, <1>4 DEF BulkheadInv
<1>6. t = Inner(r)
  BY <1>1, <1>3, <1>5
<1>7. b >= b
  BY <1>3
<1>8. r \in active
  BY <1>3, <1>5, <1>6, <1>7 DEF Within
<1> DEFINE up == Shallower(t, thread[t].brings)
<1>9. up.going = "up" /\ up.at = b - 1
  BY DEF Shallower
<1> HIDE DEF up
<1>10. thread'[t] = up /\ active \ {r} \subseteq active'
  <2>1. DOMAIN thread = Thread
    BY <1>1 DEF Shape
  <2>2. CASE queue = <<>>
    BY <2>1, <2>2 DEF BulkheadLeave, Moves, up
  <2>3. CASE queue # <<>>
    <3>1. queue \in Seq(Request) /\ QueueWaits
      BY <1>1 DEF Shape, Basic
    <3>2. 1 \in DOMAIN queue /\ Head(queue) = queue[1] /\ Head(queue) \in Request
      BY <2>3, <3>1
    <3>3. thread[Inner(Head(queue))].going = "queued"
      BY <3>1, <3>2 DEF QueueWaits
    <3>4. Inner(Head(queue)) \in Thread /\ Inner(Head(queue)) # t
      BY <1>3, <3>2, <3>3, ThreadsOf
    <3>5. /\ thread' = [thread EXCEPT ![t] = up, ![Inner(Head(queue))] = Down(Head(queue))]
          /\ active' = (active \ {r}) \cup {Head(queue)}
      BY <2>3 DEF BulkheadLeave, up
    <3> QED BY <2>1, <3>4, <3>5
  <2> QED BY <2>2, <2>3
<1> QED BY <1>1, <1>3, <1>4, <1>6, <1>8, <1>9, <1>10

\* Slots are never more than there may be.
LEMMA SlotsBounded ==
  ASSUME Basic, BulkheadInv, [Next]_vars
  PROVE  IsFiniteSet(active') /\ Cardinality(active') <= Capacity
<1>1. IsFiniteSet(active) /\ Cardinality(active) <= Capacity /\ Cardinality(active) \in Nat /\ Capacity \in Nat
  BY LimitsAssumption, FS_CardinalityType DEF BulkheadInv
<1>2. CASE active' = active
  BY <1>1, <1>2
<1>3. ASSUME NEW r \in Request, BulkheadEnter(r), active' # active
      PROVE  IsFiniteSet(active') /\ Cardinality(active') <= Capacity
  <2>1. Cardinality(active) < Capacity /\ active' = active \cup {r}
    BY <1>3 DEF BulkheadEnter
  <2>2. r \notin active
    BY <1>3, <2>1
  <2>3. IsFiniteSet(active') /\ Cardinality(active') = Cardinality(active) + 1
    BY <1>1, <2>1, <2>2, FS_AddElement
  <2> QED BY <1>1, <2>1, <2>3
<1>4. ASSUME NEW t \in Thread, BulkheadLeave(t)
      PROVE  IsFiniteSet(active') /\ Cardinality(active') <= Capacity
  <2> DEFINE r == t[1]
             rest == active \ {r}
  <2>1. r \in active
    BY <1>4, LeaverHolds
  <2>2. IsFiniteSet(rest) /\ Cardinality(rest) = Cardinality(active) - 1
    BY <1>1, <2>1, FS_RemoveElement
  <2>3. Cardinality(rest) \in Nat /\ Cardinality(rest) + 1 <= Capacity
    BY <1>1, <2>2, FS_CardinalityType
  <2>4. active' = rest \/ active' = rest \cup {Head(queue)}
    BY <1>4 DEF BulkheadLeave
  <2> HIDE DEF rest
  <2>5. CASE active' = rest
    BY <1>1, <2>2, <2>3, <2>5
  <2>6. CASE active' = rest \cup {Head(queue)}
    <3>1. IsFiniteSet(active') /\ (Cardinality(active') = Cardinality(rest) \/ Cardinality(active') = Cardinality(rest) + 1)
      BY <2>2, <2>6, FS_AddElement
    <3> QED BY <1>1, <2>3, <3>1
  <2> QED BY <2>4, <2>5, <2>6
<1> QED BY <1>2, <1>3, <1>4, ActiveStep

LEMMA InitBulkhead == Init => BulkheadInv
<1> SUFFICES ASSUME Init PROVE BulkheadInv
  OBVIOUS
<1>1. \A r \in Request : call[r] = Undefined
  BY DEF Init
<1>2. IsFiniteSet(active) /\ Cardinality(active) <= Capacity
  <2>1. active = {} /\ Capacity \in Nat
    BY LimitsAssumption DEF Init
  <2>2. IsFiniteSet(active) /\ Cardinality(active) = 0
    BY <2>1, FS_EmptySet
  <2> QED BY <2>1, <2>2
<1> QED BY <1>1, <1>2 DEF BulkheadInv

\* What BulkheadInv says of one request.
HasSlot(c, inner, outer, slot) ==
  /\ BulkheadOrder(c.chain)
  /\ \A b \in Places(c, "bulkhead") : (Within(inner, b) => slot) /\ outer.at < b

\* It stays true of a request that was there,
LEMMA SlotKept ==
  ASSUME Basic, BulkheadInv, Basic', Motion, [Next]_vars,
         NEW r \in Request, call[r] # Undefined, call'[r] = call[r]
  PROVE  HasSlot(call'[r], thread'[Inner(r)], thread'[Outer(r)], r \in active')
<1> DEFINE c == call[r]
<1>1. /\ c \in Call /\ thread[Inner(r)].at \in Nat /\ thread[Outer(r)].at \in Nat
      /\ thread'[Inner(r)].at \in Nat /\ thread'[Outer(r)].at \in Nat
  BY ThreadsOf DEF Basic, Shape
<1>2. BulkheadOrder(c.chain)
  BY DEF BulkheadInv
<1>3. ASSUME NEW b \in Places(c, "bulkhead")
      PROVE  /\ b \in Nat /\ b \in DOMAIN c.chain /\ c.chain[b] = "bulkhead"
             /\ Within(thread[Inner(r)], b) => r \in active
             /\ thread[Outer(r)].at < b
  <2>1. c.chain \in Seq(Interceptor)
    BY <1>1 DEF Call
  <2> QED BY <2>1 DEF Places, BulkheadInv
<1>4. ASSUME NEW b \in Places(c, "bulkhead") PROVE thread'[Outer(r)].at < b
  <2>1. b \in Nat /\ thread[Outer(r)].at < b /\ b \in DOMAIN c.chain /\ c.chain[b] = "bulkhead"
    BY <1>3
  <2>2. CASE thread'[Outer(r)].at <= thread[Outer(r)].at
    BY <1>1, <2>1, <2>2
  <2>3. ASSUME NEW i \in Places(c, "timeout"), thread'[Outer(r)].at = i - 1
        PROVE  thread'[Outer(r)].at < b
    <3>1. i \in DOMAIN c.chain /\ c.chain[i] = "timeout" /\ c.chain \in Seq(Interceptor)
      BY <1>1 DEF Places, Call
    <3>2. i < b
      BY <1>2, <2>1, <3>1 DEF BulkheadOrder
    <3>3. i \in Nat
      BY <3>1
    <3> QED BY <2>1, <2>3, <3>2, <3>3
  <2> QED BY <2>2, <2>3 DEF Motion
<1>5. ASSUME NEW b \in Places(c, "bulkhead"), Within(thread'[Inner(r)], b)
      PROVE  r \in active'
  <2>1. Within(thread[Inner(r)], b) \/ r \in active'
    <3>1. \/ thread'[Inner(r)] = thread[Inner(r)]
          \/ Moved(c, thread[Inner(r)], thread'[Inner(r)], r \in active')
      BY DEF Motion
    <3> HIDE DEF c
    <3>2. CASE thread'[Inner(r)] = thread[Inner(r)]
      BY <1>5, <3>2
    <3>3. CASE Moved(c, thread[Inner(r)], thread'[Inner(r)], r \in active')
      <4> DEFINE slot == r \in active'
                 th == thread[Inner(r)]
                 new == thread'[Inner(r)]
      <4>1. c \in Call /\ th.at \in Nat /\ b \in Places(c, "bulkhead") /\ Moved(c, th, new, slot) /\ Within(new, b)
        BY <1>1, <1>5, <3>3
      <4> HIDE DEF slot, th, new
      <4>2. Within(th, b) \/ slot
        BY <4>1, WithinMoved
      <4> QED BY <4>2 DEF slot, th
    <3> QED BY <3>1, <3>2, <3>3
  <2>2. r \in active \/ r \in active'
    BY <1>3, <2>1
  <2>3. CASE active' = active
    BY <2>2, <2>3
  <2>4. ASSUME NEW q \in Request, BulkheadEnter(q) PROVE r \in active'
    BY <2>2, <2>4 DEF BulkheadEnter
  <2>5. ASSUME NEW t \in Thread, BulkheadLeave(t) PROVE r \in active'
    <3>1. /\ t = Inner(t[1]) /\ thread[t].at \in Places(call[t[1]], "bulkhead")
          /\ thread'[t].going = "up" /\ thread'[t].at = thread[t].at - 1
          /\ active \ {t[1]} \subseteq active'
      BY <2>5, LeaverHolds
    <3>2. CASE t[1] = r
      <4>1. thread[t].at \in Places(c, "bulkhead") /\ t = Inner(r)
        BY <3>1, <3>2
      <4>2. thread[t].at = b
        BY <1>2, <1>3, <4>1 DEF BulkheadOrder
      <4>3. b \in Nat /\ thread'[Inner(r)].going = "up" /\ thread'[Inner(r)].at = b - 1
        BY <1>3, <3>1, <4>1, <4>2
      <4>4. ~ (b - 1 >= b)
        BY <4>3
      <4> QED BY <1>5, <4>3, <4>4 DEF Within
    <3>3. CASE t[1] # r
      BY <2>2, <3>1, <3>3
    <3> QED BY <3>2, <3>3
  <2> QED BY <2>3, <2>4, <2>5, ActiveStep
<1> QED BY <1>2, <1>4, <1>5 DEF HasSlot

\* and is true of one that arrives.
LEMMA SlotArrives ==
  ASSUME BulkheadInside, Basic, NEW r \in Request, Arrive(r)
  PROVE  HasSlot(call'[r], thread'[Inner(r)], thread'[Outer(r)], r \in active')
<1>1. PICK m \in config.methods :
        /\ call'[r] \in Call /\ call'[r].chain = ComposeInterceptors(m)
        /\ thread' = [thread EXCEPT ![Inner(r)] = thread'[Inner(r)]]
        /\ thread'[Inner(r)].going = "down" /\ thread'[Inner(r)].at \in Nat
        /\ \A b \in Places(call'[r], "bulkhead") : thread'[Inner(r)].at <= b
  BY ArriveFacts
<1>2. BulkheadOrder(call'[r].chain)
  BY <1>1, ChainBulkheadOrder DEF Basic, Shape
<1>3. \A b \in Places(call'[r], "bulkhead") : b \in Nat /\ 0 < b
  <2>1. call'[r].chain \in Seq(Interceptor)
    BY <1>1 DEF Call
  <2>2. \A b \in DOMAIN call'[r].chain : b \in Nat /\ 0 < b
    BY <2>1
  <2> QED BY <2>2 DEF Places
<1>4. thread'[Outer(r)].at = 0
  <2>1. call[r] = Undefined /\ Outer(r) \in Thread /\ Outer(r)[1] = r /\ Outer(r) # Inner(r) /\ DOMAIN thread = Thread
    BY ThreadsOf DEF Arrive, Basic, Shape
  <2>2. thread[Outer(r)].at = 0
    BY <2>1 DEF Basic, Shape, Idle
  <2> QED BY <1>1, <2>1, <2>2
<1>5. ASSUME NEW b \in Places(call'[r], "bulkhead") PROVE ~ Within(thread'[Inner(r)], b)
  <2>1. ~ (thread'[Inner(r)].at > b)
    BY <1>1, <1>3
  <2> QED BY <1>1, <2>1 DEF Within
<1> QED BY <1>2, <1>3, <1>4, <1>5 DEF HasSlot

LEMMA BulkheadKept ==
  ASSUME BulkheadInside, Basic, BulkheadInv, [Next]_vars
  PROVE  BulkheadInv'
<1>1. Basic' /\ Motion
  BY NextMoves
<1>2. IsFiniteSet(active') /\ Cardinality(active') <= Capacity
  BY SlotsBounded
<1>3. ASSUME NEW r \in Request, call'[r] # Undefined
      PROVE  HasSlot(call'[r], thread'[Inner(r)], thread'[Outer(r)], r \in active')
  <2>1. CASE call' = call
    BY <1>1, <1>3, <2>1, SlotKept
  <2>2. ASSUME NEW q \in Request, Arrive(q)
        PROVE  HasSlot(call'[r], thread'[Inner(r)], thread'[Outer(r)], r \in active')
    <3>1. CASE q = r
      BY <2>2, <3>1, SlotArrives
    <3>2. CASE q # r
      <4>1. call' = [call EXCEPT ![q] = call'[q]] /\ DOMAIN call = Request
        BY <2>2, ArriveFacts DEF Basic, Shape
      <4>2. call'[r] = call[r]
        BY <3>2, <4>1
      <4> QED BY <1>1, <1>3, <4>2, SlotKept
    <3> QED BY <3>1, <3>2
  <2> QED BY <2>1, <2>2, CallStep
<1> QED BY <1>2, <1>3 DEF BulkheadInv, HasSlot

LEMMA BulkheadBounds ==
  ASSUME Basic, BulkheadInv
  PROVE  HandlersWithinCapacity
<1> DEFINE S == {r \in Request : Guarded(r, "bulkhead") /\ Running(r)}
<1>1. ASSUME NEW r \in Request, Guarded(r, "bulkhead"), Running(r) PROVE r \in active
  <2>1. /\ call[r] # Undefined /\ ~ call[r].stream
        /\ \E b \in DOMAIN call[r].chain : call[r].chain[b] = "bulkhead"
    BY <1>1 DEF Guarded, Skips, Chain
  <2>2. call[r].chain \in Seq(Interceptor)
    BY <2>1 DEF Basic, Shape, Call
  <2>3. PICK b \in DOMAIN call[r].chain : call[r].chain[b] = "bulkhead"
    BY <2>1
  <2>4. b \in Places(call[r], "bulkhead")
    BY <2>1, <2>3 DEF Places
  <2>5. Len(call[r].chain) + 1 > b
    BY <2>2
  <2>6. Within(thread[Inner(r)], b)
    BY <1>1, <2>5 DEF Running, Chain, Within
  <2> QED BY <2>1, <2>4, <2>6 DEF BulkheadInv
<1>2. S \subseteq active
  BY <1>1
<1> HIDE DEF S
<1>3. IsFiniteSet(active) /\ Cardinality(active) <= Capacity
  BY DEF BulkheadInv
<1>4. IsFiniteSet(S) /\ Cardinality(S) <= Cardinality(active)
  BY <1>2, <1>3, FS_Subset
<1>5. Cardinality(S) \in Nat /\ Cardinality(active) \in Nat /\ Capacity \in Nat
  BY <1>3, <1>4, FS_CardinalityType, LimitsAssumption
<1>6. Cardinality(S) <= Capacity
  BY <1>3, <1>4, <1>5
<1> QED BY <1>6 DEF HandlersWithinCapacity, S

\* The bulkhead bounds the handlers that run, for any number of requests, any
\* options and capacity, streams or not: a caller that timed out (timeout.ts)
\* leaves its slot with the handler, and retries run in the slot of their request.
THEOREM HandlersBounded ==
  ASSUME BulkheadInside
  PROVE  Spec => []HandlersWithinCapacity
<1>1. Init => Basic /\ BulkheadInv
  BY InitBasic, InitBulkhead
<1>2. (Basic /\ BulkheadInv) /\ [Next]_vars => (Basic /\ BulkheadInv)'
  BY NextMoves, BulkheadKept
<1>3. Basic /\ BulkheadInv => HandlersWithinCapacity
  BY BulkheadBounds
<1> QED BY <1>1, <1>2, <1>3, PTL DEF Spec

-----------------------------------------------------------------------------
(* The circuit breaker: what comes up at it *)

\* How the outcome that comes up with a thread comes about.
Spoken(c, th, new, before, after) ==
  \/ new = th /\ after = before
  \/ new.going # "up"
  \/ /\ th.at \in DOMAIN c.chain /\ new.at = th.at - 1 /\ after = before
     /\ \/ c.stream \/ c.chain[th.at] \notin {"retry", "fallback"}
        \/ th.going = "up" /\ c.chain[th.at] = "retry" /\ new.brings = th.brings
        \/ /\ th.going = "up" /\ c.chain[th.at] = "fallback"
           /\ new.brings = "ok" \/ th.brings # "ok"
  \/ new.brings = after /\ after \in HandlerOutcome

Speech ==
  \A r \in Request : call[r] # Undefined =>
    Spoken(call[r], thread[Inner(r)], thread'[Inner(r)], last[r], last'[r])

LEMMA OneSpeaks ==
  ASSUME Basic, NEW t \in Thread, NEW th, Moves(t, th), UNCHANGED last,
         t = Inner(t[1]) => Spoken(call[t[1]], thread[t], th, last[t[1]], last[t[1]])
  PROVE  Speech
<1>1. thread' = [thread EXCEPT ![t] = th] /\ DOMAIN thread = Thread
  BY DEF Moves, Basic, Shape
<1> SUFFICES ASSUME NEW r \in Request
             PROVE  Spoken(call[r], thread[Inner(r)], thread'[Inner(r)], last[r], last'[r])
  BY DEF Speech
<1>2. Inner(r) \in Thread /\ Inner(r)[1] = r
  BY ThreadsOf
<1>3. CASE t = Inner(r)
  BY <1>1, <1>2, <1>3
<1>4. CASE t # Inner(r)
  BY <1>1, <1>2, <1>4 DEF Spoken
<1> QED BY <1>3, <1>4

\* An interceptor that is neither a retry nor a fallback says something.
LEMMA OtherSpeaks ==
  ASSUME Basic, NEW t \in Thread, NEW going \in {"up", "down"}, NEW kind, At(t, going, kind),
         call[t[1]].stream \/ kind \notin {"retry", "fallback"},
         NEW outcome, Moves(t, Shallower(t, outcome)), UNCHANGED last
  PROVE  Speech
<1> DEFINE th == Shallower(t, outcome)
<1>1. th.at = thread[t].at - 1
  BY DEF Shallower
<1>2. Shape /\ going # "none"
  BY DEF Basic
<1>3. thread[t].at \in DOMAIN call[t[1]].chain /\ call[t[1]].chain[thread[t].at] = kind
  BY <1>2, AtFacts
<1>4. Moves(t, th)
  OBVIOUS
<1> HIDE DEF th
<1>5. Spoken(call[t[1]], thread[t], th, last[t[1]], last[t[1]])
  BY <1>1, <1>3 DEF Spoken
<1> QED BY <1>4, <1>5, OneSpeaks

\* Nothing is said.
LEMMA NoneSpeaks ==
  ASSUME Basic, NEW t \in Thread, NEW th, Moves(t, th), th.going # "up", UNCHANGED last
  PROVE  Speech
<1>1. Spoken(call[t[1]], thread[t], th, last[t[1]], last[t[1]])
  BY DEF Spoken
<1> QED BY <1>1, OneSpeaks

LEMMA RetrySpeaks ==
  ASSUME Basic, NEW r \in Request, RetryOrGiveUp(r)
  PROVE  Speech
<1> DEFINE t == Inner(r)
<1>1. t \in Thread /\ t[1] = r /\ Shape /\ "up" # "none" /\ At(t, "up", "retry") /\ UNCHANGED last
  BY ThreadsOf DEF Basic, RetryOrGiveUp
<1>2. /\ thread[t].going = "up" /\ thread[t].at \in DOMAIN call[r].chain
      /\ call[r].chain[thread[t].at] = "retry"
  BY <1>1, AtFacts
<1>3. CASE Moves(t, Stays(t, "backoff", Undefined))
  <2>1. Stays(t, "backoff", Undefined).going # "up"
    BY DEF Stays
  <2> QED BY <1>1, <1>3, <2>1, NoneSpeaks
<1>4. CASE Moves(t, Shallower(t, thread[t].brings))
  <2> DEFINE th == Shallower(t, thread[t].brings)
  <2>1. th.at = thread[t].at - 1 /\ th.brings = thread[t].brings /\ Moves(t, th)
    BY <1>4 DEF Shallower
  <2> HIDE DEF th
  <2>2. Spoken(call[r], thread[t], th, last[r], last[r])
    BY <1>2, <2>1 DEF Spoken
  <2> QED BY <1>1, <2>1, <2>2, OneSpeaks
<1> QED BY <1>3, <1>4 DEF RetryOrGiveUp

LEMMA FallbackSpeaks ==
  ASSUME Basic, NEW r \in Request, Fallback(r)
  PROVE  Speech
<1> DEFINE t == Inner(r)
<1>1. t \in Thread /\ t[1] = r /\ Shape /\ "up" # "none" /\ At(t, "up", "fallback") /\ UNCHANGED last
  BY ThreadsOf DEF Basic, Fallback
<1>2. /\ thread[t].going = "up" /\ thread[t].at \in DOMAIN call[r].chain
      /\ call[r].chain[thread[t].at] = "fallback"
  BY <1>1, AtFacts
<1>3. PICK outcome \in IF thread[t].brings = "ok" THEN {"ok"} ELSE {"ok", "thrown"} \cup HandlerOutcome :
               Moves(t, Shallower(t, outcome))
  BY DEF Fallback
<1>4. outcome = "ok" \/ thread[t].brings # "ok"
  BY <1>3
<1> DEFINE th == Shallower(t, outcome)
<1>5. th.at = thread[t].at - 1 /\ th.brings = outcome /\ Moves(t, th)
  BY <1>3 DEF Shallower
<1> HIDE DEF th
<1>6. Spoken(call[r], thread[t], th, last[r], last[r])
  BY <1>2, <1>4, <1>5 DEF Spoken
<1> QED BY <1>1, <1>5, <1>6, OneSpeaks

LEMMA HandlerSpeaks ==
  ASSUME Basic, NEW r \in Request, HandlerReturns(r)
  PROVE  Speech
<1> DEFINE t == Inner(r)
<1>1. t \in Thread /\ DOMAIN thread = Thread /\ DOMAIN last = Request
  BY ThreadsOf DEF Basic, Shape
<1>2. PICK outcome \in HandlerOutcome :
        Moves(t, Shallower(t, outcome)) /\ last' = [last EXCEPT ![r] = outcome]
  BY DEF HandlerReturns
<1> DEFINE th == Shallower(t, outcome)
<1>3. th.brings = outcome /\ thread' = [thread EXCEPT ![t] = th]
  BY <1>2 DEF Shallower, Moves
<1> HIDE DEF th
<1> SUFFICES ASSUME NEW q \in Request
             PROVE  Spoken(call[q], thread[Inner(q)], thread'[Inner(q)], last[q], last'[q])
  BY DEF Speech
<1>4. CASE q = r
  <2>1. thread'[Inner(q)].brings = outcome /\ last'[q] = outcome
    BY <1>1, <1>2, <1>3, <1>4
  <2> QED BY <2>1 DEF Spoken
<1>5. CASE q # r
  <2>1. Inner(q) \in Thread /\ Inner(q) # t
    BY <1>5, ThreadsOf
  <2>2. thread'[Inner(q)] = thread[Inner(q)] /\ last'[q] = last[q]
    BY <1>1, <1>2, <1>3, <1>5, <2>1
  <2> QED BY <2>2 DEF Spoken
<1> QED BY <1>4, <1>5

LEMMA BreakerLeaveSpeaks ==
  ASSUME Basic, NEW r \in Request, BreakerLeave(r)
  PROVE  Speech
<1> DEFINE t == Inner(r)
<1>1. t \in Thread /\ t[1] = r /\ Shape /\ "up" # "none" /\ At(t, "up", "circuitBreaker") /\ UNCHANGED last
  BY ThreadsOf DEF Basic, BreakerLeave
<1>2. thread[t].at \in DOMAIN call[r].chain /\ call[r].chain[thread[t].at] = "circuitBreaker"
  BY <1>1, AtFacts
<1>3. /\ thread'[t].at = thread[t].at - 1
      /\ \A u \in Thread : u # t => thread'[u] = thread[u] \/ thread'[u].going = "down"
  BY BreakerLeaveThreads
<1> SUFFICES ASSUME NEW q \in Request
             PROVE  Spoken(call[q], thread[Inner(q)], thread'[Inner(q)], last[q], last'[q])
  BY DEF Speech
<1>4. CASE q = r
  BY <1>1, <1>2, <1>3, <1>4 DEF Spoken
<1>5. CASE q # r
  <2>1. Inner(q) \in Thread /\ Inner(q) # t
    BY <1>5, ThreadsOf
  <2>2. (thread'[Inner(q)] = thread[Inner(q)] \/ thread'[Inner(q)].going = "down") /\ last'[q] = last[q]
    BY <1>1, <1>3, <2>1
  <2> QED BY <2>2 DEF Spoken
<1> QED BY <1>4, <1>5

LEMMA DownSpeaksNot ==
  ASSUME NEW r
  PROVE  Down(r).going = "down"
  BY DEF Down, Deeper

LEMMA BulkheadLeaveSpeaks ==
  ASSUME Basic, NEW t \in Thread, BulkheadLeave(t)
  PROVE  Speech
<1>1. At(t, "up", "bulkhead") /\ UNCHANGED last
  BY DEF BulkheadLeave
<1>2. CASE queue = <<>>
  BY <1>1, <1>2, OtherSpeaks DEF BulkheadLeave
<1>3. CASE queue # <<>>
  <2> DEFINE u == Inner(Head(queue))
             up == Shallower(t, thread[t].brings)
             down == Down(Head(queue))
  <2>1. Shape /\ "up" # "none" /\ DOMAIN thread = Thread /\ queue \in Seq(Request)
    BY DEF Basic, Shape
  <2>2. thread[t].at \in DOMAIN call[t[1]].chain /\ call[t[1]].chain[thread[t].at] = "bulkhead"
    BY <1>1, <2>1, AtFacts
  <2>3. Head(queue) \in Request
    BY <1>3, <2>1
  <2>4. u \in Thread
    BY <2>3, ThreadsOf
  <2>5. up.at = thread[t].at - 1 /\ down.going = "down"
    BY DownSpeaksNot DEF Shallower
  <2>6. thread' = [thread EXCEPT ![t] = up, ![u] = down]
    BY <1>3 DEF BulkheadLeave
  <2> HIDE DEF u, up, down
  <2> SUFFICES ASSUME NEW q \in Request
               PROVE  Spoken(call[q], thread[Inner(q)], thread'[Inner(q)], last[q], last'[q])
    BY DEF Speech
  <2>7. Inner(q) \in Thread /\ Inner(q)[1] = q /\ last'[q] = last[q]
    BY <1>1, ThreadsOf
  <2>8. CASE Inner(q) = u
    BY <2>1, <2>4, <2>5, <2>6, <2>8 DEF Spoken
  <2>9. CASE Inner(q) # u /\ Inner(q) = t
    <3>1. thread'[Inner(q)] = up /\ t[1] = q
      BY <2>1, <2>6, <2>7, <2>9
    <3> QED BY <2>2, <2>5, <2>7, <2>9, <3>1 DEF Spoken
  <2>10. CASE Inner(q) # u /\ Inner(q) # t
    BY <2>1, <2>6, <2>7, <2>10 DEF Spoken
  <2> QED BY <2>8, <2>9, <2>10
<1> QED BY <1>2, <1>3

LEMMA BulkheadEnterSpeaks ==
  ASSUME Basic, NEW r \in Request, BulkheadEnter(r)
  PROVE  Speech
<1>1. Inner(r) \in Thread /\ At(Inner(r), "down", "bulkhead") /\ UNCHANGED last
  BY ThreadsOf DEF BulkheadEnter
<1>2. CASE Moves(Inner(r), Down(r))
  <2>1. Down(r).going # "up"
    BY DownSpeaksNot
  <2> QED BY <1>1, <1>2, <2>1, NoneSpeaks
<1>3. CASE Moves(Inner(r), Stays(Inner(r), "queued", Undefined))
  <2>1. Stays(Inner(r), "queued", Undefined).going # "up"
    BY DEF Stays
  <2> QED BY <1>1, <1>3, <2>1, NoneSpeaks
<1>4. CASE Moves(Inner(r), Shallower(Inner(r), "resource_exhausted"))
  BY <1>1, <1>4, OtherSpeaks
<1> QED BY <1>2, <1>3, <1>4 DEF BulkheadEnter

LEMMA BreakerEnterSpeaks ==
  ASSUME Basic, NEW r \in Request, BreakerEnter(r)
  PROVE  Speech
<1>1. Inner(r) \in Thread /\ At(Inner(r), "down", "circuitBreaker") /\ UNCHANGED last
  BY ThreadsOf DEF BreakerEnter
<1>2. CASE Moves(Inner(r), Down(r))
  <2>1. Down(r).going # "up"
    BY DownSpeaksNot
  <2> QED BY <1>1, <1>2, <2>1, NoneSpeaks
<1>3. CASE Moves(Inner(r), Stays(Inner(r), "waiting", circuit.test))
  <2>1. Stays(Inner(r), "waiting", circuit.test).going # "up"
    BY DEF Stays
  <2> QED BY <1>1, <1>3, <2>1, NoneSpeaks
<1>4. CASE Moves(Inner(r), Shallower(Inner(r), "unavailable"))
  BY <1>1, <1>4, OtherSpeaks
<1> QED BY <1>2, <1>3, <1>4 DEF BreakerEnter

LEMMA EndSpeaks ==
  ASSUME Basic, NEW t \in Thread, Moves(t, [NoThread EXCEPT !.going = "ended"]), UNCHANGED last
  PROVE  Speech
<1>1. [NoThread EXCEPT !.going = "ended"].going # "up"
  BY EndedFields
<1> QED BY <1>1, NoneSpeaks

LEMMA InTimeSpeaks ==
  ASSUME Basic, NEW r \in Request, InTime(r)
  PROVE  Speech
<1> DEFINE t == Inner(r)
<1>1. t \in Thread /\ At(t, "up", "timeout") /\ UNCHANGED last
  BY ThreadsOf DEF InTime
<1>2. CASE thread[Outer(r)] = NoThread
  <2>1. Moves(t, Shallower(t, thread[t].brings))
    BY <1>2 DEF InTime
  <2> QED BY <1>1, <2>1, OtherSpeaks
<1>3. CASE thread[Outer(r)] # NoThread
  <2>1. Moves(t, [NoThread EXCEPT !.going = "ended"])
    BY <1>3 DEF InTime
  <2> QED BY <1>1, <2>1, EndSpeaks
<1> QED BY <1>2, <1>3

\* The steps that leave the inner threads of the calls that are there alone.
LEMMA StillSpeaks ==
  ASSUME \A r \in Request : call[r] # Undefined => thread'[Inner(r)] = thread[Inner(r)], UNCHANGED last
  PROVE  Speech
  BY DEF Speech, Spoken

LEMMA NextSpeaks ==
  ASSUME Basic, [Next]_vars
  PROVE  Speech
<1>1. CASE HalfOpenAfter \/ UNCHANGED vars
  BY <1>1, StillSpeaks DEF HalfOpenAfter, vars
<1>2. ASSUME NEW r \in Request, Arrive(r) PROVE Speech
  <2>1. DOMAIN thread = Thread /\ call[r] = Undefined /\ UNCHANGED last
    BY <1>2 DEF Basic, Shape, Arrive
  <2>2. thread' = [thread EXCEPT ![Inner(r)] = thread'[Inner(r)]]
    BY <1>2, ArriveFacts
  <2>3. ASSUME NEW q \in Request, call[q] # Undefined PROVE thread'[Inner(q)] = thread[Inner(q)]
    <3>1. Inner(q) \in Thread /\ Inner(q) # Inner(r)
      BY <2>1, <2>3, ThreadsOf
    <3> QED BY <2>1, <2>2, <3>1
  <2> QED BY <2>1, <2>3, StillSpeaks
<1>3. ASSUME NEW r \in Request, TimesOut(r) PROVE Speech
  <2>1. DOMAIN thread = Thread /\ UNCHANGED last
    BY <1>3 DEF Basic, Shape, TimesOut
  <2>2. PICK new : thread' = [thread EXCEPT ![Outer(r)] = new]
    BY <1>3 DEF TimesOut
  <2>3. ASSUME NEW q \in Request PROVE thread'[Inner(q)] = thread[Inner(q)]
    <3>1. Inner(q) \in Thread /\ Inner(q) # Outer(r)
      BY ThreadsOf
    <3> QED BY <2>1, <2>2, <3>1
  <2> QED BY <2>1, <2>3, StillSpeaks
<1>4. ASSUME NEW r \in Request, BackoffEnds(r) PROVE Speech
  <2>1. Inner(r) \in Thread /\ Moves(Inner(r), Down(r)) /\ UNCHANGED last /\ Down(r).going # "up"
    BY <1>4, ThreadsOf, DownSpeaksNot DEF BackoffEnds
  <2> QED BY <2>1, NoneSpeaks
<1>5. ASSUME NEW r \in Request,
             \/ HandlerReturns(r) \/ InTime(r) \/ BulkheadEnter(r) \/ BreakerEnter(r) \/ BreakerLeave(r)
             \/ RetryOrGiveUp(r) \/ Fallback(r)
      PROVE  Speech
  BY <1>5, HandlerSpeaks, InTimeSpeaks, BulkheadEnterSpeaks, BreakerEnterSpeaks, BreakerLeaveSpeaks,
     RetrySpeaks, FallbackSpeaks
<1>6. ASSUME NEW t \in DOMAIN thread, PassUp(t) \/ ErrorHandler(t) \/ Answer(t) \/ BulkheadLeave(t)
      PROVE  Speech
  <2>1. t \in Thread
    BY DEF Basic, Shape
  <2>2. CASE PassUp(t)
    <3>1. PICK kind : At(t, "up", kind) /\ Skips(t[1], kind)
      BY <2>2 DEF PassUp
    <3>2. call[t[1]].stream /\ Moves(t, Shallower(t, thread[t].brings)) /\ UNCHANGED last
      BY <2>2, <3>1 DEF Skips, PassUp
    <3> QED BY <2>1, <3>1, <3>2, OtherSpeaks
  <2>3. CASE ErrorHandler(t)
    BY <2>1, <2>3, OtherSpeaks DEF ErrorHandler
  <2>4. CASE Answer(t)
    BY <2>1, <2>4, EndSpeaks DEF Answer
  <2>5. CASE BulkheadLeave(t)
    BY <2>1, <2>5, BulkheadLeaveSpeaks
  <2> QED BY <1>6, <2>2, <2>3, <2>4, <2>5
<1> QED BY <1>1, <1>2, <1>3, <1>4, <1>5, <1>6 DEF Next

-----------------------------------------------------------------------------
(* The circuit breaker: what it counts *)

LEMMA ConfigStep ==
  ASSUME [Next]_vars
  PROVE  config' = config
  BY DEF Next, vars, Arrive, HalfOpenAfter, HandlerReturns, TimesOut, InTime, BulkheadEnter, BreakerEnter, BreakerLeave,
         RetryOrGiveUp, BackoffEnds, Fallback, PassUp, ErrorHandler, Answer, BulkheadLeave

LEMMA LastStep ==
  ASSUME [Next]_vars
  PROVE  last' = last \/ \E r \in Request : HandlerReturns(r)
  BY DEF Next, vars, Arrive, HalfOpenAfter, TimesOut, InTime, BulkheadEnter, BreakerEnter, BreakerLeave,
         RetryOrGiveUp, BackoffEnds, Fallback, PassUp, ErrorHandler, Answer, BulkheadLeave

LEMMA CircuitStep ==
  ASSUME [Next]_vars
  PROVE  \/ UNCHANGED <<circuit, tests>>
         \/ HalfOpenAfter
         \/ \E r \in Request : BreakerEnter(r)
         \/ \E r \in Request : BreakerLeave(r)
  BY DEF Next, vars, Arrive, HandlerReturns, TimesOut, InTime, BulkheadEnter,
         RetryOrGiveUp, BackoffEnds, Fallback, PassUp, ErrorHandler, Answer, BulkheadLeave

LEMMA InitBreaker == Init => BreakerInv
<1> SUFFICES ASSUME Init PROVE BreakerInv
  OBVIOUS
<1>1. \A r \in Request : call[r] = Undefined /\ last[r] = Undefined
  BY DEF Init
<1>2. Handled = {} /\ Failed = {}
  BY <1>1 DEF Handled, Failed
<1>3. IsFiniteSet(Handled) /\ Cardinality(Failed) = 0
  BY <1>2, FS_EmptySet
<1>4. circuit.count = 0 /\ circuit.state = "closed" /\ tests = {}
  BY DEF Init
<1>5. circuit.count <= Cardinality(Failed)
  BY <1>3, <1>4
<1> QED BY <1>1, <1>3, <1>4, <1>5 DEF BreakerInv

\* What BreakerInv says of one request.
TellsTruth(options, c, inner, ended) ==
  /\ BreakerOrder(options, c.chain)
  /\ \A k \in Places(c, "circuitBreaker") :
       inner.going = "up" /\ inner.at >= k => Truthful(options, inner.brings, ended)

\* Outcomes come up as they are through the retries, and changed only by the fallback.
LEMMA TruthMoved ==
  ASSUME NEW c \in Call, NEW th, th.at \in Nat, NEW new, new.at \in Nat, NEW before, NEW after,
         TellsTruth(config.options, c, th, before), Spoken(c, th, new, before, after)
  PROVE  TellsTruth(config.options, c, new, after)
<1> SUFFICES ASSUME NEW k \in Places(c, "circuitBreaker"), new.going = "up", new.at >= k
             PROVE  Truthful(config.options, new.brings, after)
  BY DEF TellsTruth
<1>1. c.chain \in Seq(Interceptor)
  BY DEF Call
<1>2. k \in DOMAIN c.chain /\ c.chain[k] = "circuitBreaker" /\ ~ c.stream
  BY DEF Places
<1>3. k \in Nat
  BY <1>1, <1>2
<1>4. th.going = "up" /\ th.at >= k => Truthful(config.options, th.brings, before)
  BY DEF TellsTruth
<1>5. CASE new = th /\ after = before
  BY <1>4, <1>5
<1>6. ASSUME th.at \in DOMAIN c.chain, new.at = th.at - 1, after = before,
             \/ c.stream \/ c.chain[th.at] \notin {"retry", "fallback"}
             \/ th.going = "up" /\ c.chain[th.at] = "retry" /\ new.brings = th.brings
             \/ /\ th.going = "up" /\ c.chain[th.at] = "fallback"
                /\ new.brings = "ok" \/ th.brings # "ok"
      PROVE  Truthful(config.options, new.brings, after)
  <2>1. k < th.at /\ th.at >= k
    BY <1>3, <1>6
  <2>2. c.chain[th.at] = "retry" \/ (c.chain[th.at] = "fallback" /\ Enabled(config.options, "fallback"))
    BY <1>2, <1>6, <2>1 DEF TellsTruth, BreakerOrder
  <2>3. CASE th.going = "up" /\ c.chain[th.at] = "retry" /\ new.brings = th.brings
    BY <1>4, <1>6, <2>1, <2>3
  <2>4. CASE /\ th.going = "up" /\ c.chain[th.at] = "fallback"
             /\ new.brings = "ok" \/ th.brings # "ok"
    <3>1. Truthful(config.options, th.brings, before) /\ Enabled(config.options, "fallback")
      BY <1>4, <2>1, <2>2, <2>4
    <3> QED BY <1>6, <2>4, <3>1 DEF Truthful
  <2> QED BY <1>2, <1>6, <2>2, <2>3, <2>4
<1>7. CASE new.brings = after /\ after \in HandlerOutcome
  BY <1>7, UndefinedAssumption DEF Truthful
<1> QED BY <1>5, <1>6, <1>7 DEF Spoken

LEMMA TruthKept ==
  ASSUME BreakerOutside, Basic, BreakerInv, [Next]_vars, NEW r \in Request, call'[r] # Undefined
  PROVE  TellsTruth(config.options, call'[r], thread'[Inner(r)], last'[r])
<1>1. Basic' /\ Speech
  BY NextMoves, NextSpeaks
<1>2. thread[Inner(r)].at \in Nat /\ thread'[Inner(r)].at \in Nat
  BY <1>1, ThreadsOf DEF Basic, Shape
<1>3. ASSUME call'[r] = call[r]
      PROVE  TellsTruth(config.options, call'[r], thread'[Inner(r)], last'[r])
  <2>1. call[r] \in Call /\ call[r] # Undefined
    BY <1>3 DEF Basic, Shape
  <2>2. TellsTruth(config.options, call[r], thread[Inner(r)], last[r])
    BY <2>1 DEF BreakerInv, TellsTruth
  <2>3. Spoken(call[r], thread[Inner(r)], thread'[Inner(r)], last[r], last'[r])
    BY <1>1, <2>1 DEF Speech
  <2>4. TellsTruth(config.options, call[r], thread'[Inner(r)], last'[r])
    BY <1>2, <2>1, <2>2, <2>3, TruthMoved
  <2> QED BY <1>3, <2>4
<1>4. ASSUME NEW q \in Request, Arrive(q)
      PROVE  TellsTruth(config.options, call'[r], thread'[Inner(r)], last'[r])
  <2>1. PICK m \in config.methods :
          /\ call' = [call EXCEPT ![q] = call'[q]] /\ call'[q].chain = ComposeInterceptors(m)
          /\ thread'[Inner(q)].going = "down"
    BY <1>4, ArriveFacts
  <2>2. CASE q = r
    <3>1. BreakerOrder(config.options, call'[r].chain)
      BY <2>1, <2>2, ChainBreakerOrder DEF Basic, Shape
    <3> QED BY <2>1, <2>2, <3>1 DEF TellsTruth
  <2>3. CASE q # r
    <3>1. DOMAIN call = Request
      BY DEF Basic, Shape
    <3>2. call'[r] = call[r]
      BY <2>1, <2>3, <3>1
    <3> QED BY <1>3, <3>2
  <2> QED BY <2>2, <2>3
<1> QED BY <1>3, <1>4, CallStep

\* A request that has left the circuit breaker does not come back.
LEMMA PastMoved ==
  ASSUME NEW c \in Call, BreakerOrder(config.options, c.chain), NEW k \in Places(c, "circuitBreaker"),
         NEW th, th.at \in Nat, NEW new, NEW slot, Moved(c, th, new, slot), Past(th, k)
  PROVE  Past(new, k)
<1>1. c.chain \in Seq(Interceptor)
  BY DEF Call
<1>2. k \in DOMAIN c.chain /\ c.chain[k] = "circuitBreaker"
  BY DEF Places
<1>3. k \in Nat
  BY <1>1, <1>2
<1>4. CASE Rose(th, new)
  <2>1. th.going = "up" /\ th.at < k /\ new.going = "up" /\ new.at = th.at - 1
    BY <1>4 DEF Rose, Past
  <2>2. new.at < k
    BY <1>3, <2>1
  <2> QED BY <2>1, <2>2 DEF Past
<1>5. CASE Ended(th, new)
  BY <1>5 DEF Ended, Past
<1>6. CASE Stood(c, th, new)
  <2>1. th.going = "up" /\ th.at < k /\ th.at \in DOMAIN c.chain /\ c.chain[th.at] = "retry"
    BY <1>6 DEF Stood, Past
  <2>2. FALSE
    BY <1>2, <2>1 DEF BreakerOrder
  <2> QED BY <2>2
<1>7. CASE Sank(c, th, new, slot)
  BY <1>7 DEF Sank, Past
<1> QED BY <1>4, <1>5, <1>6, <1>7 DEF Moved

LEMMA FailedGrows ==
  ASSUME Basic, BreakerInv, [Next]_vars
  PROVE  Failed \subseteq Failed'
<1> SUFFICES ASSUME NEW r \in Failed PROVE r \in Failed'
  OBVIOUS
<1>1. r \in Request /\ call[r] # Undefined /\ last[r] # Undefined /\ last[r] # "ok"
  BY DEF Failed
<1>2. PICK k \in Places(call[r], "circuitBreaker") : Past(thread[Inner(r)], k)
  BY DEF Failed
<1>3. Motion
  BY NextMoves
<1>4. call[r] \in Call /\ thread[Inner(r)].at \in Nat /\ BreakerOrder(config.options, call[r].chain)
  BY <1>1, ThreadsOf DEF Basic, Shape, BreakerInv
<1>5. call'[r] = call[r]
  <2>1. CASE call' = call
    BY <2>1
  <2>2. ASSUME NEW q \in Request, Arrive(q) PROVE call'[r] = call[r]
    <3>1. call[q] = Undefined /\ DOMAIN call = Request
      BY <2>2 DEF Arrive, Basic, Shape
    <3>2. q # r
      BY <1>1, <3>1
    <3>3. call' = [call EXCEPT ![q] = call'[q]]
      BY <2>2, ArriveFacts
    <3> QED BY <1>1, <3>1, <3>2, <3>3
  <2> QED BY <2>1, <2>2, CallStep
<1>6. last'[r] = last[r]
  <2>1. CASE last' = last
    BY <2>1
  <2>2. ASSUME NEW q \in Request, HandlerReturns(q) PROVE last'[r] = last[r]
    <3>1. thread[Inner(q)].going = "down"
      BY <2>2 DEF HandlerReturns, Running
    <3>2. q # r
      BY <1>2, <3>1 DEF Past
    <3>3. PICK outcome : last' = [last EXCEPT ![q] = outcome]
      BY <2>2 DEF HandlerReturns
    <3>4. DOMAIN last = Request
      BY DEF Basic, Shape
    <3> QED BY <1>1, <3>2, <3>3, <3>4
  <2> QED BY <2>1, <2>2, LastStep
<1>7. Past(thread'[Inner(r)], k)
  <2>1. CASE thread'[Inner(r)] = thread[Inner(r)]
    BY <1>2, <2>1
  <2>2. CASE Moved(call[r], thread[Inner(r)], thread'[Inner(r)], r \in active')
    <3> DEFINE c == call[r]
               th == thread[Inner(r)]
               new == thread'[Inner(r)]
               slot == r \in active'
    <3>1. /\ c \in Call /\ BreakerOrder(config.options, c.chain) /\ k \in Places(c, "circuitBreaker")
          /\ th.at \in Nat /\ Moved(c, th, new, slot) /\ Past(th, k)
      BY <1>2, <1>4, <2>2
    <3> HIDE DEF c, th, new, slot
    <3>2. Past(new, k)
      BY <3>1, PastMoved
    <3> QED BY <3>2 DEF new
  <2> QED BY <1>1, <1>3, <2>1, <2>2 DEF Motion
<1> QED BY <1>1, <1>2, <1>5, <1>6, <1>7 DEF Failed

LEMMA HandledFinite ==
  ASSUME Basic, BreakerInv, [Next]_vars
  PROVE  IsFiniteSet(Handled')
<1>1. IsFiniteSet(Handled) /\ DOMAIN last = Request
  BY DEF BreakerInv, Basic, Shape
<1>2. CASE last' = last
  BY <1>1, <1>2 DEF Handled
<1>3. ASSUME NEW r \in Request, HandlerReturns(r) PROVE IsFiniteSet(Handled')
  <2>1. PICK outcome : last' = [last EXCEPT ![r] = outcome]
    BY <1>3 DEF HandlerReturns
  <2>2. Handled' \subseteq Handled \cup {r}
    BY <1>1, <2>1 DEF Handled
  <2>3. IsFiniteSet(Handled \cup {r})
    BY <1>1, FS_AddElement
  <2> QED BY <2>2, <2>3, FS_Subset
<1> QED BY <1>2, <1>3, LastStep

LEMMA FailedSize ==
  ASSUME IsFiniteSet(Handled)
  PROVE  IsFiniteSet(Failed) /\ Cardinality(Failed) \in Nat
<1>1. Failed \subseteq Handled
  BY DEF Failed, Handled
<1>2. IsFiniteSet(Failed)
  BY <1>1, FS_Subset
<1> QED BY <1>2, FS_CardinalityType

\* The requests that failed for good only become more.
LEMMA FailedCounts ==
  ASSUME Basic, BreakerInv, [Next]_vars
  PROVE  /\ IsFiniteSet(Failed) /\ Cardinality(Failed) \in Nat
         /\ IsFiniteSet(Failed') /\ Cardinality(Failed') \in Nat
         /\ Failed \subseteq Failed' /\ Cardinality(Failed) <= Cardinality(Failed')
<1>1. IsFiniteSet(Handled') /\ Failed' \subseteq Handled'
  BY HandledFinite DEF Failed, Handled
<1>2. IsFiniteSet(Failed')
  BY <1>1, FS_Subset
<1>3. Failed \subseteq Failed'
  BY FailedGrows
<1>4. IsFiniteSet(Failed) /\ Cardinality(Failed) <= Cardinality(Failed')
  BY <1>2, <1>3, FS_Subset
<1> QED BY <1>2, <1>3, <1>4, FS_CardinalityType

\* A failure that the circuit breaker counts is one of another request.
LEMMA LeaverFails ==
  ASSUME Basic, BreakerInv, NEW r \in Request, BreakerLeave(r), thread[Inner(r)].brings # "ok"
  PROVE  r \in Failed' /\ r \notin Failed
<1> DEFINE t == Inner(r)
           k == thread[t].at
           c == call[r]
<1>1. t \in Thread /\ t[1] = r /\ Shape /\ "up" # "none"
  BY ThreadsOf DEF Basic
<1>2. At(t, "up", "circuitBreaker") /\ ~ c.stream /\ UNCHANGED <<call, last>>
  BY DEF BreakerLeave, Skips
<1>3. /\ c # Undefined /\ c \in Call /\ thread[t].going = "up"
      /\ k \in Nat /\ k \in DOMAIN c.chain /\ c.chain[k] = "circuitBreaker"
  BY <1>1, <1>2, AtFacts
<1>4. k \in Places(c, "circuitBreaker")
  BY <1>2, <1>3 DEF Places
<1>5. BreakerOrder(config.options, c.chain) /\ Truthful(config.options, thread[t].brings, last[r])
  <2>1. k >= k
    BY <1>3
  <2> QED BY <1>3, <1>4, <2>1 DEF BreakerInv
<1>6. last[r] # Undefined /\ last[r] # "ok"
  BY <1>5 DEF Truthful
<1>7. Past(thread'[t], k)
  <2>1. thread'[t].going = "up" /\ thread'[t].at = k - 1
    BY BreakerLeaveThreads
  <2>2. k - 1 < k
    BY <1>3
  <2> QED BY <2>1, <2>2 DEF Past
<1>8. r \in Failed'
  BY <1>2, <1>3, <1>4, <1>6, <1>7 DEF Failed
<1>9. ASSUME NEW j \in Places(c, "circuitBreaker") PROVE ~ Past(thread[t], j)
  <2>1. j \in DOMAIN c.chain /\ c.chain[j] = "circuitBreaker" /\ c.chain \in Seq(Interceptor)
    BY <1>3 DEF Places, Call
  <2>2. ~ (k < j)
    BY <1>3, <1>5, <2>1 DEF BreakerOrder
  <2> QED BY <1>3, <2>2 DEF Past
<1>10. r \notin Failed
  BY <1>9 DEF Failed
<1> QED BY <1>8, <1>10

\* The circuit has opened at some time only if so many requests have failed.
LEMMA CountKept ==
  ASSUME Basic, BreakerInv, [Next]_vars
  PROVE  /\ circuit'.count <= Cardinality(Failed')
         /\ circuit'.state # "closed" \/ tests' # {} => Cardinality(Failed') >= Threshold
<1> DEFINE n == Cardinality(Failed)
           p == Cardinality(Failed')
           Goal == circuit'.count <= p /\ (circuit'.state # "closed" \/ tests' # {} => p >= Threshold)
<1>1. n \in Nat /\ p \in Nat /\ n <= p
  BY FailedCounts
<1>2. Threshold \in Nat /\ circuit \in Circuit /\ circuit.count \in Nat
  BY LimitsAssumption DEF Basic, Shape, Circuit
<1>3. circuit.count <= n /\ (circuit.state # "closed" \/ tests # {} => n >= Threshold)
  BY DEF BreakerInv
<1>4. Basic'
  BY NextMoves
<1>5. circuit'.count \in Nat
  BY <1>4 DEF Basic, Shape, Circuit
<1> HIDE DEF n, p
<1>6. circuit.count <= p /\ (n >= Threshold => p >= Threshold)
  BY <1>1, <1>2, <1>3
<1>7. ASSUME UNCHANGED <<circuit, tests>> PROVE Goal
  BY <1>3, <1>6, <1>7
<1>8. ASSUME HalfOpenAfter PROVE Goal
  <2>1. circuit'.count = circuit.count /\ circuit.state # "closed"
    BY <1>2, <1>8 DEF HalfOpenAfter, Circuit
  <2> QED BY <1>3, <1>6, <2>1
<1>9. ASSUME NEW r \in Request, BreakerEnter(r) PROVE Goal
  <2>1. CASE UNCHANGED <<circuit, tests>>
    BY <1>3, <1>6, <2>1
  <2>2. CASE /\ circuit.state = "open"
             /\ circuit' = [circuit EXCEPT !.state = "half-open", !.test = r, !.ripe = FALSE]
    <3>1. circuit'.count = circuit.count /\ circuit.state # "closed"
      BY <1>2, <2>2 DEF Circuit
    <3> QED BY <1>3, <1>6, <3>1
  <2> QED BY <1>9, <2>1, <2>2 DEF BreakerEnter
<1>10. ASSUME NEW r \in Request, BreakerLeave(r) PROVE Goal
  <2> DEFINE outcome == thread[Inner(r)].brings
  <2>1. /\ circuit' = IF r \in tests THEN Tested(circuit, outcome) ELSE Counted(circuit, outcome)
        /\ tests' = tests \ {r}
    BY <1>10 DEF BreakerLeave
  <2>2. CASE r \in tests
    <3>1. circuit'.count <= circuit.count
      BY <1>2, <2>1, <2>2, TestedFacts
    <3>2. circuit'.count <= p
      BY <1>1, <1>2, <1>5, <1>6, <3>1
    <3> QED BY <1>3, <1>6, <2>2, <3>2
  <2>3. CASE r \notin tests /\ (outcome = "ok" \/ ~ IsFailure(outcome))
    <3>1. circuit'.count <= circuit.count /\ circuit'.state = circuit.state
      BY <1>2, <2>1, <2>3, CountedFacts
    <3>2. circuit'.count <= p
      BY <1>1, <1>2, <1>5, <1>6, <3>1
    <3> QED BY <1>3, <1>6, <2>1, <3>1, <3>2
  <2>4. CASE r \notin tests /\ outcome # "ok"
    <3>1. circuit'.count <= circuit.count + 1 /\ (circuit'.state # circuit.state => circuit.count + 1 >= Threshold)
      BY <1>2, <2>1, <2>4, CountedFacts
    <3>2. n + 1 <= p
      <4>1. r \in Failed' /\ r \notin Failed
        BY <1>10, <2>4, LeaverFails
      <4>2. IsFiniteSet(Failed) /\ IsFiniteSet(Failed') /\ Failed \subseteq Failed'
        BY FailedCounts
      <4>3. Cardinality(Failed \cup {r}) = n + 1
        BY <4>1, <4>2, FS_AddElement DEF n
      <4>4. Failed \cup {r} \subseteq Failed'
        BY <4>1, <4>2
      <4>5. Cardinality(Failed \cup {r}) <= p
        BY <4>2, <4>4, FS_Subset DEF p
      <4> QED BY <4>3, <4>5
    <3>3. circuit'.count <= p
      BY <1>1, <1>2, <1>3, <1>5, <3>1, <3>2
    <3>4. circuit.count + 1 >= Threshold => p >= Threshold
      BY <1>1, <1>2, <1>3, <3>2
    <3>5. ASSUME circuit'.state # "closed" \/ tests' # {} PROVE p >= Threshold
      <4>1. CASE circuit.state # "closed" \/ tests # {}
        BY <1>3, <1>6, <4>1
      <4>2. CASE circuit.state = "closed" /\ tests = {}
        <5>1. circuit'.state # circuit.state
          BY <2>1, <3>5, <4>2
        <5> QED BY <3>1, <3>4, <5>1
      <4> QED BY <4>1, <4>2
    <3> QED BY <3>3, <3>5
  <2> QED BY <2>2, <2>3, <2>4
<1> QED BY <1>7, <1>8, <1>9, <1>10, CircuitStep DEF p

LEMMA BreakerKept ==
  ASSUME BreakerOutside, Basic, BreakerInv, [Next]_vars
  PROVE  BreakerInv'
<1>1. \A r \in Request : call'[r] # Undefined => TellsTruth(config.options, call'[r], thread'[Inner(r)], last'[r])
  BY TruthKept
<1>2. config' = config
  BY ConfigStep
<1>3. \A r \in Request : call'[r] # Undefined => TellsTruth(config'.options, call'[r], thread'[Inner(r)], last'[r])
  BY <1>1, <1>2
<1>4. IsFiniteSet(Handled')
  BY HandledFinite
<1>5. /\ circuit'.count <= Cardinality(Failed')
      /\ circuit'.state # "closed" \/ tests' # {} => Cardinality(Failed') >= Threshold
  BY CountKept
<1> QED BY <1>3, <1>4, <1>5 DEF BreakerInv, TellsTruth

LEMMA BreakerCounts ==
  ASSUME Basic, BreakerInv
  PROVE  CountsRequests
<1> DEFINE S == {r \in Request : last[r] # Undefined /\ last[r] # "ok" /\ ~ Running(r)}
<1> SUFFICES ASSUME circuit.state # "closed" PROVE Cardinality(S) >= Threshold
  BY DEF CountsRequests
<1>1. Failed \subseteq S /\ S \subseteq Handled
  BY DEF Failed, Handled, Past, Running
<1>2. IsFiniteSet(Handled) /\ Cardinality(Failed) >= Threshold
  BY DEF BreakerInv
<1> HIDE DEF S
<1>3. IsFiniteSet(S) /\ Cardinality(S) \in Nat
  BY <1>1, <1>2, FS_Subset, FS_CardinalityType
<1>4. Cardinality(Failed) <= Cardinality(S) /\ Cardinality(Failed) \in Nat
  BY <1>1, <1>2, <1>3, FS_Subset, FailedSize
<1> QED BY <1>2, <1>3, <1>4, LimitsAssumption

LEMMA InitBoth == Init => Basic /\ BreakerInv
  BY InitBasic, InitBreaker

LEMMA NextBoth ==
  ASSUME BreakerOutside
  PROVE  (Basic /\ BreakerInv) /\ [Next]_vars => (Basic /\ BreakerInv)'
  BY NextMoves, BreakerKept

\* "One logical request increments the failure counter once" (circuit-breaker.ts),
\* for any number of requests, any options and threshold: the retries of a request
\* come up as one outcome, and a request that timed out counts once.
THEOREM RequestsCounted ==
  ASSUME BreakerOutside
  PROVE  Spec => []CountsRequests
<1>1. Init => Basic /\ BreakerInv
  BY InitBoth
<1>2. (Basic /\ BreakerInv) /\ [Next]_vars => (Basic /\ BreakerInv)'
  BY NextBoth
<1>3. Basic /\ BreakerInv => CountsRequests
  BY BreakerCounts
<1> QED BY <1>1, <1>2, <1>3, PTL DEF Spec

\* What a step that closes a half-open circuit is.
LEMMA ClosingStep ==
  ASSUME Basic, BreakerInv, [Next]_vars, circuit.state = "half-open", circuit'.state = "closed"
  PROVE  \E r \in tests \ tests' :
           \/ last[r] = "ok" \/ Enabled(config.options, "fallback")
           \/ ~ IsFailure(last[r])
<1>1. circuit \in Circuit
  BY DEF Basic, Shape
<1>2. PICK r \in Request : BreakerLeave(r)
  <2>1. ~ HalfOpenAfter /\ circuit' # circuit
    BY DEF HalfOpenAfter
  <2>2. ASSUME NEW r \in Request PROVE ~ BreakerEnter(r)
    BY <2>1 DEF BreakerEnter
  <2> QED BY <2>1, <2>2, CircuitStep
<1> DEFINE t == Inner(r)
           outcome == thread[t].brings
           k == thread[t].at
<1>3. /\ circuit' = IF r \in tests THEN Tested(circuit, outcome) ELSE Counted(circuit, outcome)
      /\ tests' = tests \ {r} /\ At(t, "up", "circuitBreaker") /\ ~ call[r].stream
  BY <1>2 DEF BreakerLeave, Skips
<1>4. r \in tests
  <2>1. CASE r \notin tests
    <3>1. circuit'.state = circuit.state \/ circuit'.state = "open"
      BY <1>1, <1>3, <2>1, CountedFacts
    <3> QED BY <3>1
  <2> QED BY <2>1
<1>5. outcome = "ok" \/ ~ IsFailure(outcome)
  BY <1>1, <1>3, <1>4, TestedFacts
<1>6. outcome = last[r] \/ Enabled(config.options, "fallback")
  <2>1. t \in Thread /\ t[1] = r /\ Shape /\ "up" # "none"
    BY ThreadsOf DEF Basic
  <2>2. /\ call[r] # Undefined /\ thread[t].going = "up" /\ k \in Nat
        /\ k \in DOMAIN call[r].chain /\ call[r].chain[k] = "circuitBreaker"
    BY <1>3, <2>1, AtFacts
  <2>3. k \in Places(call[r], "circuitBreaker") /\ k >= k
    BY <1>3, <2>2 DEF Places
  <2> QED BY <2>2, <2>3 DEF BreakerInv, Truthful
<1>7. r \in tests \ tests'
  BY <1>3, <1>4
<1>8. last[r] = "ok" \/ Enabled(config.options, "fallback") \/ ~ IsFailure(last[r])
  BY <1>5, <1>6
<1> QED BY <1>7, <1>8

\* A half-open circuit closes only on a test whose handler did not fail, as the
\* failure predicate has it (isFailure, circuit-breaker.ts), or that a fallback saved.
THEOREM ClosedBySuccess ==
  ASSUME BreakerOutside
  PROVE  Spec => ClosesOnSuccess
<1> DEFINE Step ==
      circuit.state = "half-open" /\ circuit'.state = "closed" =>
        \E r \in tests \ tests' :
          \/ last[r] = "ok" \/ Enabled(config.options, "fallback")
          \/ IF config.predicate = Undefined THEN ~ DefaultFailurePredicate(last[r])
             ELSE last[r] \notin config.predicate.failures \cup config.predicate.throws
<1>1. Init => Basic /\ BreakerInv
  BY InitBoth
<1>2. (Basic /\ BreakerInv) /\ [Next]_vars => (Basic /\ BreakerInv)'
  BY NextBoth
<1>3. (Basic /\ BreakerInv) /\ [Next]_vars => [Step]_vars
  BY ClosingStep DEF IsFailure
<1> QED BY <1>1, <1>2, <1>3, PTL DEF Spec, ClosesOnSuccess

-----------------------------------------------------------------------------
(* The registry of health statuses *)

\* The registry holds what was last said, of exactly the names it was said of.
Agrees == \A n \in Name : told[n] = IF entries[n] = Absent THEN Absent ELSE entries[n].status

HealthIInv == HealthTypeOK /\ Agrees

LEMMA HealthInitIInv == HealthInit => HealthIInv
  BY DEF HealthInit, HealthIInv, HealthTypeOK, Agrees

\* The streams only read the registry.
LEMMA StreamsRead ==
  ASSUME HealthIInv, UNCHANGED <<entries, told>>
  PROVE  HealthIInv'
  BY DEF HealthIInv, HealthTypeOK, Agrees

\* An entry that is written gets the status that is told.
LEMMA WriteKeeps ==
  ASSUME HealthIInv, NEW n \in Name, NEW s \in ServingStatus, NEW k \in Kind,
         entries' = [entries EXCEPT ![n] = Entry(s, k)],
         told' = [told EXCEPT ![n] = s]
  PROVE  HealthIInv'
<1> DEFINE e == [status |-> s, kind |-> k]
<1>1. e \in [status : ServingStatus, kind : Kind] /\ e.status = s
  OBVIOUS
<1>2. e # Absent
  BY <1>1, AbsentAssumption
<1>3. entries' = [entries EXCEPT ![n] = e]
  BY DEF Entry
<1> HIDE DEF e
<1>4. HealthTypeOK'
  BY <1>1, <1>3 DEF HealthIInv, HealthTypeOK
<1>5. Agrees'
  BY <1>1, <1>2, <1>3 DEF HealthIInv, HealthTypeOK, Agrees
<1> QED BY <1>4, <1>5 DEF HealthIInv

LEMMA UpdateAllStep ==
  ASSUME HealthIInv, NEW status \in ServingStatus, UpdateAll(status)
  PROVE  HealthIInv'
<1> DEFINE e(n) == [status |-> status, kind |-> entries[n].kind]
<1>1. ASSUME NEW n \in Name, entries[n] # Absent
      PROVE  /\ e(n) \in [status : ServingStatus, kind : Kind]
             /\ e(n) # Absent /\ e(n).status = status
  <2>1. entries[n] \in [status : ServingStatus, kind : Kind]
    BY <1>1 DEF HealthIInv, HealthTypeOK
  <2>2. e(n) \in [status : ServingStatus, kind : Kind]
    BY <2>1
  <2> QED BY <2>2, AbsentAssumption
<1>2. entries' = [n \in Name |-> IF entries[n] # Absent THEN e(n) ELSE Absent]
  BY DEF UpdateAll, Entry, Registered
<1> HIDE DEF e
<1>3. HealthTypeOK'
  BY <1>1, <1>2 DEF HealthIInv, HealthTypeOK, UpdateAll
<1>4. ASSUME NEW n \in Name
      PROVE  told'[n] = IF entries'[n] = Absent THEN Absent ELSE entries'[n].status
  <2>1. told[n] = Absent <=> entries[n] = Absent
    BY AbsentAssumption DEF HealthIInv, HealthTypeOK, Agrees
  <2>2. told'[n] = IF told[n] = Absent THEN Absent ELSE status
    BY DEF UpdateAll
  <2> QED BY <1>1, <1>2, <2>1, <2>2
<1> QED BY <1>3, <1>4 DEF HealthIInv, Agrees

LEMMA UpdateStep ==
  ASSUME HealthIInv, NEW n \in Name, NEW status \in ServingStatus, Update(status, n)
  PROVE  HealthIInv'
<1>1. entries[n].kind \in Kind
  BY DEF Update, Registered, HealthIInv, HealthTypeOK
<1> QED BY <1>1, WriteKeeps DEF Update

LEMMA RemoveKeeps ==
  ASSUME HealthIInv, NEW n \in Name,
         entries' = [entries EXCEPT ![n] = Absent], told' = [told EXCEPT ![n] = Absent]
  PROVE  HealthIInv'
  BY DEF HealthIInv, HealthTypeOK, Agrees

\* A server starts: components are left alone, services come and go.
LEMMA InitializeStep ==
  ASSUME HealthIInv, NEW serviceNames \in Servers, Initialize(serviceNames)
  PROVE  HealthIInv'
<1> DEFINE new == [status |-> "UNKNOWN", kind |-> "service"]
<1>1. new \in [status : ServingStatus, kind : Kind] /\ new.status = "UNKNOWN"
  BY DEF ServingStatus, Kind
<1>2. new # Absent
  BY <1>1, AbsentAssumption
<1>3. ASSUME NEW n \in Name
      PROVE  entries'[n] = IF entries[n] # Absent
                           THEN IF entries[n].kind = "service" /\ n \notin serviceNames THEN Absent ELSE entries[n]
                           ELSE IF n \in serviceNames THEN new ELSE Absent
  BY DEF Initialize, Initialized, Registered, Entry
<1>4. ASSUME NEW n \in Name
      PROVE  told'[n] = IF entries[n] # Absent /\ entries[n].kind = "component" THEN told[n]
                        ELSE IF n \notin serviceNames THEN Absent
                        ELSE IF told[n] = Absent THEN "UNKNOWN" ELSE told[n]
  BY DEF Initialize, Registered
<1> HIDE DEF new
<1>5. ASSUME NEW n \in Name
      PROVE  /\ entries'[n] \in [status : ServingStatus, kind : Kind] \cup {Absent}
             /\ told'[n] = IF entries'[n] = Absent THEN Absent ELSE entries'[n].status
  <2>1. told[n] = IF entries[n] = Absent THEN Absent ELSE entries[n].status
    BY DEF HealthIInv, Agrees
  <2>2. CASE entries[n] = Absent
    BY <1>1, <1>2, <1>3, <1>4, <2>1, <2>2
  <2>3. CASE entries[n] # Absent
    <3>1. entries[n] \in [status : ServingStatus, kind : Kind]
      BY <2>3 DEF HealthIInv, HealthTypeOK
    <3>2. told[n] # Absent /\ entries[n].kind \in {"component", "service"}
      BY <2>1, <2>3, <3>1, AbsentAssumption DEF Kind
    <3> QED BY <1>3, <1>4, <2>1, <2>3, <3>1, <3>2
  <2> QED BY <2>2, <2>3
<1>6. DOMAIN entries' = Name /\ entries' = [n \in Name |-> entries'[n]]
  BY DEF Initialize
<1>7. told' \in [Name -> ServingStatus \cup {Absent}]
  BY DEF Initialize, HealthIInv, HealthTypeOK, ServingStatus
<1>8. entries' \in [Name -> [status : ServingStatus, kind : Kind] \cup {Absent}]
  BY <1>5, <1>6
<1> QED BY <1>5, <1>7, <1>8 DEF HealthIInv, HealthTypeOK, Agrees

LEMMA HealthNextKeeps == HealthIInv /\ [HealthNext]_healthVars => HealthIInv'
<1> SUFFICES ASSUME HealthIInv, [HealthNext]_healthVars PROVE HealthIInv'
  OBVIOUS
<1>1. ASSUME NEW status \in ServingStatus, UpdateAll(status) PROVE HealthIInv'
  BY <1>1, UpdateAllStep
<1>2. ASSUME NEW status \in ServingStatus, NEW n \in Name, Update(status, n) PROVE HealthIInv'
  BY <1>2, UpdateStep
<1>3. ASSUME NEW status \in ServingStatus, NEW n \in Name, Register(n, status) \/ Set(n, status) PROVE HealthIInv'
  <2>1. "component" \in Kind
    BY DEF Kind
  <2> QED BY <1>3, <2>1, WriteKeeps DEF Register, Set
<1>4. ASSUME NEW n \in Name, Unregister(n) PROVE HealthIInv'
  BY <1>4, RemoveKeeps DEF Unregister
<1>5. ASSUME NEW serviceNames \in Servers, Initialize(serviceNames) PROVE HealthIInv'
  BY <1>5, InitializeStep
<1>6. CASE Clear
  BY <1>6 DEF Clear, HealthIInv, HealthTypeOK, Agrees
<1>7. ASSUME NEW w \in Watcher,
             Poll(w) \/ Disconnect(w) \/ \E n \in Name \cup {Overall} : Watch(w, n)
      PROVE  HealthIInv'
  BY <1>7, StreamsRead DEF Poll, Disconnect, Watch
<1>8. CASE UNCHANGED healthVars
  BY <1>8, StreamsRead DEF healthVars
<1> QED BY <1>1, <1>2, <1>3, <1>4, <1>5, <1>6, <1>7, <1>8 DEF HealthNext

LEMMA HealthIInvServes == HealthIInv => ServingIsTrue
<1> SUFFICES ASSUME HealthIInv PROVE ServingIsTrue
  OBVIOUS
<1>1. \A n \in Name : told[n] = IF entries[n] = Absent THEN Absent ELSE entries[n].status
  BY DEF HealthIInv, Agrees
<1>2. Overall \notin Name
  BY NameAssumption
<1>3. ASSUME NEW n \in Name
      PROVE  ResolveServiceStatus(n) = IF entries[n] # Absent THEN entries[n].status ELSE "SERVICE_UNKNOWN"
  BY <1>2 DEF ResolveServiceStatus, Registered
<1>4. ASSUME NEW n \in Name, Check(n) = "SERVING" \/ HttpStatus(n) = 200
      PROVE  told[n] = "SERVING"
  <2>1. ResolveServiceStatus(n) = "SERVING"
    BY <1>4 DEF Check, HttpStatus
  <2> QED BY <1>1, <1>3, <2>1
<1>5. \A n \in DOMAIN List : told[n] = List[n]
  BY <1>1 DEF List, Registered
<1>6. ASSUME HttpStatus(Overall) = 200
      PROVE  /\ \E n \in Name : told[n] # Absent
             /\ \A n \in Name : told[n] \in {Absent, "SERVING"}
  <2>1. ResolveServiceStatus(Overall) = "SERVING"
    BY <1>6 DEF HttpStatus
  <2>2. AreAllHealthy
    BY <2>1 DEF ResolveServiceStatus
  <2>3. \A n \in Registered : told[n] = "SERVING"
    BY <1>1, <2>2 DEF AreAllHealthy, Registered
  <2>4. "SERVING" # Absent
    BY AbsentAssumption DEF ServingStatus
  <2> QED BY <1>1, <2>2, <2>3, <2>4 DEF AreAllHealthy, Registered
<1> QED BY <1>4, <1>5, <1>6 DEF ServingIsTrue

\* Whatever is registered, set, removed and initialised, by however many servers,
\* the endpoints of packages/healthcheck never say SERVING of what is not.
THEOREM ServingTrue == HealthSpec => []ServingIsTrue
<1>1. HealthInit => HealthIInv
  BY HealthInitIInv
<1>2. HealthIInv /\ [HealthNext]_healthVars => HealthIInv'
  BY HealthNextKeeps
<1>3. HealthIInv => ServingIsTrue
  BY HealthIInvServes
<1> QED BY <1>1, <1>2, <1>3, PTL DEF HealthSpec
=============================================================================
