--------------------------- MODULE EventBusProofs ---------------------------
(***************************************************************************)
(* Pattern matching means what it should, for all patterns and topics, and *)
(* the bus routes every event accordingly, for any options and events.     *)
(***************************************************************************)
EXTENDS EventBus, NaturalsInduction, WellFoundedInduction, TLAPS

LEMMA LeastIsLeast ==
  ASSUME NEW S \in SUBSET Nat, S # {}
  PROVE  Least(S) \in S /\ \A j \in S : Least(S) <= j
<1>1. PICK x \in S : \A y \in S : <<y, x>> \notin OpToRel(<, Nat)
  BY WFMin, NatLessThanWellFounded, Zenon
<1>2. ASSUME NEW y \in S PROVE ~ (y < x)
  BY <1>1, Zenon DEF OpToRel
<1>3. \A y \in S : x <= y
  BY <1>2
<1> QED BY <1>3 DEF Least

\* matchPattern agrees with what "*" and ">" mean, for every pattern and topic.
THEOREM MatchIsCover ==
  ASSUME NEW pattern \in Seq(STRING), NEW topicName \in Seq(STRING)
  PROVE  MatchPattern(pattern, topicName) <=> Covers(pattern, topicName)
<1> DEFINE Ends(i) == \/ pattern[i] = ">"
                      \/ i > Len(topicName)
                      \/ pattern[i] # "*" /\ pattern[i] # topicName[i]
           ends == {i \in DOMAIN pattern : Ends(i)}
           last == Least(ends)
           n == Len(pattern)
<1>1. n \in Nat /\ Len(topicName) \in Nat /\ DOMAIN pattern = 1..n
  OBVIOUS
<1>2. MatchPattern(pattern, topicName) <=>
        IF ends = {} THEN n = Len(topicName)
        ELSE pattern[last] = ">" /\ last = n /\ last <= Len(topicName)
  BY DEF MatchPattern
<1>3. Covers(pattern, topicName) <=>
        \/ Len(topicName) = n /\ \A i \in 1..n : pattern[i] # ">" /\ pattern[i] \in {"*", topicName[i]}
        \/ /\ n > 0 /\ Len(topicName) >= n /\ pattern[n] = ">"
           /\ \A i \in 1..n - 1 : pattern[i] # ">" /\ pattern[i] \in {"*", topicName[i]}
  BY DEF Covers
<1>4. CASE ends = {}
  <2>1. \A i \in 1..n : ~ Ends(i)
    BY <1>1, <1>4
  <2>2. n > 0 => pattern[n] # ">"
    BY <1>1, <2>1
  <2> QED BY <1>1, <1>2, <1>3, <1>4, <2>1, <2>2
<1>5. CASE ends # {}
  <2>1. last \in ends /\ \A j \in ends : last <= j
    <3>1. ends \in SUBSET Nat
      BY <1>1
    <3> HIDE DEF ends
    <3> QED BY <1>5, <3>1, LeastIsLeast
  <2>2. last \in 1..n /\ Ends(last)
    BY <1>1, <2>1
  <2> HIDE DEF last
  <2>3. \A i \in 1..last - 1 : ~ Ends(i)
    BY <1>1, <2>1, <2>2
  <2>4. ASSUME pattern[last] = ">", last = n, last <= Len(topicName)
        PROVE  Covers(pattern, topicName)
    BY <1>1, <1>3, <2>2, <2>3, <2>4
  <2>5. ASSUME Len(topicName) = n, \A i \in 1..n : pattern[i] # ">" /\ pattern[i] \in {"*", topicName[i]}
        PROVE  FALSE
    BY <1>1, <2>2, <2>5
  <2>6. ASSUME n > 0, Len(topicName) >= n, pattern[n] = ">",
               \A i \in 1..n - 1 : pattern[i] # ">" /\ pattern[i] \in {"*", topicName[i]}
        PROVE  pattern[last] = ">" /\ last = n /\ last <= Len(topicName)
    <3>1. ASSUME last # n PROVE FALSE
      <4> HIDE DEF n
      <4>1. last \in 1..n - 1 /\ last <= Len(topicName)
        <5>1. last \in 1..n /\ n \in Nat /\ Len(topicName) \in Nat /\ Len(topicName) >= n
          BY <1>1, <2>2, <2>6
        <5> QED BY <3>1, <5>1
      <4>2. pattern[last] # ">" /\ pattern[last] \in {"*", topicName[last]}
        BY <2>6, <4>1
      <4> QED BY <1>1, <2>2, <4>1, <4>2
    <3> QED BY <1>1, <2>6, <3>1
  <2>7. MatchPattern(pattern, topicName) <=> pattern[last] = ">" /\ last = n /\ last <= Len(topicName)
    BY <1>2, <1>5 DEF last
  <2> QED BY <1>3, <2>4, <2>5, <2>6, <2>7
<1> QED BY <1>4, <1>5

LEMMA TopicsTyped ==
  ASSUME NEW r, r.routes \in Seq(EventMethod)
  PROVE  /\ DOMAIN Topics(r) = 1..Len(r.routes) /\ Len(r.routes) \in Nat
         /\ \A i \in DOMAIN Topics(r) : Topics(r)[i] = ResolveTopicName(r.routes[i])
         /\ \A i \in DOMAIN Topics(r) : Topics(r)[i] \in Seq(STRING)
<1>1. DOMAIN r.routes = 1..Len(r.routes) /\ Len(r.routes) \in Nat
  OBVIOUS
<1>2. \A i \in 1..Len(r.routes) : r.routes[i] \in EventMethod
  BY <1>1
<1>3. \A m \in EventMethod : ResolveTopicName(m) \in Seq(STRING)
  BY DEF EventMethod, ResolveTopicName
<1> QED BY <1>1, <1>2, <1>3 DEF Topics

\* The handler of a topic: an exact one if there is one, else one that covers the
\* topic; none only if no handler does.
LEMMA HandlerFits ==
  ASSUME NEW r, r.routes \in Seq(EventMethod), NEW t \in Seq(STRING)
  PROVE  LET h == HandlerFor(r, t)
             topics == Topics(r)
         IN /\ h = 0 => \A i \in DOMAIN topics : topics[i] # t /\ ~ Covers(topics[i], t)
            /\ h # 0 => h \in DOMAIN topics /\ (topics[h] = t \/ Covers(topics[h], t))
            /\ (\E i \in DOMAIN topics : topics[i] = t) => h \in DOMAIN topics /\ topics[h] = t
<1> DEFINE topics == Topics(r)
           exact == {i \in DOMAIN topics : topics[i] = t}
           matching == {i \in DOMAIN topics : MatchPattern(topics[i], t)}
<1>1. /\ DOMAIN topics = 1..Len(r.routes) /\ Len(r.routes) \in Nat
      /\ \A i \in DOMAIN topics : topics[i] \in Seq(STRING)
  BY TopicsTyped
<1>2. HandlerFor(r, t) = IF exact # {} THEN Least(exact) ELSE IF matching # {} THEN Least(matching) ELSE 0
  BY DEF HandlerFor
<1>3. \A i \in DOMAIN topics : MatchPattern(topics[i], t) <=> Covers(topics[i], t)
  BY <1>1, MatchIsCover
<1>4. exact \in SUBSET Nat /\ matching \in SUBSET Nat /\ 0 \notin DOMAIN topics
  BY <1>1
<1> HIDE DEF topics
<1>5. CASE exact # {}
  <2>1. Least(exact) \in exact
    <3> HIDE DEF exact
    <3> QED BY <1>4, <1>5, LeastIsLeast
  <2> QED BY <1>2, <1>4, <1>5, <2>1 DEF topics
<1>6. CASE exact = {} /\ matching # {}
  <2>1. Least(matching) \in matching
    <3> HIDE DEF matching
    <3> QED BY <1>4, <1>6, LeastIsLeast
  <2>2. HandlerFor(r, t) \in matching
    BY <1>2, <1>6, <2>1
  <2> QED BY <1>3, <1>4, <1>6, <2>2 DEF topics
<1>7. CASE exact = {} /\ matching = {}
  BY <1>2, <1>3, <1>4, <1>7 DEF topics
<1> QED BY <1>5, <1>6, <1>7

-----------------------------------------------------------------------------
TopicsOk == ~ Ambiguous(routing) /\ ~ Duplicate(routing)

\* The topic of an event the bus has published is the one it was declared with.
PublishedAsDeclared ==
  \A e \in own : TopicsOk /\ topic[e] \in EventTypes(routing, Message[e])

\* Topics are checked before the first event is published or delivered.
CheckedFirst == startPc = "subscribing" \/ started \/ consuming => TopicsOk

\* A handler is chosen by the topic, which an event keeps.
ChosenByTopic ==
  \A e \in Event :
    /\ event[e] # "new" => topic[e] \in Seq(STRING)
    /\ event[e] = "new" => e \notin own
    /\ handledBy[e] # 0 => event[e] # "new" /\ handledBy[e] = HandlerFor(routing, topic[e])
    /\ event[e] \in {"handling", "acked"} => handledBy[e] = HandlerFor(routing, topic[e])

RoutingTyped ==
  /\ routing \in Routing
  /\ own \subseteq Event
  /\ DOMAIN event = Event /\ DOMAIN topic = Event /\ DOMAIN handledBy = Event

RoutingInv == RoutingTyped /\ PublishedAsDeclared /\ CheckedFirst /\ ChosenByTopic

LEMMA RoutingInit == Init => RoutingInv
  BY DEF Init, RoutingInv, RoutingTyped, PublishedAsDeclared, CheckedFirst, ChosenByTopic

\* The steps of start() and stop() leave the events alone.
LEMMA LifecycleStep ==
  ASSUME RoutingInv,
         \/ Start \/ StartStep \/ ConsumerUp \/ Stop \/ WaiterResumes
         \/ \E r \in Run : RunStep(r)
         \/ UNCHANGED vars
  PROVE  RoutingInv'
<1>1. routing' = routing /\ event' = event /\ topic' = topic /\ own' = own /\ handledBy' = handledBy
  BY DEF StartStep, RunStep, Start, Connected, ConsumerUp, Subscribed, Unwound, Stop, WaiterResumes,
         Unsubscribed, Drained, DrainTimesOut, Disconnected, config, sent, vars
<1>2. RoutingTyped' /\ PublishedAsDeclared' /\ ChosenByTopic'
  BY <1>1 DEF RoutingInv, RoutingTyped, PublishedAsDeclared, ChosenByTopic, TopicsOk
<1>3. CheckedFirst'
  BY <1>1 DEF RoutingInv, CheckedFirst, TopicsOk, StartStep, RunStep, Start, Connected, ConsumerUp, Subscribed,
              Unwound, Unwind, Stop, BeginRun, WaiterResumes, Unsubscribed, Drained, DrainTimesOut, Disconnected,
              flags, adapterVars, vars
<1> QED BY <1>2, <1>3 DEF RoutingInv

LEMMA EventTypesTyped ==
  ASSUME NEW r \in Routing, NEW e \in Event, NEW t \in EventTypes(r, Message[e])
  PROVE  t \in Seq(STRING)
<1>1. \A m \in EventMethod : ResolveTopicName(m) \in Seq(STRING)
  BY DEF EventMethod, ResolveTopicName
<1>2. \A m \in Elements(r.routes) \cup Elements(r.publishes) : m \in EventMethod
  BY RoutingAssumption DEF Elements
<1>3. \A q \in PublishTopics(r) : q[2] \in Seq(STRING)
  BY <1>1, <1>2 DEF PublishTopics
<1>4. \A u \in DeclaredTopic(r, Message[e]) : u \in Seq(STRING)
  BY <1>3, RoutingAssumption DEF DeclaredTopic
<1>5. Message[e].type \in Seq(STRING)
  BY RoutingAssumption
<1> QED BY <1>4, <1>5 DEF EventTypes

\* publish() gives a new event its topic.
LEMMA PublishStep ==
  ASSUME RoutingInv, NEW e \in Event, Publish(e) \/ PublishForeign(e)
  PROVE  RoutingInv'
<1>1. /\ UNCHANGED <<routing, started, startPc, consuming, handledBy>>
      /\ event[e] = "new"
  BY DEF Publish, PublishForeign, config, flags, adapterVars
<1>2. \E t \in Seq(STRING) :
        /\ event' = [event EXCEPT ![e] = "broker"]
        /\ topic' = [topic EXCEPT ![e] = t]
        /\ \/ own' = own
           \/ own' = own \cup {e} /\ started /\ t \in EventTypes(routing, Message[e])
  <2>1. CASE PublishForeign(e)
    BY <2>1, RoutingAssumption DEF PublishForeign
  <2>2. CASE Publish(e)
    BY <2>2, EventTypesTyped DEF Publish, RoutingInv, RoutingTyped
  <2> QED BY <2>1, <2>2
<1>3. ASSUME NEW t \in Seq(STRING),
             event' = [event EXCEPT ![e] = "broker"],
             topic' = [topic EXCEPT ![e] = t],
             \/ own' = own
             \/ own' = own \cup {e} /\ started /\ t \in EventTypes(routing, Message[e])
      PROVE  RoutingInv'
  <2>1. e \notin own /\ handledBy[e] = 0
    BY <1>1 DEF RoutingInv, ChosenByTopic
  <2>2. RoutingTyped' /\ CheckedFirst'
    BY <1>1, <1>3 DEF RoutingInv, RoutingTyped, CheckedFirst, TopicsOk
  <2>3. PublishedAsDeclared'
    BY <1>1, <1>3, <2>1 DEF RoutingInv, RoutingTyped, PublishedAsDeclared, CheckedFirst, TopicsOk
  <2>4. ChosenByTopic'
    BY <1>1, <1>3, <2>1 DEF RoutingInv, RoutingTyped, ChosenByTopic
  <2> QED BY <2>2, <2>3, <2>4 DEF RoutingInv
<1> QED BY <1>2, <1>3

\* The delivery callback chooses the handler by the event's topic.
LEMMA DeliverStep ==
  ASSUME RoutingInv, NEW e \in Event, Deliver(e) \/ DeliverUnhandled(e) \/ HandlerEnds(e)
  PROVE  RoutingInv'
<1>1. UNCHANGED <<routing, started, startPc, consuming, topic, own>>
  BY DEF Deliver, DeliverUnhandled, HandlerEnds, config, flags, adapterVars, sent
<1>2. RoutingTyped' /\ CheckedFirst' /\ PublishedAsDeclared'
  BY <1>1 DEF RoutingInv, RoutingTyped, CheckedFirst, PublishedAsDeclared, TopicsOk, Deliver, DeliverUnhandled,
              HandlerEnds, sent
<1>3. ChosenByTopic'
  <2>1. CASE Deliver(e)
    BY <1>1, <2>1 DEF Deliver, RoutingInv, RoutingTyped, ChosenByTopic
  <2>2. CASE DeliverUnhandled(e)
    BY <1>1, <2>2 DEF DeliverUnhandled, RoutingInv, RoutingTyped, ChosenByTopic, sent
  <2>3. CASE HandlerEnds(e)
    BY <1>1, <2>3 DEF HandlerEnds, RoutingInv, RoutingTyped, ChosenByTopic, sent
  <2> QED BY <2>1, <2>2, <2>3
<1> QED BY <1>2, <1>3 DEF RoutingInv

LEMMA RoutingNext == RoutingInv /\ [Next]_vars => RoutingInv'
  BY LifecycleStep, PublishStep, DeliverStep DEF Next

\* An event that was published for a type which a route declares has that route's
\* topic, and no other route has it.
LEMMA DeclaredIsHandled ==
  ASSUME RoutingInv, NEW e \in own, Message[e].topic = Undefined,
         NEW i \in DOMAIN Topics(routing), routing.routes[i].input = Message[e].type
  PROVE  HandlerFor(routing, topic[e]) = i
<1>1. routing.routes \in Seq(EventMethod)
  BY RoutingAssumption DEF RoutingInv, RoutingTyped
<1>2. /\ Topics(routing)[i] = ResolveTopicName(routing.routes[i])
      /\ i \in DOMAIN routing.routes /\ Topics(routing)[i] \in Seq(STRING)
  BY <1>1, TopicsTyped
<1>3. <<Message[e].type, Topics(routing)[i]>> \in PublishTopics(routing)
  BY <1>2 DEF PublishTopics, Elements
<1>4. topic[e] \in DeclaredTopic(routing, Message[e])
  <2>1. Topics(routing)[i] \in DeclaredTopic(routing, Message[e])
    BY <1>3 DEF DeclaredTopic
  <2> QED BY <2>1 DEF RoutingInv, PublishedAsDeclared, EventTypes
<1>5. topic[e] = Topics(routing)[i]
  BY <1>3, <1>4 DEF RoutingInv, PublishedAsDeclared, TopicsOk, Ambiguous, DeclaredTopic
<1>6. HandlerFor(routing, topic[e]) \in DOMAIN Topics(routing)
      /\ Topics(routing)[HandlerFor(routing, topic[e])] = topic[e]
  BY <1>1, <1>2, <1>5, HandlerFits
<1> QED BY <1>5, <1>6 DEF RoutingInv, PublishedAsDeclared, TopicsOk, Duplicate

LEMMA RoutingInvRoutes == RoutingInv => RoutedAsDeclared
<1> SUFFICES ASSUME RoutingInv, NEW e \in Event, event[e] \in {"handling", "acked"}
             PROVE  LET h == handledBy[e]
                        topics == Topics(routing)
                        Fits(i) == topics[i] = topic[e] \/ Covers(topics[i], topic[e])
                        declares == {i \in DOMAIN topics : routing.routes[i].input = Message[e].type}
                    IN /\ IF h = 0 THEN \A i \in DOMAIN topics : ~ Fits(i) ELSE Fits(h)
                       /\ e \in own /\ Message[e].topic = Undefined /\ declares # {} => h \in declares
  BY DEF RoutedAsDeclared
<1>1. routing.routes \in Seq(EventMethod)
  BY RoutingAssumption DEF RoutingInv, RoutingTyped
<1>2. topic[e] \in Seq(STRING) /\ handledBy[e] = HandlerFor(routing, topic[e])
  BY DEF RoutingInv, ChosenByTopic
<1>3. /\ handledBy[e] = 0 => \A i \in DOMAIN Topics(routing) :
                               Topics(routing)[i] # topic[e] /\ ~ Covers(Topics(routing)[i], topic[e])
      /\ handledBy[e] # 0 => \/ Topics(routing)[handledBy[e]] = topic[e]
                             \/ Covers(Topics(routing)[handledBy[e]], topic[e])
  BY <1>1, <1>2, HandlerFits
<1>4. ASSUME e \in own, Message[e].topic = Undefined,
             NEW i \in DOMAIN Topics(routing), routing.routes[i].input = Message[e].type
      PROVE  handledBy[e] = i
  BY <1>2, <1>4, DeclaredIsHandled
<1> QED BY <1>3, <1>4

\* For any routes, any events and any order of start(), stop(), publishes and
\* deliveries, the event bus gives each event the handler its topic asks for.
THEOREM RoutesAsDeclared == Spec => []RoutedAsDeclared
<1>1. Init => RoutingInv
  BY RoutingInit
<1>2. RoutingInv /\ [Next]_vars => RoutingInv'
  BY RoutingNext
<1>3. RoutingInv => RoutedAsDeclared
  BY RoutingInvRoutes
<1> QED BY <1>1, <1>2, <1>3, PTL DEF Spec

-----------------------------------------------------------------------------
(***************************************************************************)
(* Stopping.  Several stop() calls that await the same start() all run the *)
(* procedure (EventBus.ts:276), and the fastest one clears the flags.  The *)
(* others then do no harm: the bus has no connection, no deliveries and no *)
(* handlers, until somebody calls start().                                 *)
(***************************************************************************)

RunPc == {"none", "unsubscribing", "draining", "aborting", "disconnecting", "done"}

StoppingTyped ==
  /\ runPc \in [Run -> RunPc]
  /\ DOMAIN event = Event
  /\ started \in BOOLEAN /\ starting \in BOOLEAN /\ stopping \in BOOLEAN /\ draining \in BOOLEAN
  /\ connected \in BOOLEAN /\ consuming \in BOOLEAN /\ overtaken \in BOOLEAN

\* The flags say where start() is, and whether a connection is held.
StartingMeaning ==
  /\ starting <=> startPc # "idle"
  /\ starting => ~ started /\ ~ stopping
  /\ stopping => started
  /\ startPc = "subscribing" => connected
  /\ startPc = "unwinding" => ~ connected
  /\ startPc = "idle" /\ ~ started => ~ connected
  /\ started /\ ~ stopping => connected

\* While the bus stops there is a run and no delivery begins; a run that another
\* one has outpaced finds everything done.
StoppingMeaning ==
  /\ stopping => draining /\ \E r \in Run : Active(r)
  /\ \A r \in Run : Active(r) =>
       /\ ~ starting
       /\ ~ stopping => ~ started /\ ~ connected /\ ~ consuming /\ inFlight = {}

\* What a run has waited for.
DrainMeaning ==
  /\ \A e \in Event : event[e] = "handling" => e \in inFlight
  /\ \A r \in Run :
       /\ runPc[r] = "aborting" => inFlight \subseteq signalled
       /\ runPc[r] = "disconnecting" => inFlight = {} /\ ~ connected /\ ~ consuming

Undisturbed == StartingMeaning /\ StoppingMeaning /\ DrainMeaning

StoppingInv == StoppingTyped /\ (~ overtaken => Undisturbed)

LEMMA StoppingInit == Init => StoppingInv
<1> SUFFICES ASSUME Init
             PROVE  StoppingInv
  OBVIOUS
<1>1. StoppingTyped
  BY DEF Init, StoppingTyped, RunPc
<1>2. StartingMeaning /\ StoppingMeaning /\ DrainMeaning
  BY DEF Init, StartingMeaning, StoppingMeaning, DrainMeaning, Active
<1> QED BY <1>1, <1>2 DEF StoppingInv, Undisturbed

LEMMA StoppingTypedNext == StoppingTyped /\ [Next]_vars => StoppingTyped'
<1> SUFFICES ASSUME StoppingTyped, [Next]_vars
             PROVE  StoppingTyped'
  OBVIOUS
<1> USE DEF StoppingTyped, flags, adapterVars
<1>1. CASE Start \/ StartStep \/ ConsumerUp
  <2>1. CASE Start
    <3>1. overtaken' \in BOOLEAN
      BY <2>1, Zenon DEF Start
    <3> QED BY <2>1, <3>1 DEF Start
  <2>2. CASE StartStep \/ ConsumerUp
    <3>1. consuming' \in BOOLEAN
      BY <2>2 DEF StartStep, Connected, Subscribed, Unwound, Unwind, ConsumerUp, hasRoutes
    <3> QED BY <2>2, <3>1 DEF StartStep, Connected, Subscribed, Unwound, Unwind, ConsumerUp
  <2> QED BY <1>1, <2>1, <2>2
<1>2. CASE Stop \/ WaiterResumes
  BY <1>2 DEF Stop, WaiterResumes, BeginRun, RunPc
<1>3. ASSUME NEW r \in Run, RunStep(r)
      PROVE  StoppingTyped'
  <2>1. PICK pc \in RunPc : runPc' = [runPc EXCEPT ![r] = pc]
    BY <1>3 DEF RunStep, Unsubscribed, AfterUnsubscribe, Drained, DrainTimesOut, Disconnected, RunPc
  <2>2. connected' \in BOOLEAN /\ consuming' \in BOOLEAN
    BY <1>3 DEF RunStep, Unsubscribed, AfterUnsubscribe, Drained, DrainTimesOut, Disconnected
  <2> QED BY <1>3, <2>1, <2>2 DEF RunStep, Unsubscribed, Drained, DrainTimesOut, Disconnected
<1>4. ASSUME NEW e \in Event,
             Publish(e) \/ PublishForeign(e) \/ Deliver(e) \/ DeliverUnhandled(e) \/ HandlerEnds(e)
      PROVE  StoppingTyped'
  BY <1>4 DEF Publish, PublishForeign, Deliver, DeliverUnhandled, HandlerEnds
<1>5. CASE UNCHANGED vars
  BY <1>5 DEF vars
<1> QED BY <1>1, <1>2, <1>3, <1>4, <1>5 DEF Next

\* The steps of start().
LEMMA StartingStep ==
  ASSUME StoppingTyped, Undisturbed, ~ overtaken', Start \/ StartStep \/ ConsumerUp
  PROVE  Undisturbed'
<1> USE DEF Undisturbed, flags, adapterVars
<1>1. UNCHANGED <<runPc, event, inFlight, signalled, stopping, draining>>
  BY DEF Start, StartStep, Connected, Subscribed, Unwound, ConsumerUp
<1>2. \A r \in Run : ~ Active(r)
  <2>1. CASE Start
    BY <2>1 DEF Start
  <2>2. CASE StartStep \/ ConsumerUp
    BY <2>2 DEF StartStep, Connected, Subscribed, Unwound, ConsumerUp, StartingMeaning, StoppingMeaning
  <2> QED BY <2>1, <2>2
<1>3. StoppingMeaning' /\ DrainMeaning'
  BY <1>1, <1>2 DEF StoppingMeaning, DrainMeaning, Active
<1>4. StartingMeaning'
  BY <1>1 DEF StartingMeaning, Start, StartStep, Connected, Subscribed, Unwound, Unwind, ConsumerUp
<1> QED BY <1>3, <1>4

\* The calls of stop().
LEMMA StopCallStep ==
  ASSUME StoppingTyped, Undisturbed, Stop \/ WaiterResumes
  PROVE  Undisturbed'
<1> USE DEF Undisturbed, flags, adapterVars
<1>1. UNCHANGED <<event, inFlight, signalled, started, starting, startPc, connected, consuming>>
  BY DEF Stop, WaiterResumes, BeginRun
<1>2. ASSUME UNCHANGED <<flags, runPc>>
      PROVE  Undisturbed'
  BY <1>1, <1>2 DEF StartingMeaning, StoppingMeaning, DrainMeaning, Active
<1>3. ASSUME NEW r \in Run, BeginRun(r), started, ~ starting
      PROVE  Undisturbed'
  <2>1. runPc' = [runPc EXCEPT ![r] = "unsubscribing"] /\ stopping' /\ draining'
    BY <1>3 DEF BeginRun
  <2>2. /\ runPc'[r] = "unsubscribing"
        /\ \A s \in Run \ {r} : runPc'[s] = runPc[s]
    BY <2>1 DEF StoppingTyped
  <2>3. StoppingMeaning' /\ DrainMeaning'
    BY <1>1, <1>3, <2>1, <2>2 DEF StoppingMeaning, DrainMeaning, Active
  <2>4. StartingMeaning'
    BY <1>1, <1>3, <2>1 DEF StartingMeaning
  <2> QED BY <2>3, <2>4
<1> QED BY <1>2, <1>3 DEF Stop, WaiterResumes

\* The steps of a run, whatever the others do.
LEMMA RunStepStep ==
  ASSUME StoppingTyped, StoppingTyped', Undisturbed, NEW r \in Run, RunStep(r)
  PROVE  Undisturbed'
<1> USE DEF Undisturbed, flags, adapterVars
<1>1. Active(r) /\ ~ starting /\ startPc = "idle"
  BY DEF RunStep, Unsubscribed, Drained, DrainTimesOut, Disconnected, Active, StoppingMeaning, StartingMeaning
<1>2. UNCHANGED <<event, startPc, starting>>
  BY DEF RunStep, Unsubscribed, Drained, DrainTimesOut, Disconnected
<1>3. PICK pc \in RunPc : runPc' = [runPc EXCEPT ![r] = pc]
  BY DEF RunStep, Unsubscribed, AfterUnsubscribe, Drained, DrainTimesOut, Disconnected, RunPc
<1>4. /\ runPc'[r] = pc
      /\ \A s \in Run \ {r} : runPc'[s] = runPc[s]
  BY <1>3 DEF StoppingTyped
<1>5. CASE Disconnected(r)
  <2>1. /\ ~ started' /\ ~ stopping'
        /\ UNCHANGED <<inFlight, signalled, connected, consuming>>
        /\ ~ connected /\ ~ consuming /\ inFlight = {} /\ pc = "done"
    BY <1>4, <1>5 DEF Disconnected, DrainMeaning, StoppingTyped
  <2>2. StoppingMeaning'
    BY <1>1, <1>2, <2>1 DEF StoppingMeaning
  <2>3. DrainMeaning'
    BY <1>2, <1>4, <2>1 DEF DrainMeaning
  <2>4. StartingMeaning'
    BY <1>1, <1>2, <2>1 DEF StartingMeaning
  <2> QED BY <2>2, <2>3, <2>4
<1>6. ASSUME UNCHANGED flags,
             inFlight' = inFlight \/ inFlight' = {},
             \A e \in Event : event[e] = "handling" => e \in inFlight',
             connected' => connected, consuming' => consuming,
             pc \in {"draining", "aborting", "disconnecting"},
             (\E s \in Run : runPc'[s] = "aborting") => inFlight' \subseteq signalled',
             pc = "disconnecting" => inFlight' = {} /\ ~ connected' /\ ~ consuming',
             started /\ ~ stopping => connected'
      PROVE  Undisturbed'
  <2>1. Active(r)'
    BY <1>4, <1>6 DEF Active
  <2>2. \A s \in Run : Active(s)' => Active(s)
    BY <1>1, <1>4 DEF Active
  <2>3. StoppingMeaning'
    BY <1>1, <1>2, <1>6, <2>1, <2>2 DEF StoppingMeaning
  <2>4. DrainMeaning'
    BY <1>2, <1>4, <1>6 DEF DrainMeaning
  <2>5. StartingMeaning'
    BY <1>1, <1>2, <1>6 DEF StartingMeaning
  <2> QED BY <2>3, <2>4, <2>5
<1>7. ~ (started /\ ~ stopping)
  BY <1>1 DEF StoppingMeaning
<1>8. CASE Unsubscribed(r)
  <2>1. inFlight' = inFlight /\ (connected' => connected) /\ (consuming' => consuming)
    BY <1>8 DEF Unsubscribed, AfterUnsubscribe, StoppingTyped
  <2>2. /\ pc \in {"draining", "aborting", "disconnecting"}
        /\ signalled' = IF pc = "aborting" THEN inFlight ELSE signalled
        /\ pc = "disconnecting" => inFlight = {} /\ ~ connected'
    BY <1>4, <1>8 DEF Unsubscribed, AfterUnsubscribe, StoppingTyped
  <2>3. pc = "disconnecting" => ~ consuming'
    BY <1>8, <2>2 DEF Unsubscribed, StoppingTyped
  <2>4. (\E s \in Run : runPc'[s] = "aborting") => inFlight \subseteq signalled'
    BY <1>4, <2>2 DEF DrainMeaning
  <2>5. UNCHANGED flags
    BY <1>8 DEF Unsubscribed
  <2> QED BY <1>6, <1>7, <2>1, <2>2, <2>3, <2>4, <2>5 DEF DrainMeaning
<1>9. CASE Drained(r)
  <2>1. inFlight = {} /\ inFlight' = {} /\ ~ connected' /\ ~ consuming' /\ UNCHANGED flags
    BY <1>9 DEF Drained, DrainMeaning
  <2>2. pc = "disconnecting"
    BY <1>4, <1>9 DEF Drained, StoppingTyped
  <2> QED BY <1>6, <1>7, <2>1, <2>2 DEF DrainMeaning
<1>10. CASE DrainTimesOut(r)
  <2>1. pc = "aborting" /\ signalled' = inFlight /\ UNCHANGED <<inFlight, connected, consuming, flags>>
    BY <1>4, <1>10 DEF DrainTimesOut, StoppingTyped
  <2> QED BY <1>6, <1>7, <2>1 DEF DrainMeaning
<1> QED BY <1>5, <1>8, <1>9, <1>10 DEF RunStep

\* Publishes and deliveries.
LEMMA EventStep ==
  ASSUME StoppingTyped, Undisturbed, NEW e \in Event,
         Publish(e) \/ PublishForeign(e) \/ Deliver(e) \/ DeliverUnhandled(e) \/ HandlerEnds(e)
  PROVE  Undisturbed'
<1> USE DEF Undisturbed, flags, adapterVars
<1>1. UNCHANGED <<flags, startPc, runPc, connected, consuming>>
  BY DEF Publish, PublishForeign, Deliver, DeliverUnhandled, HandlerEnds
<1>2. StartingMeaning'
  BY <1>1 DEF StartingMeaning
<1>3. CASE Publish(e) \/ PublishForeign(e) \/ DeliverUnhandled(e)
  BY <1>1, <1>2, <1>3 DEF Publish, PublishForeign, DeliverUnhandled, StoppingMeaning, DrainMeaning, StoppingTyped,
                          Active
<1>4. CASE Deliver(e)
  <2>1. \A r \in Run : ~ Active(r)
    BY <1>4 DEF Deliver, StoppingMeaning
  <2> QED BY <1>1, <1>2, <1>4, <2>1 DEF Deliver, StoppingMeaning, DrainMeaning, Active, StoppingTyped
<1>5. CASE HandlerEnds(e)
  <2>1. StoppingMeaning'
    BY <1>1, <1>5 DEF HandlerEnds, StoppingMeaning, Active
  <2>2. DrainMeaning'
    BY <1>1, <1>5 DEF HandlerEnds, DrainMeaning, StoppingTyped
  <2> QED BY <1>2, <2>1, <2>2
<1> QED BY <1>3, <1>4, <1>5

LEMMA OvertakenKept ==
  ASSUME StoppingTyped, StoppingTyped', [Next]_vars
  PROVE  overtaken' = overtaken \/ (Start /\ ~ overtaken /\ overtaken')
<1>1. CASE Start
  <2>1. overtaken => overtaken'
    BY <1>1, Zenon DEF Start
  <2> QED BY <1>1, <2>1 DEF StoppingTyped
<1>2. CASE ~ Start
  BY <1>2 DEF Next, vars, StartStep, Connected, Subscribed, Unwound, ConsumerUp, Stop, WaiterResumes, RunStep,
              Unsubscribed, Drained, DrainTimesOut, Disconnected, Publish, PublishForeign, Deliver,
              DeliverUnhandled, HandlerEnds
<1> QED BY <1>1, <1>2

LEMMA StoppingNext == StoppingInv /\ [Next]_vars => StoppingInv'
<1> SUFFICES ASSUME StoppingInv, [Next]_vars
             PROVE  StoppingInv'
  OBVIOUS
<1> USE DEF StoppingInv
<1>1. StoppingTyped /\ StoppingTyped'
  BY StoppingTypedNext
<1>2. ASSUME ~ overtaken'
      PROVE  Undisturbed'
  <2>1. ~ overtaken
    BY <1>1, <1>2, OvertakenKept DEF StoppingTyped
  <2>2. CASE UNCHANGED vars
    BY <2>1, <2>2 DEF vars, flags, adapterVars, Undisturbed, StartingMeaning, StoppingMeaning, DrainMeaning, Active
  <2> QED BY <1>1, <1>2, <2>1, <2>2, StartingStep, StopCallStep, RunStepStep, EventStep DEF Next
<1> QED BY <1>1, <1>2

\* However many stop() calls run at once, the adapter is disconnected only when no
\* handler is executing, for any number of events and of sessions, as long as
\* start() waits for them.
THEOREM DrainsFirst == Spec => []DrainedBeforeDisconnect
<1>1. StoppingInv /\ [Next]_vars => StoppingInv'
  BY StoppingNext
<1>2. StoppingInv => DrainedBeforeDisconnect
  BY DEF StoppingInv, Undisturbed, DrainMeaning, DrainedBeforeDisconnect
<1> QED BY <1>1, <1>2, StoppingInit, PTL DEF Spec

\* Each step of the bus is a step of the bus the server relies on.
LEMMA LifecycleSafeStep ==
  ASSUME StoppingInv, StoppingInv', [Next]_vars
  PROVE  [Lifecycle!Next]_(Lifecycle!bvars)
<1> DEFINE Goal == [Lifecycle!Next]_(Lifecycle!bvars)
<1>1. overtaken' = overtaken \/ (Start /\ ~ overtaken /\ overtaken')
  BY OvertakenKept DEF StoppingInv, StoppingTyped
<1>2. CASE overtaken
  BY <1>1, <1>2 DEF StoppingInv, StoppingTyped, Lifecycle!Next, Lifecycle!Disturbed, Lifecycle!bvars
<1>3. CASE ~ overtaken
  <2> USE <1>3 DEF StoppingInv, Undisturbed, StoppingTyped, StartingMeaning, flags, adapterVars
  <2>1. ASSUME UNCHANGED <<started, starting, stopping, connected, overtaken>> PROVE Goal
    BY <2>1 DEF Lifecycle!bvars
  <2>2. ASSUME Start PROVE Goal
    BY <1>1, <2>2 DEF Start, Lifecycle!Next, Lifecycle!InOrder, Lifecycle!Overtake, Lifecycle!Start
  <2>3. ASSUME Connected \/ ConsumerUp PROVE Goal
    BY <2>3 DEF Connected, ConsumerUp, Unwind, Lifecycle!Next, Lifecycle!InOrder, Lifecycle!Connect
  <2>4. ASSUME Subscribed PROVE Goal
    <3>1. starting /\ ~ stopping /\ connected /\ overtaken' = overtaken
      BY <2>4 DEF Subscribed
    <3>2. CASE started' /\ ~ starting' /\ UNCHANGED <<stopping, connected>>
      BY <3>1, <3>2 DEF Lifecycle!Next, Lifecycle!InOrder, Lifecycle!Started
    <3>3. CASE UNCHANGED flags /\ ~ connected'
      BY <3>1, <3>3 DEF Lifecycle!Next, Lifecycle!InOrder, Lifecycle!Connect
    <3> QED BY <2>4, <3>2, <3>3 DEF Subscribed, Unwind
  <2>5. ASSUME Unwound PROVE Goal
    BY <2>5 DEF Unwound, Lifecycle!Next, Lifecycle!InOrder, Lifecycle!StartFails
  <2>6. ASSUME Stop \/ WaiterResumes PROVE Goal
    <3>1. ASSUME NEW r \in Run, BeginRun(r), started, ~ starting, UNCHANGED <<connected, overtaken>>
          PROVE  Goal
      <4>1. CASE stopping
        BY <3>1, <4>1 DEF BeginRun, Lifecycle!bvars
      <4>2. CASE ~ stopping
        BY <3>1, <4>2 DEF BeginRun, Lifecycle!Next, Lifecycle!InOrder, Lifecycle!Stop
      <4> QED BY <4>1, <4>2
    <3> HIDE DEF Goal
    <3> QED BY <2>1, <2>6, <3>1 DEF Stop, WaiterResumes
  <2>7. ASSUME NEW r \in Run, RunStep(r) PROVE Goal
    <3>1. /\ ~ starting /\ overtaken' = overtaken
          /\ ~ stopping => ~ started /\ ~ connected
      BY <2>7 DEF RunStep, Unsubscribed, Drained, DrainTimesOut, Disconnected, Active, StoppingMeaning
    <3>2. CASE Disconnected(r)
      BY <3>1, <3>2 DEF Disconnected, DrainMeaning, Lifecycle!Next, Lifecycle!InOrder, Lifecycle!Stopped,
                        Lifecycle!bvars
    <3>3. CASE UNCHANGED flags /\ (connected' = connected \/ ~ connected')
      BY <3>1, <3>3 DEF Lifecycle!Next, Lifecycle!InOrder, Lifecycle!Release, Lifecycle!bvars
    <3> QED BY <2>7, <3>2, <3>3 DEF RunStep, Unsubscribed, AfterUnsubscribe, Drained, DrainTimesOut
  <2>8. ASSUME NEW e \in Event,
               Publish(e) \/ PublishForeign(e) \/ Deliver(e) \/ DeliverUnhandled(e) \/ HandlerEnds(e)
        PROVE  Goal
    BY <2>1, <2>8 DEF Publish, PublishForeign, Deliver, DeliverUnhandled, HandlerEnds
  <2>9. ASSUME UNCHANGED vars PROVE Goal
    BY <2>1, <2>9 DEF vars
  <2>10. Goal
    <3> HIDE DEF Goal
    <3> QED BY <2>2, <2>3, <2>4, <2>5, <2>6, <2>7, <2>8, <2>9 DEF Next, StartStep
  <2> QED BY <2>10
<1> QED BY <1>2, <1>3

\* The bus implements the safety part of the bus the server relies on: it is
\* started, stopped and started again in order, and holds a connection only from
\* start() to stop(), for any number of stop() calls at any time.
THEOREM BusKeepsLifecycle ==
  Spec => Lifecycle!Init /\ [][Lifecycle!Next]_(Lifecycle!bvars)
<1>1. StoppingInv /\ [Next]_vars => StoppingInv'
  BY StoppingNext
<1>2. Init => Lifecycle!Init
  BY DEF Init, Lifecycle!Init
<1>3. StoppingInv /\ StoppingInv' /\ [Next]_vars => [Lifecycle!Next]_(Lifecycle!bvars)
  BY LifecycleSafeStep
<1> QED BY <1>1, <1>2, <1>3, StoppingInit, PTL DEF Spec
=============================================================================
