---------------------------- MODULE EventRouting ----------------------------
(***************************************************************************)
(* Topics of packages/events/src: what a method's topic is, which topics a *)
(* bus publishes to, and which of its handlers an event gets.  Topics,     *)
(* patterns and type names are sequences of segments; a method of an event *)
(* service is its topic option (empty if not set) and its input type.      *)
(***************************************************************************)
EXTENDS Naturals, Sequences

CONSTANT Undefined  \* JavaScript's undefined

EventMethod == [topic : Seq(STRING), input : Seq(STRING)]

Elements(s) == {s[i] : i \in DOMAIN s}
Least(S) == CHOOSE i \in S : \A j \in S : i <= j

\* The loop over the pattern's segments ends at the first one that is ">", has no
\* segment of the topic, or differs from it; else all of it was matched.
MatchPattern(pattern, topic) ==
  LET Ends(i) == \/ pattern[i] = ">"
                 \/ i > Len(topic)
                 \/ pattern[i] # "*" /\ pattern[i] # topic[i]
      ends == {i \in DOMAIN pattern : Ends(i)}
      last == Least(ends)
  IN IF ends = {} THEN Len(pattern) = Len(topic)
     ELSE pattern[last] = ">" /\ last = Len(pattern) /\ last <= Len(topic)

ResolveTopicName(method) == IF method.topic # <<>> THEN method.topic ELSE method.input

-----------------------------------------------------------------------------
(* The maps that start() builds from the options routes and publishes *)

\* publishTopicMap, and the test for a message type with two topics.
PublishTopics(routing) ==
  {<<m.input, ResolveTopicName(m)>> : m \in Elements(routing.routes) \cup Elements(routing.publishes)}

Ambiguous(routing) ==
  \E p, q \in PublishTopics(routing) : p[1] = q[1] /\ p[2] # q[2]

\* The topics of the router's entries, in the order of the routes; in topicHandlerMap
\* each may be there once.
Topics(routing) == [i \in DOMAIN routing.routes |-> ResolveTopicName(routing.routes[i])]

Duplicate(routing) ==
  \E i, j \in DOMAIN Topics(routing) : i # j /\ Topics(routing)[i] = Topics(routing)[j]

\* publish(): the topic that is given or declared, else the type's name.
DeclaredTopic(routing, message) ==
  IF message.topic # Undefined THEN {message.topic}
  ELSE {p[2] : p \in {q \in PublishTopics(routing) : q[1] = message.type}}

EventTypes(routing, message) ==
  IF DeclaredTopic(routing, message) # {} THEN DeclaredTopic(routing, message)
  ELSE IF routing.strictTopics THEN {} ELSE {message.type}

\* Variation: the first handler whose pattern matches, exact topics included.
HandlerInOrder(routing, topic) ==
  LET matching == {i \in DOMAIN Topics(routing) :
                     Topics(routing)[i] = topic \/ MatchPattern(Topics(routing)[i], topic)}
  IN IF matching = {} THEN 0 ELSE Least(matching)

\* The delivery callback: an exact topic first, then the first pattern that
\* matches; 0 if there is none.
HandlerFor(routing, topic) ==
  LET exact == {i \in DOMAIN Topics(routing) : Topics(routing)[i] = topic}
      matching == {i \in DOMAIN Topics(routing) : MatchPattern(Topics(routing)[i], topic)}
  IN IF exact # {} THEN Least(exact)
     ELSE IF matching # {} THEN Least(matching)
     ELSE 0

-----------------------------------------------------------------------------
\* What a pattern means: "*" stands for one segment, a last ">" for one or more,
\* a ">" anywhere else for nothing.
Covers(pattern, topic) ==
  LET n == Len(pattern)
      Alike(k) == \A i \in 1..k : pattern[i] # ">" /\ pattern[i] \in {"*", topic[i]}
  IN \/ Len(topic) = n /\ Alike(n)
     \/ n > 0 /\ Len(topic) >= n /\ pattern[n] = ">" /\ Alike(n - 1)
=============================================================================
