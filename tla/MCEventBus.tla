----------------------------- MODULE MCEventBus -----------------------------
(***************************************************************************)
(* Buses with up to two routes, over topics that cover one another, with   *)
(* publish-only services and strict topics.  One event is published by its *)
(* type, the other one to a topic that is given.                           *)
(***************************************************************************)
EXTENDS EventBus

Order == <<"shop", "Order">>
User == <<"shop", "User">>

Method == [topic : {<<>>, <<"shop", "*">>, <<"shop", ">">>}, input : {Order, User}]
NoTopic(type) == [topic |-> <<>>, input |-> type]
Given(t) == [topic |-> t, input |-> Order]

MCRouting ==
  [routes : {<<>>} \cup {<<m>> : m \in Method} \cup (Method \X Method), publishes : {<<>>}, strictTopics : {FALSE}]
  \cup [routes : {<<>>, <<Given(<<"shop", ">", "Order">>)>>, <<Given(<<"*", "User", "vip">>)>>},
        publishes : {<<>>, <<Given(<<"shop", "new">>), NoTopic(User)>>, <<NoTopic(Order), Given(<<"shop", "new">>)>>},
        strictTopics : {TRUE}]

MCMessage(e) == IF e = 1 THEN [type |-> Order, topic |-> Undefined] ELSE [type |-> User, topic |-> <<"shop", ">">>]
MCMessages == [e \in Event |-> MCMessage(e)]
MCForeign == {<<"shop">>, <<"shop", "User", "vip">>}
=============================================================================
