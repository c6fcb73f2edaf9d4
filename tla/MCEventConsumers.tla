-------------------------- MODULE MCEventConsumers --------------------------
(***************************************************************************)
(* Two processes, two events: event 1 matches the first pattern, event 2   *)
(* the second one.                                                         *)
(***************************************************************************)
EXTENDS EventConsumers

MCPatterns == <<"orders", "users">>
MCPatternOf == [e \in Event |-> IF e = 1 THEN "orders" ELSE "users"]
MCAdapters == {"redis", "nats", "kafka", "amqp"}
=============================================================================
