-------------------------- MODULE MCAmqpPublisher --------------------------
(* The instances of AmqpPublisher that TLC checks; the constants are in the .cfg files. *)
EXTENDS AmqpPublisher
=============================================================================
