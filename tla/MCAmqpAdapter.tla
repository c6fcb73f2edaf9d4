--------------------------- MODULE MCAmqpAdapter ---------------------------
(* The instances of AmqpAdapter that TLC checks; the constants are in the .cfg files. *)
EXTENDS AmqpAdapter
=============================================================================
