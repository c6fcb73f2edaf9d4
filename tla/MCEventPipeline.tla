-------------------------- MODULE MCEventPipeline ---------------------------
(* The instances of EventPipeline that TLC checks; the constants are in the .cfg files. *)
EXTENDS EventPipeline
=============================================================================
