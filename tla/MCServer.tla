------------------------------ MODULE MCServer ------------------------------
(* The instances of Server that TLC checks; the constants are in the .cfg files. *)
EXTENDS Server
=============================================================================
