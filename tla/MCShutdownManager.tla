------------------------- MODULE MCShutdownManager --------------------------
(* The instances of ShutdownManager that TLC checks; the constants are in the .cfg files. *)
EXTENDS ShutdownManager
=============================================================================
