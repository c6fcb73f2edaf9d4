--------------------------- MODULE ServerContract ---------------------------
(***************************************************************************)
(* What a program relies on when it starts and stops a server: the phases  *)
(* of ServerState in order, connections accepted only in between, hooks    *)
(* only once connections are refused, and neither start() nor stop()       *)
(* lasting forever.                                                        *)
(***************************************************************************)
VARIABLES phase,       \* server.state
          accepting,   \* does the server accept connections?
          hooksCalled  \* has a shutdown hook been called?

cvars == <<phase, accepting, hooksCalled>>

Init == phase = "created" /\ accepting = FALSE /\ hooksCalled = FALSE

Start == phase = "created" /\ phase' = "starting" /\ UNCHANGED <<accepting, hooksCalled>>

Serve == phase = "starting" /\ phase' = "running" /\ accepting' = TRUE /\ UNCHANGED hooksCalled

Abandon == phase = "starting" /\ phase' = "stopped" /\ UNCHANGED <<accepting, hooksCalled>>

BeginStop == phase = "running" /\ phase' = "stopping" /\ UNCHANGED <<accepting, hooksCalled>>

Refuse == phase = "stopping" /\ accepting /\ accepting' = FALSE /\ UNCHANGED <<phase, hooksCalled>>

CallHook == phase = "stopping" /\ ~ accepting /\ hooksCalled' = TRUE /\ UNCHANGED <<phase, accepting>>

Finish == phase = "stopping" /\ ~ accepting /\ phase' = "stopped" /\ UNCHANGED <<accepting, hooksCalled>>

Next == Start \/ Serve \/ Abandon \/ BeginStop \/ Refuse \/ CallHook \/ Finish

Spec == Init /\ [][Next]_cvars /\ WF_cvars(Serve \/ Abandon) /\ WF_cvars(Refuse) /\ WF_cvars(Finish)
=============================================================================
