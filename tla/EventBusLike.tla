---------------------------- MODULE EventBusLike ----------------------------
(***************************************************************************)
(* The event bus as the server sees it (EventBusLike, packages/core/src/   *)
(* types.ts): start() brings it up or fails, stop() takes it down, and     *)
(* neither lasts forever.  In return start() is not called again before    *)
(* the stop() calls have ended; the contract says no more about a bus on   *)
(* which it was.                                                           *)
(***************************************************************************)
VARIABLES bus,       \* "stopped", "starting", "started" or "stopping"
          link,      \* does it hold a connection to the broker?
          overtaken  \* was start() called before every stop() had ended?

bvars == <<bus, link, overtaken>>

Init == bus = "stopped" /\ link = FALSE /\ overtaken = FALSE

Start == bus = "stopped" /\ ~ link /\ bus' = "starting" /\ UNCHANGED link

\* The connection is made, and given up again, while starting.
Connect == bus = "starting" /\ link' \in BOOLEAN /\ UNCHANGED bus

Started == bus = "starting" /\ link /\ bus' = "started" /\ UNCHANGED link

StartFails == bus = "starting" /\ ~ link /\ bus' = "stopped" /\ UNCHANGED link

Stop == bus = "started" /\ bus' = "stopping" /\ UNCHANGED link

Release == bus = "stopping" /\ link' = FALSE /\ UNCHANGED bus

Stopped == bus = "stopping" /\ ~ link /\ bus' = "stopped" /\ UNCHANGED link

InOrder == Start \/ Connect \/ Started \/ StartFails \/ Stop \/ Release \/ Stopped

\* start() comes too early: it finds the bus stopped, and starts it.
Overtake == Start /\ overtaken' = TRUE

Disturbed ==
  /\ overtaken /\ UNCHANGED overtaken
  /\ bus' \in {"stopped", "starting", "started", "stopping"} /\ link' \in BOOLEAN

Next == (InOrder /\ UNCHANGED overtaken) \/ Overtake \/ Disturbed

\* start() and stop() come to an end, on any bus.
Spec ==
  /\ Init /\ [][Next]_bvars
  /\ bus = "starting" ~> bus # "starting"
  /\ bus = "stopping" ~> bus # "stopping"
=============================================================================
