---------------------------- MODULE StreamBridge ----------------------------
(***************************************************************************)
(* The push-to-pull queue of ctx.stream (packages/core/src/streamBridge.ts)*)
(* One side pushes values and closes or fails the queue; the transport     *)
(* pulls them from an async generator, which parks on a promise when there *)
(* is nothing to yield.  The generator's place is in reader:               *)
(*   "idle"     its caller has not asked for a value                       *)
(*   "parked"   it awaits the promise whose resolve function is notify     *)
(*   "resumed"  that promise is resolved; the continuation is still queued *)
(*   "ended", "threw"  it has returned, or thrown the failure              *)
(***************************************************************************)
EXTENDS Sequences

CONSTANT Value   \* what may be pushed

VARIABLES
  buffer,   \* pushed and not yet yielded
  closed,   \* close() or fail() was called
  failure,  \* fail() was called
  notify,   \* is a resolve function registered?
  reader,   \* where the generator is
  pushed,   \* history: every value push() took
  pulled    \* history: every value yielded

qvars == <<buffer, closed, failure, notify, reader, pushed, pulled>>

QueueInit ==
  /\ buffer = <<>> /\ closed = FALSE /\ failure = FALSE /\ notify = FALSE
  /\ reader = "idle" /\ pushed = <<>> /\ pulled = <<>>

\* Variation: nobody is woken.
WakeNobody == UNCHANGED <<notify, reader>>

\* wake(): take the resolve function and call it.
Wake ==
  /\ notify' = FALSE
  /\ reader' = IF notify THEN "resumed" ELSE reader

\* push() after close() or fail() does nothing.
Push(v) ==
  /\ ~ closed /\ ~ failure
  /\ buffer' = Append(buffer, v)
  /\ pushed' = Append(pushed, v)
  /\ Wake
  /\ UNCHANGED <<closed, failure, pulled>>

Close ==
  /\ closed' = TRUE
  /\ Wake
  /\ UNCHANGED <<buffer, failure, pushed, pulled>>

Fail ==
  /\ failure' = TRUE /\ closed' = TRUE
  /\ Wake
  /\ UNCHANGED <<buffer, pushed, pulled>>

\* One turn of the generator's loop, when it is asked for a value or resumed.
Pull ==
  /\ reader \in {"idle", "resumed"}
  /\ \/ /\ buffer # <<>>
        /\ buffer' = Tail(buffer) /\ pulled' = Append(pulled, Head(buffer))
        /\ reader' = "idle" /\ UNCHANGED notify
     \/ /\ buffer = <<>> /\ closed
        /\ reader' = IF failure THEN "threw" ELSE "ended"
        /\ UNCHANGED <<buffer, pulled, notify>>
     \/ /\ buffer = <<>> /\ ~ closed
        /\ reader' = "parked" /\ notify' = TRUE
        /\ UNCHANGED <<buffer, pulled>>
  /\ UNCHANGED <<closed, failure, pushed>>

QueueNext == (\E v \in Value : Push(v)) \/ Close \/ Fail \/ Pull

QueueSpec == QueueInit /\ [][QueueNext]_qvars

-----------------------------------------------------------------------------
QueueTypeOK ==
  /\ buffer \in Seq(Value) /\ pushed \in Seq(Value) /\ pulled \in Seq(Value)
  /\ closed \in BOOLEAN /\ failure \in BOOLEAN /\ notify \in BOOLEAN
  /\ reader \in {"idle", "parked", "resumed", "ended", "threw"}

(***************************************************************************)
(* Nothing pushed is lost, reordered or cut off by close() or fail(), and  *)
(* no wake-up is missed: a generator that is parked has a resolve function *)
(* registered and truly nothing to do, whatever was pushed, closed or      *)
(* failed while its continuation was queued.                               *)
(***************************************************************************)
InputDelivered ==
  /\ pushed = pulled \o buffer
  /\ reader \in {"ended", "threw"} => closed /\ buffer = <<>>
  /\ reader = "parked" => notify /\ buffer = <<>> /\ ~ closed
=============================================================================
