--------------------------- MODULE LifecycleContract ---------------------------
(***************************************************************************)
(* What GatewayApplication promises about the parts it owns: it starts     *)
(* them only while it is up, none is started once closing has begun, and   *)
(* it is down only when all of them have ended, for good.                  *)
(***************************************************************************)
CONSTANT Parts
VARIABLES state, alive

contractVars == <<state, alive>>

Init == state = "new" /\ alive = {}

Open == state = "new" /\ state' = "up" /\ UNCHANGED alive

\* A part is started.
Acquire(p) == state = "up" /\ alive' = alive \cup {p} /\ UNCHANGED state

\* A part ends by itself, or because it is told to.
End(p) == alive' = alive \ {p} /\ UNCHANGED state

\* Startup fails, or shutdown begins.
BeginClosing == state = "up" /\ state' = "closing" /\ UNCHANGED alive

Down ==
  /\ state \in {"new", "closing"} /\ alive = {}
  /\ state' = "down" /\ UNCHANGED alive

Next ==
  Open \/ (\E p \in Parts : Acquire(p) \/ End(p)) \/ BeginClosing \/ Down

Spec == Init /\ [][Next]_contractVars
================================================================================
