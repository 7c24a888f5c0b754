---------------------------- MODULE SiteLifecycle ----------------------------
(* What the state machine of site_controller promises, without sequences,  *)
(* timers, commands and the order of the control loop: the life of a site  *)
(* is off, starting, running, stopping, off; it is never running without   *)
(* having started, a start that meets a fault does not reach running, and  *)
(* it is stopped for a fault or a stop command only.                       *)
VARIABLES
  phase,  \* what the site does
  fault,  \* a site fault is latched
  stop    \* the operator's stop command stands

vars == <<phase, fault, stop>>

Phases == {"booting", "off", "starting", "running", "stopping"}

Anything == fault' \in BOOLEAN /\ stop' \in BOOLEAN

Init ==
  /\ phase = "booting"
  /\ fault = FALSE
  /\ stop = FALSE

Move(from, to) == phase = from /\ phase' = to

Boot  == Move("booting", "off") /\ Anything
Start == Move("off", "starting") /\ Anything
Run   == Move("starting", "running") /\ ~fault /\ Anything
Rest  == Move("stopping", "off") /\ Anything

Stop ==
  /\ phase \in {"off", "starting", "running"} /\ phase' = "stopping"
  /\ Anything
  /\ fault' \/ stop'

Reboot == phase' = "booting" /\ Anything

Signal == UNCHANGED phase /\ Anything

Next == Boot \/ Start \/ Run \/ Rest \/ Stop \/ Reboot \/ Signal

Spec == Init /\ [][Next]_vars
=============================================================================
