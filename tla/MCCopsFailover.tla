--------------------------- MODULE MCCopsFailover ---------------------------
(* Instances of CopsFailover for TLC: which faults a run allows.           *)
EXTENDS CopsFailover

(* One process fails, or what it relies on does: it dies, a write tells it *)
(* of a broken session, the PDU or ip(8) refuses, its health changes.      *)
ProcessFaults == {"crash", "rst", "pdu", "ipcmd", "health"}

(* Controllers lose power and sessions break, but no COPS process dies in  *)
(* the middle of a takeover.                                               *)
NoProcessDeath == {"power", "link", "slow", "update"}

(* What a site meets: everything a restart, a reconnection or a second     *)
(* attempt is meant to repair.                                             *)
Repairable == {"crash", "power", "link", "slow", "health"}

Outages == {"crash", "power", "link"}

(* Broken sessions may be noticed by a write first.                        *)
WriteErrors == {"crash", "rst"}
=============================================================================
