---------------------------- MODULE StoreForward ----------------------------
(***************************************************************************)
(* What one client of cloud_sync promises, without threads, queues, the    *)
(* error directory, the database and the network: a file that arrived is   *)
(* kept until a transfer of it was reported as successful, and what was    *)
(* delivered once counts as delivered for good.  A client of one server    *)
(* thus discards no file before that server reported it.  With more        *)
(* servers the program keeps less than one would wish: a file may be       *)
(* dropped as soon as one of them has it.                                  *)
(***************************************************************************)
CONSTANTS Files, Servers

VARIABLES
  arrived,    \* files that have appeared
  kept,       \* files the client still has
  delivered   \* delivered[s]: files whose transfer to s succeeded

vars == <<arrived, kept, delivered>>

Init ==
  /\ arrived = {} /\ kept = {}
  /\ delivered = [s \in Servers |-> {}]

Arrive(f) ==
  /\ f \notin arrived
  /\ arrived' = arrived \cup {f}
  /\ kept' = kept \cup {f}
  /\ UNCHANGED delivered

(* A transfer under way when the file is discarded may still succeed.      *)
Deliver(s, f) ==
  /\ f \in arrived
  /\ delivered' = [delivered EXCEPT ![s] = @ \cup {f}]
  /\ UNCHANGED <<arrived, kept>>

Discard(f) ==
  /\ f \in kept
  /\ \E s \in Servers : f \in delivered[s]
  /\ kept' = kept \ {f}
  /\ UNCHANGED <<arrived, delivered>>

Next ==
  \E f \in Files :
    Arrive(f) \/ Discard(f) \/ (\E s \in Servers : Deliver(s, f))

Spec == Init /\ [][Next]_vars
=============================================================================
