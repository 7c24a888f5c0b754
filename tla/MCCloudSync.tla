----------------------------- MODULE MCCloudSync -----------------------------
(* Instances of CloudSync for TLC.                                         *)
EXTENDS CloudSync

AnyFault == AllFaultKinds

(* Unreachable servers, broken transfers, process deaths, failing deletes  *)
(* and repeated events: what the error directory and the retries are for.  *)
Retried == {"net", "cut", "tear", "crash", "torn", "rm", "dup"}

Outages == {"net", "cut"}
CopyFailure == {"net", "copy"}
=============================================================================
