---------------------------- MODULE CopsFailover ----------------------------
(***************************************************************************)
(* Redundant failover of COPS (cops/src/negotiator.go, c2c.go and the      *)
(* update_mode handler of fimsHandler.go).                                 *)
(*                                                                         *)
(* Two controllers run the same program.  The one with the lower static IP *)
(* is the TCP server.  Over one TLS connection they negotiate which of     *)
(* them is Primary; the one that takes over claims the primary IP and      *)
(* power-cycles the other through an SNMP-controlled PDU.                  *)
(*                                                                         *)
(* cops[c] holds the Go globals of one COPS process, pc[c] the program     *)
(* points of its threads.  Nothing in the code locks controllerMode, so    *)
(* reading it and acting on what was read are separate steps: a thread     *)
(* whose test said "take over" is at "decided".                            *)
(***************************************************************************)
EXTENDS Naturals, Sequences, FiniteSets

CONSTANTS
  FaultKinds,   \* which faults and operator inputs may occur
  MaxFaults,    \* bound on how many of them occur in a behaviour
  MaxRounds,    \* bound on unanswered ModeQuery round trips per controller
  MaxErrs,      \* bound on handleConnectionError goroutines not yet run
  Prompt        \* TRUE: a takeover is over before the peer's next decision

(* "crash"  a COPS process dies          "power"  a controller loses power *)
(* "link"   the TCP session breaks       "slow"   a reply is 3 s late      *)
(* "rst"    a write reports a dead session before a read does              *)
(* "pdu"    the PDU does not confirm     "ipcmd"  an ip(8) command fails   *)
(* "update" an update_mode SET arrives   "health" the health score moves   *)
AllFaultKinds ==
  {"crash", "power", "link", "slow", "rst", "pdu", "ipcmd", "update", "health"}

ASSUME ConstantsAssumption ==
  /\ FaultKinds \subseteq AllFaultKinds
  /\ MaxFaults \in Nat
  /\ MaxRounds \in Nat \ {0}
  /\ MaxErrs \in Nat \ {0}
  /\ Prompt \in BOOLEAN

VARIABLES
  up,       \* up[c]: the COPS process of controller c is running
  ip,       \* ip[c]: the network interface of the primary IP on c
  dbi,      \* dbi[c]: the document /dbi/cops/update_mode on c
  healthy,  \* healthy[c]: c's total health score is not below the threshold
  cops,     \* cops[c]: memory of the COPS process of c
  pc,       \* pc[c][t]: where thread t of that process is
  link,     \* the TCP session: "none", "half" (accepted) or "open"
  chan,     \* chan[c]: C2C messages on their way to c, in order
  orphan,   \* orphan[c]: a reset sent by a process of c that is gone
  faults    \* faults still allowed

vars == <<up, ip, dbi, healthy, cops, pc, link, chan, orphan, faults>>

Ctrl == {"server", "client"}
Other(c) == IF c = "server" THEN "client" ELSE "server"
amServerNotClient(c) == c = "server"

Modes == {"Primary", "Secondary", "Update"}

(* The three threads that can call takeOverAsPrimary: the negotiation      *)
(* goroutine, the C2C reader goroutine and the FIMS main loop.             *)
Threads == {"neg", "c2c", "main"}

(* Where a thread is in takeOverAsPrimary: the caller's test has passed,   *)
(* controllerMode is set, the dummy interface is added, setupPrimaryIP has *)
(* returned, the SNMP Set awaits the PDU.                                  *)
Taking == {"decided", "claimed", "linked", "addressed", "requested"}

(* wait, loop: waitForTCPConnectionAttempt and negotiateControllerMode;    *)
(* read, sleep: processC2C and the pause in processModeCommand; idle: the  *)
(* select of the main loop.                                                *)
Points == {"wait", "loop", "read", "sleep", "idle"} \cup Taking

UpdateDoc == {"none", "on", "off"}

(* The dummy interface does not exist, has no address, holds the primary   *)
(* IP.                                                                     *)
Interface == {"none", "bare", "held"}
HoldsIP(c) == ip[c] = "held"

ModeQuery == [type |-> "ModeQuery"]
GetDBIUpdate == [type |-> "GetDBIUpdate"]
ModeCommand(m, h) == [type |-> "ModeCommand", mode |-> m, healthy |-> h]

Message == {ModeQuery, GetDBIUpdate}
             \cup [type : {"ModeCommand"}, mode : {"Primary", "Secondary"},
                   healthy : BOOLEAN]

(* One COPS process.  connector is the thread inside connectOverTCP:       *)
(* resolvingConnection is connector # "none", except while the first       *)
(* connection is made, when nobody reads the flag.  alarm records that     *)
(* this process sent "Are two controllers running as primary?".            *)
Process ==
  [mode : Modes, first : BOOLEAN, ask : UpdateDoc,
   connected : BOOLEAN, stale : BOOLEAN,
   connector : {"none", "goroutine", "neg", "c2c"}, errs : 0..MaxErrs,
   alarm : BOOLEAN]

(* The globals of negotiator.go and c2c.go as the process starts.          *)
NewProcess ==
  [mode |-> "Secondary", first |-> TRUE, ask |-> "none",
   connected |-> FALSE, stale |-> TRUE,
   connector |-> "none", errs |-> 0, alarm |-> FALSE]

NewThreads ==
  [t \in Threads |-> CASE t = "neg" -> "wait"
                       [] t = "c2c" -> "read"
                       [] t = "main" -> "idle"]

-----------------------------------------------------------------------------
(* Helpers *)

Spend(kind) == kind \in FaultKinds /\ faults > 0 /\ faults' = faults - 1
Free == UNCHANGED faults

(* Thread t of c is running program text, not blocked in connectOverTCP.   *)
Runs(c, t) == up[c] /\ cops[c].connector # t

Prefixes(s) == {SubSeq(s, 1, n) : n \in 0..Len(s)}

(* The process of c ends: its memory and its socket are gone, requests it  *)
(* sent to the PDU are not.  The peer may still read what had arrived.     *)
(* peer and at are the memory and the program points of the process of the *)
(* other controller after the step.                                        *)
ProcessEnds(c, peer, at) ==
  /\ up' = [up EXCEPT ![c] = FALSE]
  /\ cops' = [cops EXCEPT ![c] = NewProcess, ![Other(c)] = peer]
  /\ pc' = [pc EXCEPT ![c] = NewThreads, ![Other(c)] = at]
  /\ link' = "none"
  /\ \E kept \in Prefixes(chan[Other(c)]) :
       chan' = [chan EXCEPT ![c] = <<>>, ![Other(c)] = kept]

Requesting(c) == \E t \in Threads : pc[c][t] = "requested"

(* A takeover takes milliseconds; the ticks and timeouts that start one    *)
(* are seconds apart and a restart takes ten (RestartSec=10s).  Prompt     *)
(* says that the one is always shorter than the other.  Safety is checked  *)
(* without it.                                                             *)
OtherIsNotTakingOver(c) ==
  Prompt => /\ ~orphan[Other(c)]
            /\ \A t \in Threads : pc[Other(c)][t] \notin Taking

(* Variant: a lost connection alone is not enough.                         *)
UnresponsiveOnlyIfConnected(p) == p.connected /\ p.stale

otherControllerIsUnresponsive(p) == ~p.connected \/ p.stale

(* Somebody asks every second, so that a working session is never silent.  *)
Querying(c) ==
  /\ up[c] /\ cops[c].connected /\ cops[c].mode # "Primary"
  /\ pc[c]["neg"] \in {"wait", "loop"}
Silent == link = "none" \/ (link = "open" /\ ~ \E c \in Ctrl : Querying(c))

(* sendC2CMsg by thread t of c.  p is the rest of the process's memory and *)
(* ch the channels once the message being answered is read.  A session     *)
(* that is gone swallows the message or reports an error; the reporting    *)
(* thread then runs handleConnectionError itself and stays in              *)
(* connectOverTCP until a new connection exists.                           *)
sendC2CMsg(c, t, msg, p, ch) ==
  \/ /\ p.connected => link = "none"
     /\ cops' = [cops EXCEPT ![c] = p]
     /\ chan' = ch
  \/ /\ p.connected /\ link # "none"
     /\ cops' = [cops EXCEPT ![c] = p]
     /\ chan' = [ch EXCEPT ![Other(c)] = Append(@, msg)]
  \/ /\ p.connected /\ link = "none" /\ "rst" \in FaultKinds
     /\ p.connector = "none"
     /\ cops' = [cops EXCEPT ![c] = [p EXCEPT !.connected = FALSE,
                                              !.connector = t]]
     /\ chan' = [ch EXCEPT ![c] = <<>>]

(* Variant: resolvingConnection is not reset.                              *)
setConnectionStillResolving(p) ==
  [p EXCEPT !.connected = TRUE, !.stale = FALSE]

(* setConnection *)
setConnection(p) ==
  [p EXCEPT !.connected = TRUE, !.connector = "none", !.stale = FALSE]

-----------------------------------------------------------------------------
(* Start of the process: configuration starts the connecting, reading and  *)
(* negotiating goroutines, then asks DBI for the update mode.              *)
Start(c) == [NewProcess EXCEPT !.connector = "goroutine", !.ask = dbi[c]]

Boot(c) ==
  /\ ~up[c] /\ OtherIsNotTakingOver(c)
  /\ up' = [up EXCEPT ![c] = TRUE]
  /\ cops' = [cops EXCEPT ![c] = Start(c)]
  /\ Free
  /\ UNCHANGED <<ip, dbi, healthy, pc, link, chan, orphan>>

-----------------------------------------------------------------------------
(* The TCP session *)

(* connectToTCPClient: the server accepts the client that is dialling.     *)
Accept ==
  /\ \A c \in Ctrl : up[c] /\ cops[c].connector # "none"
  /\ link' = "half"
  /\ chan' = [c \in Ctrl |-> <<>>]
  /\ cops' = [cops EXCEPT !["server"] = setConnection(@)]
  /\ Free
  /\ UNCHANGED <<up, ip, dbi, healthy, pc, orphan>>

(* connectToTCPServer: the client's dial returns.                          *)
Dialed ==
  /\ link = "half"
  /\ link' = "open"
  /\ cops' = [cops EXCEPT !["client"] = setConnection(@)]
  /\ Free
  /\ UNCHANGED <<up, ip, dbi, healthy, pc, chan, orphan>>

(* getC2CMessage fails: the session is gone, or nothing came for 3 s.      *)
(* processC2C starts a handleConnectionError goroutine and reads again.    *)
ReadError(c) ==
  /\ Runs(c, "c2c") /\ pc[c]["c2c"] = "read" /\ cops[c].connected
  /\ chan[c] = <<>>
  /\ cops[c].errs < MaxErrs
  /\ IF Silent THEN Free ELSE Spend("slow")
  /\ cops' = [cops EXCEPT ![c].errs = @ + 1]
  /\ UNCHANGED <<up, ip, dbi, healthy, pc, link, chan, orphan>>

(* Variant: the goroutine runs without a read that failed.                 *)
handleConnectionErrorUncounted(c) ==
  /\ up[c] /\ cops[c].connector # "none"
  /\ cops' = [cops EXCEPT ![c].errs = @ - 1]
  /\ Free
  /\ UNCHANGED <<up, ip, dbi, healthy, pc, link, chan, orphan>>

(* One such goroutine runs, possibly long after the read that failed.  The *)
(* server closes the session it has now, the client just drops it.         *)
handleConnectionError(c) ==
  /\ up[c] /\ cops[c].errs > 0
  /\ Free
  /\ \/ /\ cops[c].connector # "none"
        /\ cops' = [cops EXCEPT ![c].errs = @ - 1]
        /\ UNCHANGED <<link, chan>>
     \/ /\ cops[c].connector = "none"
        /\ cops' = [cops EXCEPT ![c].errs = @ - 1, ![c].connected = FALSE,
                                ![c].connector = "goroutine"]
        /\ link' = "none"
        /\ chan' = [chan EXCEPT ![c] = <<>>]
  /\ UNCHANGED <<up, ip, dbi, healthy, pc, orphan>>

(* lastModeConfirmationFromOther becomes older than 3 s.                   *)
ConfirmationExpires(c) ==
  /\ up[c] /\ cops[c].connected /\ ~cops[c].stale
  /\ IF link = "none" THEN Free ELSE Spend("slow")
  /\ cops' = [cops EXCEPT ![c].stale = TRUE]
  /\ UNCHANGED <<up, ip, dbi, healthy, pc, link, chan, orphan>>

-----------------------------------------------------------------------------
(* The negotiation goroutine *)

(* waitForTCPConnectionAttempt: the connection is there, or 10 s passed.   *)
WaitConnected(c) ==
  /\ up[c] /\ pc[c]["neg"] = "wait" /\ cops[c].connected
  /\ pc' = [pc EXCEPT ![c]["neg"] = "loop"]
  /\ Free
  /\ UNCHANGED <<up, ip, dbi, healthy, cops, link, chan, orphan>>

WaitDeadline(c) ==
  /\ up[c] /\ pc[c]["neg"] = "wait" /\ ~cops[c].connected
  /\ OtherIsNotTakingOver(c)
  /\ IF up[Other(c)] THEN Spend("slow") ELSE Free
  /\ pc' = [pc EXCEPT ![c]["neg"] =
              IF cops[c].mode # "Update" THEN "decided" ELSE "loop"]
  /\ UNCHANGED <<up, ip, dbi, healthy, cops, link, chan, orphan>>

(* Round trips of c that are not finished.                                 *)
Rounds(c) ==
  Len(SelectSeq(chan[Other(c)], LAMBDA m : m.type = "ModeQuery"))
    + Len(SelectSeq(chan[c], LAMBDA m : m.type = "ModeCommand"))

(* negotiateControllerMode, one tick *)
checkControllerMode(c) ==
  /\ Runs(c, "neg") /\ pc[c]["neg"] = "loop"
  /\ cops[c].mode # "Primary" /\ OtherIsNotTakingOver(c)
  /\ \/ /\ cops[c].mode # "Update" /\ otherControllerIsUnresponsive(cops[c])
        /\ pc' = [pc EXCEPT ![c]["neg"] = "decided"]
        /\ UNCHANGED <<cops, chan>>
     \/ /\ ~(cops[c].mode # "Update" /\ otherControllerIsUnresponsive(cops[c]))
        /\ Rounds(c) < MaxRounds
        /\ sendC2CMsg(c, "neg", ModeQuery, cops[c], chan)
        /\ UNCHANGED pc
  /\ Free
  /\ UNCHANGED <<up, ip, dbi, healthy, link, orphan>>

-----------------------------------------------------------------------------
(* The C2C reader goroutine (processC2C) *)

Receives(c, type) ==
  /\ Runs(c, "c2c") /\ pc[c]["c2c"] = "read" /\ cops[c].connected
  /\ chan[c] # <<>> /\ Head(chan[c]).type = type

(* Variant: the reply does not look at which side is the server.           *)
ReplyModeWithoutRole(c) ==
  IF cops[c].mode # "Update" THEN "Secondary" ELSE "Primary"

(* replyToModeQueryMsg *)
ReplyMode(c) ==
  IF cops[c].mode = "Primary" \/ (amServerNotClient(c) /\ cops[c].mode # "Update")
  THEN "Secondary" ELSE "Primary"

replyToModeQueryMsg(c) ==
  /\ Receives(c, "ModeQuery")
  /\ sendC2CMsg(c, "c2c", ModeCommand(ReplyMode(c), healthy[c]), cops[c],
                [chan EXCEPT ![c] = Tail(@)])
  /\ Free
  /\ UNCHANGED <<up, ip, dbi, healthy, pc, link, orphan>>

(* The two tests of processModeCommand that lead to a takeover.            *)
ToldPrimary(c, m) == m.mode = "Primary" /\ cops[c].mode = "Secondary"

(* Variant: the comparison with the threshold is the wrong way round.      *)
OtherIsHealthy(c, m) == cops[c].mode # "Update" /\ m.healthy
OtherIsUnhealthy(c, m) == cops[c].mode # "Update" /\ ~m.healthy

processModeCommand(c) ==
  /\ Receives(c, "ModeCommand") /\ OtherIsNotTakingOver(c)
  /\ LET m == Head(chan[c])
         takeover == ToldPrimary(c, m) \/ OtherIsUnhealthy(c, m)
         sync == m.mode = "Secondary" /\ cops[c].mode = "Secondary" /\ cops[c].first
     IN \/ /\ takeover
           /\ pc' = [pc EXCEPT ![c]["c2c"] = "decided"]
           /\ UNCHANGED cops
        \/ /\ ~takeover /\ sync
           /\ pc' = [pc EXCEPT ![c]["c2c"] = "sleep"]
           /\ cops' = [cops EXCEPT ![c].first = FALSE]
        \/ /\ ~takeover /\ ~sync
           /\ cops' = [cops EXCEPT ![c].stale = FALSE]
           /\ UNCHANGED pc
  /\ chan' = [chan EXCEPT ![c] = Tail(@)]
  /\ Free
  /\ UNCHANGED <<up, ip, dbi, healthy, link, orphan>>

(* The rest of processModeCommand after its 500 ms sleep.                  *)
RequestDBIUpdate(c) ==
  /\ Runs(c, "c2c") /\ pc[c]["c2c"] = "sleep"
  /\ pc' = [pc EXCEPT ![c]["c2c"] = "read"]
  /\ sendC2CMsg(c, "c2c", GetDBIUpdate, [cops[c] EXCEPT !.stale = FALSE], chan)
  /\ Free
  /\ UNCHANGED <<up, ip, dbi, healthy, link, orphan>>

(* getDBIUpdate asks the local DBI for every document; no failover state.  *)
getDBIUpdate(c) ==
  /\ Receives(c, "GetDBIUpdate")
  /\ chan' = [chan EXCEPT ![c] = Tail(@)]
  /\ Free
  /\ UNCHANGED <<up, ip, dbi, healthy, cops, pc, link, orphan>>

-----------------------------------------------------------------------------
(* Variant: leaving Update mode goes back to where a start begins.         *)
SetUpdateModeToSecondary(c, value, p) ==
  /\ dbi' = [dbi EXCEPT ![c] = value]
  /\ cops' = [cops EXCEPT ![c] =
       [p EXCEPT !.mode = IF value = "on" THEN "Update"
                          ELSE IF @ = "Update" THEN "Secondary" ELSE @]]
  /\ UNCHANGED pc

(* handleUpdateMode, run by the main loop: the SET's value is saved in     *)
(* DBI; leaving Update mode takes over as Primary.                         *)
SetUpdateMode(c, value, p) ==
  /\ dbi' = [dbi EXCEPT ![c] = value]
  /\ \/ /\ value = "on"
        /\ cops' = [cops EXCEPT ![c] = [p EXCEPT !.mode = "Update"]]
        /\ UNCHANGED pc
     \/ /\ value = "off" /\ p.mode = "Update"
        /\ cops' = [cops EXCEPT ![c] = p]
        /\ pc' = [pc EXCEPT ![c]["main"] = "decided"]
     \/ /\ value = "off" /\ p.mode # "Update"
        /\ cops' = [cops EXCEPT ![c] = p]
        /\ UNCHANGED pc

(* The operator switches Update mode on or off.                            *)
handleUpdateMode(c) ==
  /\ up[c] /\ pc[c]["main"] = "idle"
  /\ Spend("update")
  /\ \E value \in {"on", "off"} : SetUpdateMode(c, value, cops[c])
  /\ UNCHANGED <<up, ip, healthy, link, chan, orphan>>

(* DBI's answer to getDBIUpdateModeStatus arrives, as the same SET.  An    *)
(* empty document is ignored.                                              *)
DbiReply(c) ==
  /\ up[c] /\ pc[c]["main"] = "idle" /\ cops[c].ask # "none"
  /\ SetUpdateMode(c, cops[c].ask, [cops[c] EXCEPT !.ask = "none"])
  /\ Free
  /\ UNCHANGED <<up, ip, healthy, link, chan, orphan>>

-----------------------------------------------------------------------------
(* takeOverAsPrimary, run by thread t of c *)

(* controllerMode = Primary; the primary flag goes to every process.       *)
Claim(c, t) ==
  /\ up[c] /\ pc[c][t] = "decided"
  /\ cops' = [cops EXCEPT ![c].mode = "Primary"]
  /\ pc' = [pc EXCEPT ![c][t] = "claimed"]
  /\ Free
  /\ UNCHANGED <<up, ip, dbi, healthy, link, chan, orphan>>

(* Thread t returns to its caller; processModeCommand then notes the time. *)
AfterReturn(c, t) ==
  IF t = "c2c" THEN [cops[c] EXCEPT !.stale = FALSE] ELSE cops[c]
ReturnPoint(t) ==
  CASE t = "neg" -> "loop" [] t = "c2c" -> "read" [] t = "main" -> "idle"
Returned(c, t) == [pc[c] EXCEPT ![t] = ReturnPoint(t)]

(* Variant: takeOverAsPrimary returns when setupPrimaryIP fails.           *)
ipLinkAddOrReturn(c, t) ==
  /\ up[c] /\ pc[c][t] = "claimed"
  /\ \/ /\ Free /\ ip[c] = "none"
        /\ ip' = [ip EXCEPT ![c] = "bare"]
        /\ pc' = [pc EXCEPT ![c][t] = "linked"]
     \/ /\ IF ip[c] = "none" THEN Spend("ipcmd") ELSE Free
        /\ pc' = [pc EXCEPT ![c] = Returned(c, t)]
        /\ UNCHANGED ip
  /\ UNCHANGED <<up, dbi, healthy, cops, link, chan, orphan>>

(* setupPrimaryIP runs two ip(8) commands; the error of either is only     *)
(* logged.  "ip link add" fails when the interface is already there,       *)
(* whether it holds the address or not, and then no address is added.      *)
ipLinkAdd(c, t) ==
  /\ up[c] /\ pc[c][t] = "claimed"
  /\ \/ /\ Free /\ ip[c] = "none"
        /\ ip' = [ip EXCEPT ![c] = "bare"]
        /\ pc' = [pc EXCEPT ![c][t] = "linked"]
     \/ /\ IF ip[c] = "none" THEN Spend("ipcmd") ELSE Free
        /\ pc' = [pc EXCEPT ![c][t] = "addressed"]
        /\ UNCHANGED ip
  /\ UNCHANGED <<up, dbi, healthy, cops, link, chan, orphan>>

ipAddrAdd(c, t) ==
  /\ up[c] /\ pc[c][t] = "linked"
  /\ \/ Free /\ ip' = [ip EXCEPT ![c] = "held"]
     \/ Spend("ipcmd") /\ UNCHANGED ip
  /\ pc' = [pc EXCEPT ![c][t] = "addressed"]
  /\ UNCHANGED <<up, dbi, healthy, cops, link, chan, orphan>>

setupPrimaryIP(c, t) == ipLinkAdd(c, t) \/ ipAddrAdd(c, t)

(* Variant: no reset is sent to a peer that does not answer.               *)
RequestResetIfConnected(c, t) ==
  /\ up[c] /\ pc[c][t] = "addressed"
  /\ pc' = IF cops[c].connected THEN [pc EXCEPT ![c][t] = "requested"]
           ELSE [pc EXCEPT ![c] = Returned(c, t)]
  /\ Free
  /\ UNCHANGED <<up, ip, dbi, healthy, cops, link, chan, orphan>>

(* gosnmp.Default.Set sends the reset of the other controller's outlet.    *)
RequestReset(c, t) ==
  /\ up[c] /\ pc[c][t] = "addressed"
  /\ pc' = [pc EXCEPT ![c][t] = "requested"]
  /\ Free
  /\ UNCHANGED <<up, ip, dbi, healthy, cops, link, chan, orphan>>

(* A machine that lost power forgets the primary IP.  A reset it had       *)
(* already sent to the PDU still counts.                                   *)
PowerCycled(c) ==
  /\ ip' = [ip EXCEPT ![c] = "none"]
  /\ orphan' = [orphan EXCEPT ![c] = @ \/ Requesting(c)]

(* The PDU power-cycles the other controller and confirms.                 *)
ResetOther(c, t) ==
  /\ up[c] /\ pc[c][t] = "requested"
  /\ ProcessEnds(Other(c), AfterReturn(c, t), Returned(c, t))
  /\ PowerCycled(Other(c))
  /\ Free
  /\ UNCHANGED <<dbi, healthy>>

(* The PDU carries out a reset whose sender no longer waits for it.        *)
OrphanReset(c) ==
  /\ orphan[c]
  /\ ProcessEnds(Other(c), cops[c], pc[c])
  /\ ip' = [ip EXCEPT ![Other(c)] = "none"]
  /\ orphan' = [orphan EXCEPT ![c] = FALSE, ![Other(c)] = @ \/ Requesting(Other(c))]
  /\ Free
  /\ UNCHANGED <<dbi, healthy>>

(* The PDU answers with an error status: a Fault event, and on.            *)
ResetRefused(c, t) ==
  /\ up[c] /\ pc[c][t] = "requested"
  /\ Spend("pdu")
  /\ cops' = [cops EXCEPT ![c] = [AfterReturn(c, t) EXCEPT !.alarm = TRUE]]
  /\ pc' = [pc EXCEPT ![c] = Returned(c, t)]
  /\ UNCHANGED <<up, ip, dbi, healthy, link, chan, orphan>>

(* No answer: result is nil.  After the Fault event the log line reads     *)
(* result.Error, which panics: processFIMS recovers in the main loop, in   *)
(* the other two threads the process ends.  The reset may still happen.    *)
ResetUnanswered(c, t) ==
  /\ up[c] /\ pc[c][t] = "requested"
  /\ Spend("pdu")
  /\ \E sent \in BOOLEAN : orphan' = [orphan EXCEPT ![c] = @ \/ sent]
  /\ \/ /\ t = "main"
        /\ cops' = [cops EXCEPT ![c] = [AfterReturn(c, t) EXCEPT !.alarm = TRUE]]
        /\ pc' = [pc EXCEPT ![c] = Returned(c, t)]
        /\ UNCHANGED <<up, link, chan>>
     \/ /\ t # "main"
        /\ ProcessEnds(c, cops[Other(c)], pc[Other(c)])
  /\ UNCHANGED <<ip, dbi, healthy>>

-----------------------------------------------------------------------------
(* Faults of the environment *)

CopsCrash(c) ==
  /\ up[c]
  /\ Spend("crash")
  /\ ProcessEnds(c, cops[Other(c)], pc[Other(c)])
  /\ orphan' = [orphan EXCEPT ![c] = @ \/ Requesting(c)]
  /\ UNCHANGED <<ip, dbi, healthy>>

PowerFail(c) ==
  /\ up[c]
  /\ Spend("power")
  /\ ProcessEnds(c, cops[Other(c)], pc[Other(c)])
  /\ PowerCycled(c)
  /\ UNCHANGED <<dbi, healthy>>

LinkFail ==
  /\ link # "none"
  /\ Spend("link")
  /\ link' = "none"
  /\ \E s \in Prefixes(chan["server"]), k \in Prefixes(chan["client"]) :
       chan' = [c \in Ctrl |-> IF c = "server" THEN s ELSE k]
  /\ UNCHANGED <<up, ip, dbi, healthy, pc, cops, orphan>>

HealthChange(c) ==
  /\ Spend("health")
  /\ healthy' = [healthy EXCEPT ![c] = ~@]
  /\ UNCHANGED <<up, ip, dbi, pc, cops, link, chan, orphan>>

-----------------------------------------------------------------------------
Init ==
  /\ up = [c \in Ctrl |-> FALSE]
  /\ ip = [c \in Ctrl |-> "none"]
  /\ dbi = [c \in Ctrl |-> "none"]
  /\ healthy = [c \in Ctrl |-> TRUE]
  /\ cops = [c \in Ctrl |-> NewProcess]
  /\ pc = [c \in Ctrl |-> NewThreads]
  /\ link = "none"
  /\ chan = [c \in Ctrl |-> <<>>]
  /\ orphan = [c \in Ctrl |-> FALSE]
  /\ faults = MaxFaults

SessionStep == Accept \/ Dialed

ConnectionStep(c) ==
  ReadError(c) \/ handleConnectionError(c) \/ ConfirmationExpires(c)

NegotiationStep(c) ==
  WaitConnected(c) \/ WaitDeadline(c) \/ checkControllerMode(c)

MessageStep(c) ==
  \/ replyToModeQueryMsg(c) \/ processModeCommand(c)
  \/ RequestDBIUpdate(c) \/ getDBIUpdate(c)

TakeoverStep(c, t) ==
  Claim(c, t) \/ setupPrimaryIP(c, t) \/ RequestReset(c, t) \/ ResetOther(c, t)

FaultStep(c) ==
  \/ CopsCrash(c) \/ PowerFail(c) \/ HealthChange(c) \/ handleUpdateMode(c)
  \/ \E t \in Threads : ResetRefused(c, t) \/ ResetUnanswered(c, t)

Next ==
  \/ SessionStep
  \/ LinkFail
  \/ \E c \in Ctrl :
       \/ Boot(c) \/ ConnectionStep(c) \/ NegotiationStep(c) \/ MessageStep(c)
       \/ DbiReply(c) \/ OrphanReset(c) \/ FaultStep(c)
       \/ \E t \in Threads : TakeoverStep(c, t)

Spec == Init /\ [][Next]_vars

(* Threads keep running, messages and timeouts arrive, the PDU acts on the *)
(* requests it gets.  Whether a dead process comes back is stated apart:   *)
(* systemd restarts COPS (Restart=always), nobody restarts a machine.      *)
Fairness ==
  /\ WF_vars(Accept) /\ WF_vars(Dialed)
  /\ \A c \in Ctrl :
       /\ WF_vars(ReadError(c)) /\ WF_vars(handleConnectionError(c))
       /\ WF_vars(ConfirmationExpires(c))
       /\ WF_vars(NegotiationStep(c)) /\ WF_vars(MessageStep(c))
       /\ WF_vars(DbiReply(c)) /\ WF_vars(OrphanReset(c))
       /\ \A t \in Threads : WF_vars(TakeoverStep(c, t))

Restarts == \A c \in Ctrl : WF_vars(Boot(c))

FairSpec == Spec /\ Fairness
RestartingSpec == FairSpec /\ Restarts

-----------------------------------------------------------------------------
(* Both processes, the session and the machines stay well formed           *)
(* (negotiator.go, c2c.go).                                                *)
TypeOK ==
  /\ up \in [Ctrl -> BOOLEAN]
  /\ ip \in [Ctrl -> Interface]
  /\ dbi \in [Ctrl -> UpdateDoc]
  /\ healthy \in [Ctrl -> BOOLEAN]
  /\ cops \in [Ctrl -> Process]
  /\ pc \in [Ctrl -> [Threads -> Points]]
  /\ link \in {"none", "half", "open"}
  /\ chan \in [Ctrl -> Seq(Message)]
  /\ orphan \in [Ctrl -> BOOLEAN]
  /\ faults \in 0..MaxFaults

IsPrimary(c) == cops[c].mode = "Primary"
TakingOver(c) == \E t \in Threads : pc[c][t] \in Taking \ {"decided"}

(* Both ends of the TCP session agree on it: an open session has two       *)
(* connected ends, an accepted one a connected server and a client still   *)
(* in connectOverTCP, no process has a session and a thread that is making *)
(* another, and none is without both: whoever gives up a session has left  *)
(* a thread in connectOverTCP (resolvingConnection against connected,      *)
(* c2c.go:93-125).                                                         *)
SessionAgreement ==
  /\ \A c \in Ctrl : cops[c].connected => cops[c].connector = "none"
  /\ \A c \in Ctrl : up[c] => cops[c].connected \/ cops[c].connector # "none"
  /\ link # "none" => up["server"] /\ up["client"] /\ cops["server"].connected
  /\ link = "half" => cops["client"].connector # "none"
  /\ link = "open" => cops["client"].connected

(* Two controllers are Primary at the same time only while one of them is  *)
(* inside takeOverAsPrimary, about to reset the other, or after it sent    *)
(* the Fault event that asks whether two are (negotiator.go:217-261).      *)
SplitBrainIsTransient ==
  (\A c \in Ctrl : IsPrimary(c)) =>
    \E c \in Ctrl : TakingOver(c) \/ cops[c].alarm

(* Two kernels hold the primary IP only while a takeover that will reset   *)
(* one of them is under way (negotiator.go:226-245).  It needs that no     *)
(* COPS process ends between the two.                                      *)
DuplicateIPIsTransient ==
  (\A c \in Ctrl : HoldsIP(c)) =>
    \E c \in Ctrl : \E t \in Threads : pc[c][t] \in {"addressed", "requested"}

(* Whoever answers at the primary IP is a running controller that is       *)
(* Primary, or was and is locked in Update mode: takeovers that were       *)
(* decided earlier, update_mode SETs and power cycles in any order never   *)
(* leave the address with a Secondary (negotiator.go:217-245, fimsHandler. *)
(* go:589-603).  It needs that no COPS process ends on its own.            *)
AddressHasRole ==
  \A c \in Ctrl : HoldsIP(c) => up[c] /\ cops[c].mode # "Secondary"

-----------------------------------------------------------------------------
(* A controller whose peer is gone becomes Primary, unless it is locked in *)
(* Update mode, ends as well, or the peer comes back                       *)
(* (negotiateControllerMode, negotiator.go:74-92).                         *)
SurvivorTakesOver ==
  \A c \in Ctrl :
    (up[c] /\ ~up[Other(c)]) ~>
      (IsPrimary(c) \/ cops[c].mode = "Update" \/ ~up[c] \/ up[Other(c)])

(* COPS died between its two ip commands: the interface stays without an   *)
(* address, and until the machine loses power every "ip link add" fails    *)
(* (negotiator.go:184-191).                                                *)
Stranded(c) ==
  ip[c] = "bare" /\ \A t \in Threads : pc[c][t] # "linked"

(* A Primary has the primary IP, unless it can no longer get it.           *)
Leads(c) == IsPrimary(c) /\ (HoldsIP(c) \/ Stranded(c))

(* Once faults stop, so do the power cycles: one controller stays Primary  *)
(* and holds the primary IP if its interface can get it, the other stays   *)
(* up beside it.  It needs a controller that stays healthy: two unhealthy  *)
(* ones take over from each other for ever (processModeCommand,            *)
(* negotiator.go:102).                                                     *)
Stable ==
  /\ \E c \in Ctrl : Leads(c) /\ ~IsPrimary(Other(c))
  /\ \A c \in Ctrl : up[c] /\ ~TakingOver(c)

EventuallyStable == <>[](\E c \in Ctrl : healthy[c]) => <>[]Stable

(* A controller that stays the only healthy one becomes Primary for good,  *)
(* with the primary IP if its interface can get it (the health score in    *)
(* ModeCommand, negotiator.go:95-117).                                     *)
HealthyControllerLeads ==
  \A c \in Ctrl :
    <>[](healthy[c] /\ ~healthy[Other(c)]) => <>[]Leads(c)
=============================================================================
