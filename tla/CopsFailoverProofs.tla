------------------------- MODULE CopsFailoverProofs -------------------------
(***************************************************************************)
(* Proofs about CopsFailover for every set of fault kinds and every bound. *)
(***************************************************************************)
EXTENDS CopsFailover, TLAPS

(* Each controller has exactly one other.                                  *)
LEMMA OtherCtrl ==
  ASSUME NEW c \in Ctrl
  PROVE  /\ Other(c) \in Ctrl /\ Other(c) # c
         /\ \A d \in Ctrl : d = c \/ d = Other(c)
BY DEF Ctrl, Other

(* The program points of a new process and of a returning thread are well  *)
(* formed.                                                                 *)
LEMMA ThreadPoints ==
  /\ NewThreads \in [Threads -> Points]
  /\ \A t \in Threads : ReturnPoint(t) \in Points
BY DEF NewThreads, ReturnPoint, Threads, Points, Taking

(* A process as it starts is well formed.                                  *)
LEMMA NewProcessType == NewProcess \in Process
BY ConstantsAssumption DEF NewProcess, Process, Modes, UpdateDoc

(* A well-formed process stays so when one of its globals is assigned.     *)
LEMMA AssignType ==
  ASSUME NEW p \in Process
  PROVE  /\ \A v \in Modes : [p EXCEPT !.mode = v] \in Process
         /\ \A v \in UpdateDoc : [p EXCEPT !.ask = v] \in Process
         /\ \A v \in 0..MaxErrs : [p EXCEPT !.errs = v] \in Process
         /\ \A v \in BOOLEAN : /\ [p EXCEPT !.first = v] \in Process
                              /\ [p EXCEPT !.stale = v] \in Process
                              /\ [p EXCEPT !.alarm = v] \in Process
                              /\ [p EXCEPT !.connected = v] \in Process
         /\ \A v \in {"none", "goroutine", "neg", "c2c"} :
              [p EXCEPT !.connector = v] \in Process
BY DEF Process

(* The fields of a well-formed process.                                    *)
LEMMA FieldType ==
  ASSUME NEW p \in Process
  PROVE  p.mode \in Modes /\ p.ask \in UpdateDoc /\ p.errs \in 0..MaxErrs
BY DEF Process

(* The memory and the program points of all processes stay well formed     *)
(* when those of one process are replaced.                                 *)
LEMMA ReplaceType ==
  ASSUME TypeOK, NEW c \in Ctrl
  PROVE  /\ \A p \in Process : [cops EXCEPT ![c] = p] \in [Ctrl -> Process]
         /\ \A at \in [Threads -> Points] :
              [pc EXCEPT ![c] = at] \in [Ctrl -> [Threads -> Points]]
         /\ \A t \in Threads, v \in Points :
              [pc EXCEPT ![c][t] = v] \in [Ctrl -> [Threads -> Points]]
         /\ cops[c] \in Process /\ pc[c] \in [Threads -> Points]
BY DEF TypeOK

(* What a process that ends leaves behind is well formed.                  *)
LEMMA ProcessEndsType ==
  ASSUME TypeOK, NEW c \in Ctrl, NEW peer \in Process,
         NEW at \in [Threads -> Points], ProcessEnds(c, peer, at)
  PROVE  /\ up' \in [Ctrl -> BOOLEAN]
         /\ cops' \in [Ctrl -> Process]
         /\ pc' \in [Ctrl -> [Threads -> Points]]
         /\ link' \in {"none", "half", "open"}
         /\ chan' \in [Ctrl -> Seq(Message)]
<1>1. \A s \in Seq(Message) : Prefixes(s) \subseteq Seq(Message)
  BY DEF Prefixes
<1>2. chan' \in [Ctrl -> Seq(Message)]
  <2>1. PICK kept \in Prefixes(chan[Other(c)]) :
          chan' = [chan EXCEPT ![c] = <<>>, ![Other(c)] = kept]
    BY DEF ProcessEnds
  <2>2. chan \in [Ctrl -> Seq(Message)] /\ Other(c) \in Ctrl
    BY OtherCtrl DEF TypeOK
  <2>3. kept \in Seq(Message) /\ <<>> \in Seq(Message)
    BY <1>1, <2>1, <2>2
  <2>4. QED
    BY <2>1, <2>2, <2>3
<1>3. QED
  BY <1>2, NewProcessType, ThreadPoints DEF ProcessEnds, TypeOK

(* Sending a message keeps memory and channels well formed.                *)
LEMMA SendType ==
  ASSUME TypeOK, NEW c \in Ctrl, NEW t \in {"neg", "c2c"}, NEW msg \in Message,
         NEW p \in Process, NEW ch \in [Ctrl -> Seq(Message)],
         sendC2CMsg(c, t, msg, p, ch)
  PROVE  cops' \in [Ctrl -> Process] /\ chan' \in [Ctrl -> Seq(Message)]
<1>1. [p EXCEPT !.connected = FALSE, !.connector = t] \in Process
  BY DEF Process
<1>2. \A s \in Seq(Message) : Append(s, msg) \in Seq(Message)
  OBVIOUS
<1>3. cops \in [Ctrl -> Process] /\ Other(c) \in Ctrl /\ <<>> \in Seq(Message)
  BY OtherCtrl DEF TypeOK
<1>4. CASE chan' = ch /\ cops' = [cops EXCEPT ![c] = p]
  BY <1>3, <1>4
<1>5. CASE /\ cops' = [cops EXCEPT ![c] = p]
           /\ chan' = [ch EXCEPT ![Other(c)] = Append(@, msg)]
  BY <1>2, <1>3, <1>5
<1>6. CASE /\ cops' = [cops EXCEPT ![c] = [p EXCEPT !.connected = FALSE,
                                                    !.connector = t]]
           /\ chan' = [ch EXCEPT ![c] = <<>>]
  BY <1>1, <1>3, <1>6
<1>7. QED
  BY <1>4, <1>5, <1>6 DEF sendC2CMsg

-----------------------------------------------------------------------------
(* Every action keeps the type invariant.                                  *)
LEMMA TypeStep ==
  ASSUME TypeOK, [Next]_vars
  PROVE  TypeOK'
<1> USE ConstantsAssumption
<1>m. /\ ModeQuery \in Message /\ GetDBIUpdate \in Message
      /\ \A m \in {"Primary", "Secondary"}, h \in BOOLEAN : ModeCommand(m, h) \in Message
  BY DEF Message, ModeQuery, GetDBIUpdate, ModeCommand
<1>f. ASSUME Free \/ \E k \in AllFaultKinds : Spend(k)
      PROVE  faults' \in 0..MaxFaults
  BY <1>f DEF Free, Spend, TypeOK
<1>t. \A s \in Seq(Message) : s # <<>> => Tail(s) \in Seq(Message)
  OBVIOUS
<1>p. /\ {"neg", "c2c", "main"} \subseteq Threads
      /\ {"decided", "sleep", "read", "loop"} \subseteq Points
  BY DEF Threads, Points, Taking
<1>1. CASE Accept
  <2>1. cops["server"] \in Process /\ "server" \in Ctrl
    BY DEF TypeOK, Ctrl
  <2>2. setConnection(cops["server"]) \in Process
    BY <2>1 DEF setConnection, Process
  <2>3. cops' \in [Ctrl -> Process]
    BY <1>1, <2>1, <2>2, ReplaceType DEF Accept
  <2>4. chan' \in [Ctrl -> Seq(Message)]
    BY <1>1 DEF Accept
  <2>5. QED
    BY <1>1, <2>3, <2>4, <1>f DEF Accept, TypeOK
<1>2. CASE Dialed
  BY <1>2, <1>f DEF Dialed, setConnection, TypeOK, Process, Ctrl
<1>3. CASE LinkFail
  <2>1. chan["server"] \in Seq(Message) /\ chan["client"] \in Seq(Message)
    BY DEF TypeOK, Ctrl
  <2>2. \A s \in Seq(Message) : Prefixes(s) \subseteq Seq(Message)
    BY DEF Prefixes
  <2>3. PICK s \in Seq(Message), k \in Seq(Message) :
          chan' = [c \in Ctrl |-> IF c = "server" THEN s ELSE k]
    BY <1>3, <2>1, <2>2 DEF LinkFail
  <2>4. chan' \in [Ctrl -> Seq(Message)]
    BY <2>3
  <2>5. QED
    BY <1>3, <2>4, <1>f DEF LinkFail, TypeOK, AllFaultKinds
<1>4. ASSUME NEW c \in Ctrl, Boot(c)
      PROVE  TypeOK'
  <2>1. Start(c) \in Process
    BY NewProcessType DEF Start, Process, TypeOK
  <2>2. QED
    BY <1>4, <2>1, <1>f DEF Boot, TypeOK
<1>5. ASSUME NEW c \in Ctrl, ConnectionStep(c)
      PROVE  TypeOK'
  <2>1. CASE ReadError(c)
    <3>1. cops' = [cops EXCEPT ![c] = [cops[c] EXCEPT !.errs = cops[c].errs + 1]]
      BY <2>1 DEF ReadError
    <3>2. cops[c].errs + 1 \in 0..MaxErrs
      BY <2>1, ReplaceType, FieldType DEF ReadError
    <3>3. cops' \in [Ctrl -> Process]
      BY <3>1, <3>2, ReplaceType, AssignType
    <3>4. QED
      BY <2>1, <3>3, <1>f DEF ReadError, TypeOK, AllFaultKinds
  <2>2. CASE handleConnectionError(c)
    <3>0. /\ chan \in [Ctrl -> Seq(Message)] /\ <<>> \in Seq(Message)
          /\ cops[c] \in Process /\ cops[c].errs - 1 \in 0..MaxErrs
      BY <2>2, ReplaceType, FieldType DEF handleConnectionError, TypeOK
    <3>1. chan' \in [Ctrl -> Seq(Message)]
      BY <2>2, <3>0 DEF handleConnectionError
    <3>4. ASSUME cops[c].connector # "none"
          PROVE  cops' \in [Ctrl -> Process]
      <4>1. cops' = [cops EXCEPT ![c] = [cops[c] EXCEPT !.errs = cops[c].errs - 1]]
        BY <2>2, <3>4 DEF handleConnectionError
      <4>2. QED
        BY <4>1, <3>0, ReplaceType, AssignType
    <3>5. ASSUME cops[c].connector = "none"
          PROVE  cops' \in [Ctrl -> Process]
      <4> DEFINE p == [cops[c] EXCEPT !.errs = cops[c].errs - 1, !.connected = FALSE,
                                      !.connector = "goroutine"]
      <4>1. cops' = [cops EXCEPT ![c] = p]
        BY <2>2, <3>5 DEF handleConnectionError
      <4>2. p \in Process
        BY <3>0 DEF Process
      <4>3. QED
        BY <4>1, <4>2, ReplaceType
    <3>2. cops' \in [Ctrl -> Process]
      BY <3>4, <3>5
    <3>3. QED
      BY <2>2, <3>1, <3>2, <1>f DEF handleConnectionError, TypeOK
  <2>3. CASE ConfirmationExpires(c)
    <3>1. cops' = [cops EXCEPT ![c] = [cops[c] EXCEPT !.stale = TRUE]]
      BY <2>3 DEF ConfirmationExpires
    <3>2. cops' \in [Ctrl -> Process]
      BY <3>1, ReplaceType, AssignType
    <3>3. QED
      BY <2>3, <3>2, <1>f DEF ConfirmationExpires, TypeOK, AllFaultKinds
  <2>4. QED
    BY <1>5, <2>1, <2>2, <2>3 DEF ConnectionStep
<1>6. ASSUME NEW c \in Ctrl, NegotiationStep(c)
      PROVE  TypeOK'
  <2>1. CASE WaitConnected(c)
    BY <2>1, <1>f DEF WaitConnected, TypeOK, Points, Threads
  <2>2. CASE WaitDeadline(c)
    BY <2>2, <1>f DEF WaitDeadline, TypeOK, Points, Threads, Taking, AllFaultKinds
  <2>3. CASE checkControllerMode(c)
    <3>1. cops[c] \in Process /\ chan \in [Ctrl -> Seq(Message)]
      BY DEF TypeOK
    <3>2. cops' \in [Ctrl -> Process] /\ chan' \in [Ctrl -> Seq(Message)]
      BY <2>3, <3>1, <1>m, SendType DEF checkControllerMode, TypeOK
    <3>3. pc' \in [Ctrl -> [Threads -> Points]]
      <4>1. pc' = pc \/ pc' = [pc EXCEPT ![c]["neg"] = "decided"]
        BY <2>3 DEF checkControllerMode
      <4>2. [pc EXCEPT ![c]["neg"] = "decided"] \in [Ctrl -> [Threads -> Points]]
        BY <1>p DEF TypeOK
      <4>3. QED
        BY <4>1, <4>2 DEF TypeOK
    <3>4. QED
      BY <2>3, <3>2, <3>3, <1>f DEF checkControllerMode, TypeOK
  <2>4. QED
    BY <1>6, <2>1, <2>2, <2>3 DEF NegotiationStep
<1>7. ASSUME NEW c \in Ctrl, MessageStep(c)
      PROVE  TypeOK'
  <2>0. /\ chan \in [Ctrl -> Seq(Message)] /\ cops[c] \in Process
        /\ cops \in [Ctrl -> Process]
    BY DEF TypeOK
  <2>t. ASSUME NEW k, Receives(c, k)
        PROVE  [chan EXCEPT ![c] = Tail(@)] \in [Ctrl -> Seq(Message)]
    BY <2>0, <2>t, <1>t DEF Receives
  <2>1. CASE replyToModeQueryMsg(c)
    <3>1. ModeCommand(ReplyMode(c), healthy[c]) \in Message
      BY <1>m DEF ReplyMode, TypeOK
    <3>2. cops' \in [Ctrl -> Process] /\ chan' \in [Ctrl -> Seq(Message)]
      BY <2>0, <2>t, <2>1, <3>1, SendType DEF replyToModeQueryMsg
    <3>3. QED
      BY <2>1, <3>2, <1>f DEF replyToModeQueryMsg, TypeOK
  <2>2. CASE processModeCommand(c)
    <3>1. chan' \in [Ctrl -> Seq(Message)]
      BY <2>2, <2>t DEF processModeCommand
    <3>2. cops' \in [Ctrl -> Process]
      <4>1. \/ cops' = cops
            \/ cops' = [cops EXCEPT ![c] = [cops[c] EXCEPT !.first = FALSE]]
            \/ cops' = [cops EXCEPT ![c] = [cops[c] EXCEPT !.stale = FALSE]]
        BY <2>2 DEF processModeCommand
      <4>2. QED
        BY <2>0, <4>1, ReplaceType, AssignType
    <3>3. pc' \in [Ctrl -> [Threads -> Points]]
      <4>1. \/ pc' = pc
            \/ pc' = [pc EXCEPT ![c]["c2c"] = "decided"]
            \/ pc' = [pc EXCEPT ![c]["c2c"] = "sleep"]
        BY <2>2 DEF processModeCommand
      <4>2. \A v \in {"decided", "sleep"} :
              [pc EXCEPT ![c]["c2c"] = v] \in [Ctrl -> [Threads -> Points]]
        BY <1>p DEF TypeOK
      <4>3. QED
        BY <4>1, <4>2 DEF TypeOK
    <3>4. QED
      BY <2>2, <3>1, <3>2, <3>3, <1>f DEF processModeCommand, TypeOK
  <2>3. CASE RequestDBIUpdate(c)
    <3>1. [cops[c] EXCEPT !.stale = FALSE] \in Process
      BY <2>0 DEF Process
    <3>2. cops' \in [Ctrl -> Process] /\ chan' \in [Ctrl -> Seq(Message)]
      BY <2>0, <2>3, <3>1, <1>m, SendType DEF RequestDBIUpdate
    <3>3. pc' \in [Ctrl -> [Threads -> Points]]
      BY <2>3 DEF RequestDBIUpdate, TypeOK, Points, Threads
    <3>4. QED
      BY <2>3, <3>2, <3>3, <1>f DEF RequestDBIUpdate, TypeOK
  <2>4. CASE getDBIUpdate(c)
    BY <2>4, <2>t, <1>f DEF getDBIUpdate, TypeOK
  <2>5. QED
    BY <1>7, <2>1, <2>2, <2>3, <2>4 DEF MessageStep
<1>8. ASSUME NEW c \in Ctrl, NEW v, NEW p \in Process, v \in UpdateDoc, SetUpdateMode(c, v, p)
      PROVE  /\ dbi' \in [Ctrl -> UpdateDoc] /\ cops' \in [Ctrl -> Process]
             /\ pc' \in [Ctrl -> [Threads -> Points]]
  <2>1. [p EXCEPT !.mode = "Update"] \in Process
    BY DEF Process, Modes
  <2>2. dbi' \in [Ctrl -> UpdateDoc]
    BY <1>8 DEF SetUpdateMode, TypeOK
  <2>3. cops' \in [Ctrl -> Process]
    BY <1>8, <2>1 DEF SetUpdateMode, TypeOK
  <2>4. pc' \in [Ctrl -> [Threads -> Points]]
    <3>1. pc' = pc \/ pc' = [pc EXCEPT ![c]["main"] = "decided"]
      BY <1>8 DEF SetUpdateMode
    <3>2. [pc EXCEPT ![c]["main"] = "decided"] \in [Ctrl -> [Threads -> Points]]
      BY <1>p DEF TypeOK
    <3>3. QED
      BY <3>1, <3>2 DEF TypeOK
  <2>5. QED
    BY <2>2, <2>3, <2>4
<1>9. ASSUME NEW c \in Ctrl, DbiReply(c)
      PROVE  TypeOK'
  <2>1. cops[c].ask \in UpdateDoc /\ [cops[c] EXCEPT !.ask = "none"] \in Process
    BY ReplaceType, FieldType, AssignType DEF UpdateDoc
  <2>2. QED
    BY <1>8, <1>9, <2>1, <1>f DEF DbiReply, TypeOK
<1>10. ASSUME NEW c \in Ctrl, NEW t \in Threads
       PROVE  /\ AfterReturn(c, t) \in Process
              /\ [AfterReturn(c, t) EXCEPT !.alarm = TRUE] \in Process
              /\ Returned(c, t) \in [Threads -> Points]
  <2>1. cops[c] \in Process /\ pc[c] \in [Threads -> Points]
    BY DEF TypeOK
  <2>2. AfterReturn(c, t) \in Process
    BY <2>1 DEF AfterReturn, Process
  <2>3. [AfterReturn(c, t) EXCEPT !.alarm = TRUE] \in Process
    BY <2>2 DEF Process
  <2>4. QED
    BY <2>1, <2>2, <2>3, ThreadPoints DEF Returned
<1>11. ASSUME NEW c \in Ctrl, NEW t \in Threads, TakeoverStep(c, t)
       PROVE  TypeOK'
  <2>1. CASE Claim(c, t)
    <3>1. cops' = [cops EXCEPT ![c] = [cops[c] EXCEPT !.mode = "Primary"]]
      BY <2>1 DEF Claim
    <3>2. cops' \in [Ctrl -> Process]
      BY <3>1, ReplaceType, AssignType DEF Modes
    <3>3. pc' \in [Ctrl -> [Threads -> Points]]
      BY <2>1, ReplaceType DEF Claim, Points, Taking
    <3>4. QED
      BY <2>1, <3>2, <3>3, <1>f DEF Claim, TypeOK
  <2>2. CASE setupPrimaryIP(c, t)
    <3>1. CASE ipLinkAdd(c, t)
      <4>1. ip' \in [Ctrl -> Interface]
        BY <3>1 DEF ipLinkAdd, TypeOK, Interface
      <4>2. pc' \in [Ctrl -> [Threads -> Points]]
        <5>1. \E v \in Points : pc' = [pc EXCEPT ![c][t] = v]
          BY <3>1 DEF ipLinkAdd, Points, Taking
        <5>2. QED
          BY <5>1, ReplaceType
      <4>3. faults' \in 0..MaxFaults
        BY <3>1, <1>f DEF ipLinkAdd, AllFaultKinds
      <4>4. QED
        BY <3>1, <4>1, <4>2, <4>3 DEF ipLinkAdd, TypeOK
    <3>2. CASE ipAddrAdd(c, t)
      BY <3>2, <1>f DEF ipAddrAdd, TypeOK, Interface, Points, Taking, AllFaultKinds
    <3>3. QED
      BY <2>2, <3>1, <3>2 DEF setupPrimaryIP
  <2>3. CASE RequestReset(c, t)
    BY <2>3, <1>f DEF RequestReset, TypeOK, Points, Taking
  <2>4. CASE ResetOther(c, t)
    <3>1. /\ up' \in [Ctrl -> BOOLEAN] /\ cops' \in [Ctrl -> Process]
          /\ pc' \in [Ctrl -> [Threads -> Points]] /\ link' \in {"none", "half", "open"}
          /\ chan' \in [Ctrl -> Seq(Message)]
      <4>1. ProcessEnds(Other(c), AfterReturn(c, t), Returned(c, t))
        BY <2>4 DEF ResetOther
      <4>2. Other(c) \in Ctrl
        BY OtherCtrl
      <4>3. QED
        BY <4>1, <4>2, <1>10, ProcessEndsType
    <3>2. QED
      BY <2>4, <3>1, <1>f, OtherCtrl DEF Interface, ResetOther, PowerCycled, Requesting, TypeOK
  <2>5. QED
    BY <1>11, <2>1, <2>2, <2>3, <2>4 DEF TakeoverStep
<1>12. ASSUME NEW c \in Ctrl, OrphanReset(c)
       PROVE  TypeOK'
  <2>0. cops[c] \in Process /\ pc[c] \in [Threads -> Points]
    BY DEF TypeOK
  <2>1. /\ up' \in [Ctrl -> BOOLEAN] /\ cops' \in [Ctrl -> Process]
        /\ pc' \in [Ctrl -> [Threads -> Points]] /\ link' \in {"none", "half", "open"}
        /\ chan' \in [Ctrl -> Seq(Message)]
    BY <2>0, <1>12, OtherCtrl, ProcessEndsType DEF OrphanReset
  <2>2. QED
    BY <1>12, <2>1, <1>f, OtherCtrl DEF Interface, OrphanReset, Requesting, TypeOK
<1>13. ASSUME NEW c \in Ctrl, FaultStep(c)
       PROVE  TypeOK'
  <2>0. cops[Other(c)] \in Process /\ pc[Other(c)] \in [Threads -> Points]
    BY OtherCtrl DEF TypeOK
  <2>e. ASSUME ProcessEnds(c, cops[Other(c)], pc[Other(c)])
        PROVE  /\ up' \in [Ctrl -> BOOLEAN] /\ cops' \in [Ctrl -> Process]
               /\ pc' \in [Ctrl -> [Threads -> Points]]
               /\ link' \in {"none", "half", "open"}
               /\ chan' \in [Ctrl -> Seq(Message)]
    BY <2>0, <2>e, ProcessEndsType
  <2>1. CASE CopsCrash(c)
    BY <2>1, <2>e, <1>f DEF CopsCrash, Requesting, TypeOK, AllFaultKinds
  <2>2. CASE PowerFail(c)
    BY <2>2, <2>e, <1>f DEF Interface, PowerFail, PowerCycled, Requesting, TypeOK, AllFaultKinds
  <2>3. CASE HealthChange(c)
    BY <2>3, <1>f DEF HealthChange, TypeOK, AllFaultKinds
  <2>4. CASE handleUpdateMode(c)
    <3>1. cops[c] \in Process /\ {"on", "off"} \subseteq UpdateDoc
      BY DEF TypeOK, UpdateDoc
    <3>2. QED
      BY <2>4, <3>1, <1>8, <1>f DEF handleUpdateMode, TypeOK, AllFaultKinds
  <2>5. ASSUME NEW t \in Threads, ResetRefused(c, t)
        PROVE  TypeOK'
    BY <2>5, <1>10, <1>f DEF ResetRefused, TypeOK, AllFaultKinds
  <2>6. ASSUME NEW t \in Threads, ResetUnanswered(c, t)
        PROVE  TypeOK'
    <3>1. CASE ProcessEnds(c, cops[Other(c)], pc[Other(c)])
      BY <2>6, <3>1, <2>e, <1>f DEF ResetUnanswered, TypeOK, AllFaultKinds
    <3>2. CASE ~ProcessEnds(c, cops[Other(c)], pc[Other(c)])
      <4>1. /\ cops' = [cops EXCEPT ![c] = [AfterReturn(c, t) EXCEPT !.alarm = TRUE]]
            /\ pc' = [pc EXCEPT ![c] = Returned(c, t)]
        BY <2>6, <3>2 DEF ResetUnanswered
      <4>2. cops' \in [Ctrl -> Process] /\ pc' \in [Ctrl -> [Threads -> Points]]
        BY <4>1, <1>10, ReplaceType
      <4>3. QED
        BY <2>6, <3>2, <4>2, <1>f DEF ResetUnanswered, TypeOK, AllFaultKinds
    <3>3. QED
      BY <3>1, <3>2
  <2>7. QED
    BY <1>13, <2>1, <2>2, <2>3, <2>4, <2>5, <2>6 DEF FaultStep
<1>14. CASE UNCHANGED vars
  BY <1>14 DEF vars, TypeOK
<1>15. QED
  BY <1>1, <1>2, <1>3, <1>4, <1>5, <1>6, <1>7, <1>9, <1>11, <1>12, <1>13, <1>14
     DEF Next, SessionStep

(* TypeOK holds in every reachable state of CopsFailover.                  *)
THEOREM TypeCorrect == Spec => []TypeOK
<1>1. Init => TypeOK
  BY NewProcessType, ThreadPoints, ConstantsAssumption
     DEF Init, TypeOK, UpdateDoc, Interface
<1>2. QED
  BY <1>1, TypeStep, PTL DEF Spec
-----------------------------------------------------------------------------
(* A step is calm when no controller becomes Primary by it, no takeover    *)
(* under way is given up and no process withdraws its Fault event.         *)
Calm ==
  \A d \in Ctrl :
    /\ cops'[d].mode = "Primary" => cops[d].mode = "Primary"
    /\ cops'[d].alarm = cops[d].alarm
    /\ \A t \in Threads :
         pc[d][t] \in Taking \ {"decided"} => pc'[d][t] \in Taking \ {"decided"}

(* Calm steps keep SplitBrainIsTransient.                                  *)
LEMMA CalmKeeps ==
  ASSUME SplitBrainIsTransient, Calm
  PROVE  SplitBrainIsTransient'
BY DEF SplitBrainIsTransient, Calm, IsPrimary, TakingOver

(* A step after which some controller is not Primary keeps it too: this is *)
(* what the reset of the other controller is for.                          *)
LEMMA FencedKeeps ==
  ASSUME NEW c \in Ctrl, cops'[c].mode # "Primary"
  PROVE  SplitBrainIsTransient'
BY DEF SplitBrainIsTransient, IsPrimary

(* A process that ended is not Primary.                                    *)
LEMMA EndedIsSecondary ==
  ASSUME TypeOK, NEW c \in Ctrl, NEW peer, NEW at, ProcessEnds(c, peer, at)
  PROVE  cops'[c].mode # "Primary"
<1>1. Other(c) # c
  BY OtherCtrl
<1>2. cops'[c] = NewProcess
  BY <1>1 DEF ProcessEnds, TypeOK
<1>3. QED
  BY <1>2 DEF NewProcess

(* Sending is calm in memory.                                              *)
LEMMA SendIsCalm ==
  ASSUME TypeOK, NEW c \in Ctrl, NEW t, NEW msg, NEW p \in Process, NEW ch,
         p.mode = cops[c].mode, p.alarm = cops[c].alarm,
         sendC2CMsg(c, t, msg, p, ch)
  PROVE  \A d \in Ctrl : cops'[d].mode = cops[d].mode /\ cops'[d].alarm = cops[d].alarm
<1> DEFINE q == [p EXCEPT !.connected = FALSE, !.connector = t]
<1>1. q.mode = p.mode /\ q.alarm = p.alarm
  BY DEF Process
<1>2. cops' = [cops EXCEPT ![c] = p] \/ cops' = [cops EXCEPT ![c] = q]
  BY DEF sendC2CMsg
<1>3. cops \in [Ctrl -> Process]
  BY DEF TypeOK
<1> HIDE DEF q
<1>4. QED
  BY <1>1, <1>2, <1>3

(* Every step keeps SplitBrainIsTransient.                                 *)
LEMMA SplitBrainStep ==
  ASSUME TypeOK, SplitBrainIsTransient, [Next]_vars
  PROVE  SplitBrainIsTransient'
<1>0. /\ cops \in [Ctrl -> Process] /\ pc \in [Ctrl -> [Threads -> Points]]
      /\ {"neg", "c2c", "main"} \subseteq Threads
  BY DEF TypeOK, Threads
<1>1. CASE Accept
  <2>1. cops' = [cops EXCEPT !["server"] = setConnection(cops["server"])]
    BY <1>1 DEF Accept
  <2>2. Calm
    BY <1>0, <1>1, <2>1 DEF Accept, setConnection, Calm, Ctrl, Process
  <2>3. QED
    BY <2>2, CalmKeeps
<1>2. CASE Dialed
  <2>1. Calm
    BY <1>0, <1>2 DEF Dialed, setConnection, Calm, Ctrl, Process
  <2>2. QED
    BY <2>1, CalmKeeps
<1>3. CASE LinkFail
  BY <1>3, CalmKeeps DEF LinkFail, Calm
<1>4. ASSUME NEW c \in Ctrl, Boot(c)
      PROVE  SplitBrainIsTransient'
  <2>1. cops'[c].mode # "Primary"
    BY <1>0, <1>4 DEF Boot, Start, NewProcess
  <2>2. QED
    BY <2>1, FencedKeeps
<1>5. ASSUME NEW c \in Ctrl, ConnectionStep(c)
      PROVE  SplitBrainIsTransient'
  <2>1. Calm
    <3>1. CASE ReadError(c)
      BY <1>0, <3>1 DEF ReadError, Calm, Process
    <3>2. CASE handleConnectionError(c)
      <4>1. CASE cops' = [cops EXCEPT ![c].errs = @ - 1]
        BY <1>0, <3>2, <4>1 DEF handleConnectionError, Calm, Process
      <4>2. CASE cops' = [cops EXCEPT ![c].errs = @ - 1, ![c].connected = FALSE,
                                      ![c].connector = "goroutine"]
        BY <1>0, <3>2, <4>2 DEF handleConnectionError, Calm, Process
      <4>3. QED
        BY <3>2, <4>1, <4>2 DEF handleConnectionError
    <3>3. CASE ConfirmationExpires(c)
      BY <1>0, <3>3 DEF ConfirmationExpires, Calm, Process
    <3>4. QED
      BY <1>5, <3>1, <3>2, <3>3 DEF ConnectionStep
  <2>2. QED
    BY <2>1, CalmKeeps
<1>6. ASSUME NEW c \in Ctrl, NegotiationStep(c)
      PROVE  SplitBrainIsTransient'
  <2>1. \A d \in Ctrl : cops'[d].mode = cops[d].mode /\ cops'[d].alarm = cops[d].alarm
    BY <1>0, <1>6, SendIsCalm
       DEF NegotiationStep, WaitConnected, WaitDeadline, checkControllerMode
  <2>2. /\ pc[c]["neg"] \in {"wait", "loop"}
        /\ pc' = pc \/ \E v \in Points : pc' = [pc EXCEPT ![c]["neg"] = v]
    BY <1>6 DEF NegotiationStep, WaitConnected, WaitDeadline, checkControllerMode,
                Points, Taking
  <2>3. Calm
    BY <1>0, <2>1, <2>2 DEF Calm, Taking
  <2>4. QED
    BY <2>3, CalmKeeps
<1>7. ASSUME NEW c \in Ctrl, MessageStep(c)
      PROVE  SplitBrainIsTransient'
  <2>1. \A d \in Ctrl : cops'[d].mode = cops[d].mode /\ cops'[d].alarm = cops[d].alarm
    <3>1. CASE replyToModeQueryMsg(c)
      BY <1>0, <3>1, SendIsCalm DEF replyToModeQueryMsg
    <3>2. CASE processModeCommand(c)
      <4>1. \/ cops' = cops
            \/ cops' = [cops EXCEPT ![c] = [cops[c] EXCEPT !.first = FALSE]]
            \/ cops' = [cops EXCEPT ![c] = [cops[c] EXCEPT !.stale = FALSE]]
        BY <3>2 DEF processModeCommand
      <4>2. CASE cops' = [cops EXCEPT ![c] = [cops[c] EXCEPT !.first = FALSE]]
        BY <1>0, <4>2 DEF Process
      <4>3. CASE cops' = [cops EXCEPT ![c] = [cops[c] EXCEPT !.stale = FALSE]]
        BY <1>0, <4>3 DEF Process
      <4>4. QED
        BY <4>1, <4>2, <4>3
    <3>3. CASE RequestDBIUpdate(c)
      <4> DEFINE p == [cops[c] EXCEPT !.stale = FALSE]
      <4>1. p \in Process /\ p.mode = cops[c].mode /\ p.alarm = cops[c].alarm
        BY <1>0 DEF Process
      <4>2. sendC2CMsg(c, "c2c", GetDBIUpdate, p, chan)
        BY <3>3 DEF RequestDBIUpdate
      <4> HIDE DEF p
      <4>3. QED
        BY <4>1, <4>2, SendIsCalm
    <3>4. CASE getDBIUpdate(c)
      BY <3>4 DEF getDBIUpdate
    <3>5. QED
      BY <1>7, <3>1, <3>2, <3>3, <3>4 DEF MessageStep
  <2>2. /\ pc[c]["c2c"] \in {"read", "sleep"}
        /\ pc' = pc \/ \E v \in Points : pc' = [pc EXCEPT ![c]["c2c"] = v]
    BY <1>7 DEF MessageStep, replyToModeQueryMsg, processModeCommand, RequestDBIUpdate,
                getDBIUpdate, Receives, Points, Taking
  <2>3. Calm
    BY <1>0, <2>1, <2>2 DEF Calm, Taking
  <2>4. QED
    BY <2>3, CalmKeeps
<1>8. ASSUME NEW c \in Ctrl, NEW v, NEW p \in Process, SetUpdateMode(c, v, p),
             p.mode = cops[c].mode, p.alarm = cops[c].alarm, pc[c]["main"] = "idle"
      PROVE  SplitBrainIsTransient'
  <2>1. \A d \in Ctrl : /\ cops'[d].mode = "Primary" => cops[d].mode = "Primary"
                        /\ cops'[d].alarm = cops[d].alarm
    BY <1>0, <1>8 DEF SetUpdateMode, Process
  <2>2. pc' = pc \/ pc' = [pc EXCEPT ![c]["main"] = "decided"]
    BY <1>8 DEF SetUpdateMode
  <2>3. Calm
    BY <1>0, <1>8, <2>1, <2>2 DEF Calm, Taking
  <2>4. QED
    BY <2>3, CalmKeeps
<1>9. ASSUME NEW c \in Ctrl, DbiReply(c)
      PROVE  SplitBrainIsTransient'
  <2> DEFINE p == [cops[c] EXCEPT !.ask = "none"]
  <2>1. p \in Process /\ p.mode = cops[c].mode /\ p.alarm = cops[c].alarm
    BY <1>0 DEF Process, UpdateDoc
  <2>2. SetUpdateMode(c, cops[c].ask, p) /\ pc[c]["main"] = "idle"
    BY <1>9 DEF DbiReply
  <2> HIDE DEF p
  <2>3. QED
    BY <2>1, <2>2, <1>8
<1>10. ASSUME NEW c \in Ctrl, NEW t \in Threads, TakeoverStep(c, t)
       PROVE  SplitBrainIsTransient'
  <2>1. CASE Claim(c, t)
    <3>1. pc'[c][t] = "claimed"
      BY <1>0, <2>1 DEF Claim
    <3>2. QED
      BY <3>1 DEF SplitBrainIsTransient, TakingOver, Taking
  <2>2. CASE setupPrimaryIP(c, t)
    <3>1. CASE ipLinkAdd(c, t)
      <4>1. Calm
        BY <1>0, <3>1 DEF ipLinkAdd, Calm, Taking
      <4>2. QED
        BY <4>1, CalmKeeps
    <3>2. CASE ipAddrAdd(c, t)
      <4>1. Calm
        BY <1>0, <3>2 DEF ipAddrAdd, Calm, Taking
      <4>2. QED
        BY <4>1, CalmKeeps
    <3>3. QED
      BY <2>2, <3>1, <3>2 DEF setupPrimaryIP
  <2>3. CASE RequestReset(c, t)
    <3>1. Calm
      BY <1>0, <2>3 DEF RequestReset, Calm, Taking
    <3>2. QED
      BY <3>1, CalmKeeps
  <2>4. CASE ResetOther(c, t)
    BY <2>4, OtherCtrl, EndedIsSecondary, FencedKeeps DEF ResetOther
  <2>5. QED
    BY <1>10, <2>1, <2>2, <2>3, <2>4 DEF TakeoverStep
<1>11. ASSUME NEW c \in Ctrl, OrphanReset(c)
       PROVE  SplitBrainIsTransient'
  BY <1>11, OtherCtrl, EndedIsSecondary, FencedKeeps DEF OrphanReset
<1>12. ASSUME NEW c \in Ctrl, FaultStep(c)
       PROVE  SplitBrainIsTransient'
  <2>1. CASE CopsCrash(c) \/ PowerFail(c)
    BY <2>1, EndedIsSecondary, FencedKeeps DEF CopsCrash, PowerFail
  <2>2. CASE HealthChange(c)
    BY <2>2, CalmKeeps DEF HealthChange, Calm
  <2>3. CASE handleUpdateMode(c)
    BY <1>0, <2>3, <1>8 DEF handleUpdateMode
  <2>4. ASSUME NEW t \in Threads,
               cops' = [cops EXCEPT ![c] = [AfterReturn(c, t) EXCEPT !.alarm = TRUE]]
        PROVE  SplitBrainIsTransient'
    <3>1. cops'[c].alarm
      BY <1>0, <2>4 DEF AfterReturn, Process
    <3>2. QED
      BY <3>1 DEF SplitBrainIsTransient
  <2>5. ASSUME NEW t \in Threads, ResetRefused(c, t)
        PROVE  SplitBrainIsTransient'
    BY <2>4, <2>5 DEF ResetRefused
  <2>6. ASSUME NEW t \in Threads, ResetUnanswered(c, t)
        PROVE  SplitBrainIsTransient'
    BY <2>4, <2>6, EndedIsSecondary, FencedKeeps DEF ResetUnanswered
  <2>7. QED
    BY <1>12, <2>1, <2>2, <2>3, <2>5, <2>6 DEF FaultStep
<1>13. CASE UNCHANGED vars
  BY <1>13, CalmKeeps DEF vars, Calm
<1>14. QED
  BY <1>1, <1>2, <1>3, <1>4, <1>5, <1>6, <1>7, <1>9, <1>10, <1>11, <1>12, <1>13
     DEF Next, SessionStep

(* takeOverAsPrimary never leaves two Primary controllers behind unless it *)
(* sent the Fault event: for every combination and number of faults.       *)
THEOREM SplitBrainTheorem == Spec => []SplitBrainIsTransient
<1>1. Init => SplitBrainIsTransient
  BY DEF Init, SplitBrainIsTransient, IsPrimary, NewProcess, Ctrl
<1>2. QED
  BY <1>1, TypeCorrect, SplitBrainStep, PTL DEF Spec
-----------------------------------------------------------------------------
(* The primary IP.  A step is steady when it moves no IP and takes no      *)
(* thread out of the part of takeOverAsPrimary after setupPrimaryIP.       *)
Late == {"addressed", "requested"}

Steady ==
  /\ ip' = ip
  /\ \A d \in Ctrl, t \in Threads : pc[d][t] \in Late => pc'[d][t] \in Late

(* Steady steps keep DuplicateIPIsTransient.                               *)
LEMMA SteadyKeeps ==
  ASSUME DuplicateIPIsTransient, Steady
  PROVE  DuplicateIPIsTransient'
BY DEF DuplicateIPIsTransient, HoldsIP, Steady, Late

(* So does a step that takes the IP from some controller.                  *)
LEMMA ReleaseKeeps ==
  ASSUME NEW c \in Ctrl, ip'[c] # "held"
  PROVE  DuplicateIPIsTransient'
BY DEF DuplicateIPIsTransient, HoldsIP

(* When no COPS process dies on its own and the PDU confirms every reset,  *)
(* every step keeps DuplicateIPIsTransient.                                *)
LEMMA DuplicateIPStep ==
  ASSUME FaultKinds \cap {"crash", "pdu"} = {},
         TypeOK, DuplicateIPIsTransient, [Next]_vars
  PROVE  DuplicateIPIsTransient'
<1>0. /\ ip \in [Ctrl -> Interface] /\ pc \in [Ctrl -> [Threads -> Points]]
      /\ {"neg", "c2c", "main"} \subseteq Threads
  BY DEF TypeOK, Threads
<1>1. ASSUME NEW c \in Ctrl, NEW t \in Threads, NEW v \in Points,
             pc[c][t] \notin Late, ip' = ip, pc' = [pc EXCEPT ![c][t] = v]
      PROVE  DuplicateIPIsTransient'
  <2>1. Steady
    BY <1>0, <1>1 DEF Steady
  <2>2. QED
    BY <2>1, SteadyKeeps
<1>2. ASSUME ip' = ip, pc' = pc
      PROVE  DuplicateIPIsTransient'
  BY <1>2, SteadyKeeps DEF Steady
<1>3. CASE Accept \/ Dialed \/ LinkFail \/ UNCHANGED vars
  BY <1>2, <1>3 DEF Accept, Dialed, LinkFail, vars
<1>4. ASSUME NEW c \in Ctrl, Boot(c) \/ ConnectionStep(c)
      PROVE  DuplicateIPIsTransient'
  BY <1>2, <1>4 DEF Boot, ConnectionStep, ReadError, handleConnectionError,
                    ConfirmationExpires
<1>5. ASSUME NEW c \in Ctrl, NegotiationStep(c)
      PROVE  DuplicateIPIsTransient'
  <2>1. /\ ip' = ip /\ pc[c]["neg"] \notin Late
        /\ pc' = pc \/ \E v \in Points : pc' = [pc EXCEPT ![c]["neg"] = v]
    BY <1>5 DEF NegotiationStep, WaitConnected, WaitDeadline, checkControllerMode,
                Late, Points, Taking
  <2>2. QED
    BY <1>0, <1>1, <1>2, <2>1
<1>6. ASSUME NEW c \in Ctrl, MessageStep(c)
      PROVE  DuplicateIPIsTransient'
  <2>1. /\ ip' = ip /\ pc[c]["c2c"] \notin Late
        /\ pc' = pc \/ \E v \in Points : pc' = [pc EXCEPT ![c]["c2c"] = v]
    BY <1>6 DEF MessageStep, replyToModeQueryMsg, processModeCommand, RequestDBIUpdate,
                getDBIUpdate, Receives, Late, Points, Taking
  <2>2. QED
    BY <1>0, <1>1, <1>2, <2>1
<1>7. ASSUME NEW c \in Ctrl, DbiReply(c) \/ handleUpdateMode(c)
      PROVE  DuplicateIPIsTransient'
  <2>1. /\ ip' = ip /\ pc[c]["main"] \notin Late
        /\ pc' = pc \/ \E v \in Points : pc' = [pc EXCEPT ![c]["main"] = v]
    BY <1>7 DEF DbiReply, handleUpdateMode, SetUpdateMode, Late, Points, Taking
  <2>2. QED
    BY <1>0, <1>1, <1>2, <2>1
<1>8. ASSUME NEW c \in Ctrl, NEW t \in Threads, TakeoverStep(c, t)
      PROVE  DuplicateIPIsTransient'
  <2>1. CASE Claim(c, t)
    BY <2>1, <1>1 DEF Claim, Late, Points, Taking
  <2>2. CASE setupPrimaryIP(c, t)
    <3>1. ip'[c] # "held" \/ pc'[c][t] \in {"addressed", "requested"}
      <4>1. CASE ipLinkAdd(c, t)
        BY <1>0, <4>1 DEF ipLinkAdd
      <4>2. CASE ipAddrAdd(c, t)
        BY <1>0, <4>2 DEF ipAddrAdd
      <4>3. QED
        BY <2>2, <4>1, <4>2 DEF setupPrimaryIP
    <3>2. QED
      BY <3>1 DEF DuplicateIPIsTransient, HoldsIP
  <2>3. CASE RequestReset(c, t)
    <3>1. pc'[c][t] \in {"addressed", "requested"}
      BY <1>0, <2>3 DEF RequestReset
    <3>2. QED
      BY <3>1 DEF DuplicateIPIsTransient
  <2>4. CASE ResetOther(c, t)
    <3>1. Other(c) \in Ctrl /\ ip'[Other(c)] # "held"
      BY <1>0, <2>4, OtherCtrl DEF ResetOther, PowerCycled
    <3>2. QED
      BY <3>1, ReleaseKeeps
  <2>5. QED
    BY <1>8, <2>1, <2>2, <2>3, <2>4 DEF TakeoverStep
<1>9. ASSUME NEW c \in Ctrl, OrphanReset(c)
      PROVE  DuplicateIPIsTransient'
  <2>1. Other(c) \in Ctrl /\ ip'[Other(c)] # "held"
    BY <1>0, <1>9, OtherCtrl DEF OrphanReset
  <2>2. QED
    BY <2>1, ReleaseKeeps
<1>10. ASSUME NEW c \in Ctrl, FaultStep(c)
       PROVE  DuplicateIPIsTransient'
  <2>1. CASE PowerFail(c)
    <3>1. ip'[c] # "held"
      BY <1>0, <2>1 DEF PowerFail, PowerCycled
    <3>2. QED
      BY <3>1, ReleaseKeeps
  <2>2. CASE HealthChange(c)
    BY <2>2, <1>2 DEF HealthChange
  <2>3. ~CopsCrash(c)
    BY DEF CopsCrash, Spend
  <2>4. \A t \in Threads : ~ResetRefused(c, t) /\ ~ResetUnanswered(c, t)
    BY DEF ResetRefused, ResetUnanswered, Spend
  <2>5. QED
    BY <1>7, <1>10, <2>1, <2>2, <2>3, <2>4 DEF FaultStep
<1>11. QED
  BY <1>3, <1>4, <1>5, <1>6, <1>7, <1>8, <1>9, <1>10 DEF Next, SessionStep

(* As long as COPS processes die only with their machine and the PDU       *)
(* confirms every reset, two kernels hold the primary IP only while a      *)
(* takeover past setupPrimaryIP is about to take it from one of them.      *)
THEOREM DuplicateIPTheorem ==
  ASSUME FaultKinds \cap {"crash", "pdu"} = {}
  PROVE  Spec => []DuplicateIPIsTransient
<1>1. Init => DuplicateIPIsTransient
  BY DEF Init, DuplicateIPIsTransient, HoldsIP, Ctrl
<1>2. TypeOK /\ DuplicateIPIsTransient /\ [Next]_vars => DuplicateIPIsTransient'
  BY DuplicateIPStep
<1>3. QED
  BY <1>1, <1>2, TypeCorrect, PTL DEF Spec
-----------------------------------------------------------------------------
(* The role behind the primary IP.  A thread on its way to the address has *)
(* set controllerMode already, and an ended process leaves neither.        *)
Bound(c) == HoldsIP(c) \/ TakingOver(c)
RoleInv == \A c \in Ctrl : Bound(c) => up[c] /\ cops[c].mode # "Secondary"

(* A step that ends no process and makes none Secondary keeps RoleInv when *)
(* every controller it binds to the address has a role already.            *)
LEMMA RoleKeeps ==
  ASSUME RoleInv,
         \A c \in Ctrl : /\ up[c] => up'[c]
                         /\ cops'[c].mode = "Secondary" => cops[c].mode = "Secondary"
                         /\ Bound(c)' => Bound(c)
  PROVE  RoleInv'
BY DEF RoleInv

(* A machine that lost power is not bound to the address, and the process  *)
(* of its peer is as before.                                               *)
LEMMA PowerLossKeepsRole ==
  ASSUME TypeOK, RoleInv, NEW c \in Ctrl, NEW peer, NEW at \in [Threads -> Points],
         peer.mode = cops[Other(c)].mode,
         \A t \in Threads : at[t] \in Taking \ {"decided"}
                              => pc[Other(c)][t] \in Taking \ {"decided"},
         ProcessEnds(c, peer, at), ip' = [ip EXCEPT ![c] = "none"]
  PROVE  RoleInv'
<1>0. /\ Other(c) \in Ctrl /\ Other(c) # c
      /\ \A d \in Ctrl : d = c \/ d = Other(c)
  BY OtherCtrl
<1>1. /\ pc'[c] = NewThreads /\ pc'[Other(c)] = at
      /\ cops'[Other(c)] = peer /\ up'[Other(c)] = up[Other(c)]
      /\ ip'[c] = "none" /\ ip'[Other(c)] = ip[Other(c)]
  BY <1>0 DEF ProcessEnds, TypeOK
<1>2. ~Bound(c)'
  BY <1>1 DEF Bound, HoldsIP, TakingOver, NewThreads, Threads, Taking
<1>3. Bound(Other(c))' => Bound(Other(c))
  BY <1>1 DEF Bound, HoldsIP, TakingOver
<1>4. QED
  BY <1>0, <1>1, <1>2, <1>3 DEF RoleInv

(* When no COPS process dies on its own and the PDU confirms every reset,  *)
(* every step keeps RoleInv.                                               *)
LEMMA RoleStep ==
  ASSUME FaultKinds \cap {"crash", "pdu"} = {},
         TypeOK, RoleInv, [Next]_vars
  PROVE  RoleInv'
<1>0. /\ cops \in [Ctrl -> Process] /\ pc \in [Ctrl -> [Threads -> Points]]
      /\ ip \in [Ctrl -> Interface] /\ up \in [Ctrl -> BOOLEAN]
      /\ {"neg", "c2c", "main"} \subseteq Threads
  BY DEF TypeOK, Threads
<1>a. ASSUME up' = up, ip' = ip,
             \A d \in Ctrl : cops'[d].mode = "Secondary" => cops[d].mode = "Secondary",
             \/ pc' = pc
             \/ \E c \in Ctrl, t \in Threads, v \in Points \ (Taking \ {"decided"}) :
                  pc' = [pc EXCEPT ![c][t] = v]
      PROVE  RoleInv'
  <2>1. \A d \in Ctrl, u \in Threads :
          pc'[d][u] \in Taking \ {"decided"} => pc[d][u] \in Taking \ {"decided"}
    <3>1. CASE pc' = pc
      BY <3>1
    <3>2. ASSUME NEW c \in Ctrl, NEW t \in Threads,
                 NEW v \in Points \ (Taking \ {"decided"}), pc' = [pc EXCEPT ![c][t] = v]
          PROVE  \A d \in Ctrl, u \in Threads :
                   pc'[d][u] = pc[d][u] \/ pc'[d][u] \notin Taking \ {"decided"}
      BY <1>0, <3>2
    <3>3. QED
      BY <1>a, <3>1, <3>2
  <2>2. \A d \in Ctrl : Bound(d)' => Bound(d)
    BY <1>a, <2>1 DEF Bound, HoldsIP, TakingOver
  <2>3. QED
    BY <1>a, <2>2, RoleKeeps
<1>b. {"loop", "decided", "read", "sleep"} \subseteq Points \ (Taking \ {"decided"})
  BY DEF Points, Taking
<1>1. CASE Accept \/ Dialed \/ LinkFail
  <2>1. \A d \in Ctrl : cops'[d].mode = cops[d].mode
    <3>1. \A d \in Ctrl : setConnection(cops[d]).mode = cops[d].mode
      BY <1>0 DEF setConnection, Process
    <3>2. \/ cops' = cops
          \/ \E c \in Ctrl : cops' = [cops EXCEPT ![c] = setConnection(cops[c])]
      BY <1>1 DEF Accept, Dialed, LinkFail, Ctrl
    <3>3. QED
      BY <1>0, <3>1, <3>2
  <2>2. QED
    BY <1>1, <1>a, <2>1 DEF Accept, Dialed, LinkFail
<1>2. ASSUME NEW c \in Ctrl, Boot(c)
      PROVE  RoleInv'
  <2>1. \A d \in Ctrl \ {c} : up'[d] = up[d] /\ cops'[d] = cops[d]
    BY <1>0, <1>2 DEF Boot
  <2>2. ~Bound(c)
    BY <1>2 DEF Boot, RoleInv
  <2>3. \A d \in Ctrl : Bound(d)' <=> Bound(d)
    BY <1>2 DEF Boot, Bound, HoldsIP, TakingOver
  <2>4. QED
    BY <2>1, <2>2, <2>3 DEF RoleInv
<1>3. ASSUME NEW c \in Ctrl, ConnectionStep(c)
      PROVE  RoleInv'
  <2>1. \A d \in Ctrl : cops'[d].mode = cops[d].mode
    <3>1. CASE ReadError(c)
      BY <1>0, <3>1 DEF ReadError, Process
    <3>2. CASE handleConnectionError(c)
      <4>1. CASE cops' = [cops EXCEPT ![c].errs = @ - 1]
        BY <1>0, <4>1 DEF Process
      <4>2. CASE cops' = [cops EXCEPT ![c].errs = @ - 1, ![c].connected = FALSE,
                                      ![c].connector = "goroutine"]
        BY <1>0, <4>2 DEF Process
      <4>3. QED
        BY <3>2, <4>1, <4>2 DEF handleConnectionError
    <3>3. CASE ConfirmationExpires(c)
      BY <1>0, <3>3 DEF ConfirmationExpires, Process
    <3>4. QED
      BY <1>3, <3>1, <3>2, <3>3 DEF ConnectionStep
  <2>2. QED
    BY <1>3, <1>a, <2>1
    DEF ConnectionStep, ReadError, handleConnectionError, ConfirmationExpires
<1>4. ASSUME NEW c \in Ctrl, NegotiationStep(c)
      PROVE  RoleInv'
  <2>1. \A d \in Ctrl : cops'[d].mode = cops[d].mode
    BY <1>0, <1>4, SendIsCalm
       DEF NegotiationStep, WaitConnected, WaitDeadline, checkControllerMode
  <2>2. /\ up' = up /\ ip' = ip
        /\ pc' = pc \/ \E v \in {"loop", "decided"} : pc' = [pc EXCEPT ![c]["neg"] = v]
    BY <1>4 DEF NegotiationStep, WaitConnected, WaitDeadline, checkControllerMode
  <2>3. QED
    BY <1>0, <1>a, <1>b, <2>1, <2>2
<1>5. ASSUME NEW c \in Ctrl, MessageStep(c)
      PROVE  RoleInv'
  <2>1. \A d \in Ctrl : cops'[d].mode = cops[d].mode
    <3>1. CASE replyToModeQueryMsg(c)
      BY <1>0, <3>1, SendIsCalm DEF replyToModeQueryMsg
    <3>2. CASE processModeCommand(c)
      <4>1. \/ cops' = cops
            \/ cops' = [cops EXCEPT ![c] = [cops[c] EXCEPT !.first = FALSE]]
            \/ cops' = [cops EXCEPT ![c] = [cops[c] EXCEPT !.stale = FALSE]]
        BY <3>2 DEF processModeCommand
      <4>2. CASE cops' = [cops EXCEPT ![c] = [cops[c] EXCEPT !.first = FALSE]]
        BY <1>0, <4>2 DEF Process
      <4>3. CASE cops' = [cops EXCEPT ![c] = [cops[c] EXCEPT !.stale = FALSE]]
        BY <1>0, <4>3 DEF Process
      <4>4. QED
        BY <4>1, <4>2, <4>3
    <3>3. CASE RequestDBIUpdate(c)
      <4> DEFINE p == [cops[c] EXCEPT !.stale = FALSE]
      <4>1. p \in Process /\ p.mode = cops[c].mode /\ p.alarm = cops[c].alarm
        BY <1>0 DEF Process
      <4>2. sendC2CMsg(c, "c2c", GetDBIUpdate, p, chan)
        BY <3>3 DEF RequestDBIUpdate
      <4> HIDE DEF p
      <4>3. QED
        BY <4>1, <4>2, SendIsCalm
    <3>4. CASE getDBIUpdate(c)
      BY <3>4 DEF getDBIUpdate
    <3>5. QED
      BY <1>5, <3>1, <3>2, <3>3, <3>4 DEF MessageStep
  <2>2. /\ up' = up /\ ip' = ip
        /\ pc' = pc \/ \E v \in {"decided", "sleep", "read"} :
                         pc' = [pc EXCEPT ![c]["c2c"] = v]
    BY <1>5 DEF MessageStep, replyToModeQueryMsg, processModeCommand, RequestDBIUpdate,
                getDBIUpdate
  <2>3. QED
    BY <1>0, <1>a, <1>b, <2>1, <2>2
<1>6. ASSUME NEW c \in Ctrl, DbiReply(c) \/ handleUpdateMode(c)
      PROVE  RoleInv'
  <2>1. ASSUME NEW v, NEW p \in Process, p.mode = cops[c].mode, SetUpdateMode(c, v, p)
        PROVE  \A d \in Ctrl : cops'[d].mode = "Secondary" => cops[d].mode = "Secondary"
    BY <1>0, <2>1 DEF SetUpdateMode, Process
  <2>2. [cops[c] EXCEPT !.ask = "none"] \in Process
        /\ [cops[c] EXCEPT !.ask = "none"].mode = cops[c].mode
    BY <1>0 DEF Process, UpdateDoc
  <2>3. \A d \in Ctrl : cops'[d].mode = "Secondary" => cops[d].mode = "Secondary"
    BY <1>0, <1>6, <2>1, <2>2 DEF DbiReply, handleUpdateMode
  <2>4. /\ up' = up /\ ip' = ip
        /\ pc' = pc \/ pc' = [pc EXCEPT ![c]["main"] = "decided"]
    BY <1>6 DEF DbiReply, handleUpdateMode, SetUpdateMode
  <2>5. QED
    BY <1>0, <1>a, <1>b, <2>3, <2>4
<1>7. ASSUME NEW c \in Ctrl, NEW t \in Threads
      PROVE  /\ AfterReturn(c, t).mode = cops[c].mode
             /\ Returned(c, t) \in [Threads -> Points]
             /\ \A u \in Threads : Returned(c, t)[u] \in Taking \ {"decided"}
                                     => pc[c][u] \in Taking \ {"decided"}
  <2>1. AfterReturn(c, t).mode = cops[c].mode
    BY <1>0 DEF AfterReturn, Process
  <2>2. ReturnPoint(t) \notin Taking
    BY DEF ReturnPoint, Threads, Taking
  <2>3. QED
    BY <1>0, <2>1, <2>2, ThreadPoints DEF Returned
<1>8. ASSUME NEW c \in Ctrl, NEW t \in Threads, TakeoverStep(c, t)
      PROVE  RoleInv'
  <2>1. CASE Claim(c, t)
    <3>1. /\ up'[c] /\ cops'[c].mode # "Secondary"
          /\ \A d \in Ctrl \ {c} : /\ up'[d] = up[d] /\ cops'[d] = cops[d]
                                   /\ ip'[d] = ip[d] /\ pc'[d] = pc[d]
      BY <1>0, <2>1 DEF Claim, Process
    <3>2. \A d \in Ctrl \ {c} : Bound(d)' => Bound(d)
      BY <3>1 DEF Bound, HoldsIP, TakingOver
    <3>3. QED
      BY <3>1, <3>2 DEF RoleInv
  <2>2. CASE setupPrimaryIP(c, t) \/ RequestReset(c, t)
    <3>1. /\ Bound(c)
          /\ \A d \in Ctrl \ {c} : ip'[d] = ip[d] /\ pc'[d] = pc[d]
          /\ up' = up /\ cops' = cops
      BY <1>0, <2>2 DEF setupPrimaryIP, ipLinkAdd, ipAddrAdd, RequestReset, Bound, TakingOver, Taking
    <3>2. \A d \in Ctrl : Bound(d)' => Bound(d)
      BY <3>1 DEF Bound, HoldsIP, TakingOver
    <3>3. QED
      BY <3>1, <3>2, RoleKeeps
  <2>3. CASE ResetOther(c, t)
    <3>1. Other(c) \in Ctrl /\ Other(Other(c)) = c
      BY DEF Other, Ctrl
    <3>2. /\ ProcessEnds(Other(c), AfterReturn(c, t), Returned(c, t))
          /\ ip' = [ip EXCEPT ![Other(c)] = "none"]
      BY <2>3 DEF ResetOther, PowerCycled
    <3>3. QED
      BY <3>1, <3>2, <1>7, PowerLossKeepsRole
  <2>4. QED
    BY <1>8, <2>1, <2>2, <2>3 DEF TakeoverStep
<1>9. ASSUME NEW c \in Ctrl, OrphanReset(c)
      PROVE  RoleInv'
  <2>1. Other(c) \in Ctrl /\ Other(Other(c)) = c /\ pc[c] \in [Threads -> Points]
    BY <1>0 DEF Other, Ctrl
  <2>2. QED
    BY <1>9, <2>1, PowerLossKeepsRole DEF OrphanReset
<1>10. ASSUME NEW c \in Ctrl, FaultStep(c)
       PROVE  RoleInv'
  <2>1. CASE PowerFail(c)
    <3>1. pc[Other(c)] \in [Threads -> Points]
      BY <1>0, OtherCtrl
    <3>2. QED
      BY <2>1, <3>1, PowerLossKeepsRole DEF PowerFail, PowerCycled
  <2>2. CASE HealthChange(c)
    BY <2>2, <1>a DEF HealthChange
  <2>3. ~CopsCrash(c)
    BY DEF CopsCrash, Spend
  <2>4. \A t \in Threads : ~ResetRefused(c, t) /\ ~ResetUnanswered(c, t)
    BY DEF ResetRefused, ResetUnanswered, Spend
  <2>5. QED
    BY <1>6, <1>10, <2>1, <2>2, <2>3, <2>4 DEF FaultStep
<1>11. CASE UNCHANGED vars
  BY <1>11, <1>a DEF vars
<1>12. QED
  BY <1>1, <1>2, <1>3, <1>4, <1>5, <1>6, <1>8, <1>9, <1>10, <1>11
     DEF Next, SessionStep

(* As long as COPS processes die only with their machine and the PDU       *)
(* confirms every reset, no Secondary ever answers at the primary IP.      *)
THEOREM RoleTheorem ==
  ASSUME FaultKinds \cap {"crash", "pdu"} = {}
  PROVE  Spec => []AddressHasRole
<1>1. Init => RoleInv
  BY DEF Init, RoleInv, Bound, HoldsIP, TakingOver, NewThreads, Threads, Taking
<1>2. TypeOK /\ RoleInv /\ [Next]_vars => RoleInv'
  BY RoleStep
<1>3. RoleInv => AddressHasRole
  BY DEF RoleInv, AddressHasRole, Bound
<1>4. QED
  BY <1>1, <1>2, <1>3, TypeCorrect, PTL DEF Spec
-----------------------------------------------------------------------------
(* The TCP session.  A step leaves it alone when it starts and ends no     *)
(* process, moves no session and assigns neither connected nor connector.  *)
SameSession ==
  /\ up' = up /\ link' = link
  /\ \A d \in Ctrl : /\ cops'[d].connected = cops[d].connected
                     /\ cops'[d].connector = cops[d].connector

(* Such a step keeps SessionAgreement.                                     *)
LEMMA SameSessionKeeps ==
  ASSUME SessionAgreement, SameSession
  PROVE  SessionAgreement'
BY DEF SessionAgreement, SameSession, Ctrl

(* What SessionAgreement says of one process, whether there is a session   *)
(* or not.                                                                 *)
Connecting(c) ==
  /\ cops[c].connected => cops[c].connector = "none"
  /\ up[c] => cops[c].connected \/ cops[c].connector # "none"

(* Without a session it says nothing else.                                 *)
LEMMA NoSessionKeeps ==
  ASSUME link' = "none", \A d \in Ctrl : Connecting(d)'
  PROVE  SessionAgreement'
BY DEF SessionAgreement, Connecting

(* A process that ends takes its session along; its peer notices nothing.  *)
LEMMA ProcessEndsKeepsSession ==
  ASSUME TypeOK, SessionAgreement, NEW c \in Ctrl, NEW peer, NEW at,
         peer.connected = cops[Other(c)].connected,
         peer.connector = cops[Other(c)].connector,
         ProcessEnds(c, peer, at)
  PROVE  SessionAgreement'
<1>1. /\ cops'[c] = NewProcess /\ cops'[Other(c)] = peer
      /\ ~up'[c] /\ up'[Other(c)] = up[Other(c)]
      /\ \A d \in Ctrl : d = c \/ d = Other(c)
  BY OtherCtrl DEF ProcessEnds, TypeOK
<1>2. \A d \in Ctrl : Connecting(d)'
  BY <1>1, OtherCtrl DEF SessionAgreement, Connecting, NewProcess
<1>3. QED
  BY <1>2, NoSessionKeeps DEF ProcessEnds

(* Replacing the memory of one process by memory with the same connection  *)
(* state leaves the session alone.                                         *)
LEMMA MemoryKeepsSession ==
  ASSUME TypeOK, SessionAgreement, NEW c \in Ctrl, NEW p \in Process,
         p.connected = cops[c].connected, p.connector = cops[c].connector,
         up' = up, link' = link, cops' = [cops EXCEPT ![c] = p]
  PROVE  SessionAgreement'
<1>1. cops \in [Ctrl -> Process]
  BY DEF TypeOK
<1>2. SameSession
  BY <1>1 DEF SameSession
<1>3. QED
  BY <1>2, SameSessionKeeps

(* A write that reports a dead session makes its thread the connector; the *)
(* session is gone by then.                                                *)
LEMMA SendKeepsSession ==
  ASSUME TypeOK, SessionAgreement, NEW c \in Ctrl, NEW t \in {"neg", "c2c"}, NEW msg,
         NEW p \in Process, NEW ch,
         p.connected = cops[c].connected, p.connector = cops[c].connector,
         sendC2CMsg(c, t, msg, p, ch), up' = up, link' = link
  PROVE  SessionAgreement'
<1> DEFINE q == [p EXCEPT !.connected = FALSE, !.connector = t]
<1>0. cops \in [Ctrl -> Process]
  BY DEF TypeOK
<1>1. CASE cops' = [cops EXCEPT ![c] = p]
  BY <1>1, MemoryKeepsSession
<1>2. CASE link = "none" /\ cops' = [cops EXCEPT ![c] = q]
  <2>1. ~q.connected /\ q.connector # "none"
    BY DEF Process
  <2> HIDE DEF q
  <2>2. \A d \in Ctrl : Connecting(d)'
    BY <1>0, <1>2, <2>1 DEF SessionAgreement, Connecting
  <2>3. QED
    BY <1>2, <2>2, NoSessionKeeps
<1>3. QED
  BY <1>1, <1>2 DEF sendC2CMsg

(* Every step keeps SessionAgreement.  Accept is why the first conjunct is *)
(* needed: a client that is dialling has no session of its own.            *)
LEMMA SessionStepKeeps ==
  ASSUME TypeOK, SessionAgreement, [Next]_vars
  PROVE  SessionAgreement'
<1>0. /\ cops \in [Ctrl -> Process] /\ up \in [Ctrl -> BOOLEAN]
      /\ "server" \in Ctrl /\ "client" \in Ctrl
      /\ \A c \in Ctrl : cops[c] \in Process
      /\ \A c \in Ctrl : cops[Other(c)] \in Process
  BY OtherCtrl DEF TypeOK, Ctrl
<1>a. ASSUME NEW c \in Ctrl
      PROVE  /\ setConnection(cops[c]).connected
             /\ setConnection(cops[c]).connector = "none"
  BY <1>0 DEF setConnection, Process
<1>1. CASE Accept
  <2>1. /\ link' = "half" /\ up' = up
        /\ cops'["server"] = setConnection(cops["server"])
        /\ cops'["client"] = cops["client"]
    BY <1>0, <1>1 DEF Accept, Ctrl
  <2>2. up["server"] /\ up["client"] /\ cops["client"].connector # "none"
    BY <1>0, <1>1 DEF Accept
  <2>3. QED
    BY <1>a, <1>0, <2>1, <2>2 DEF SessionAgreement, Ctrl
<1>2. CASE Dialed
  <2>1. /\ link = "half" /\ link' = "open" /\ up' = up
        /\ cops'["client"] = setConnection(cops["client"])
        /\ cops'["server"] = cops["server"]
    BY <1>0, <1>2 DEF Dialed, Ctrl
  <2>2. QED
    BY <1>a, <1>0, <2>1 DEF SessionAgreement, Ctrl
<1>3. CASE LinkFail
  BY <1>3, NoSessionKeeps DEF LinkFail, SessionAgreement, Connecting
<1>4. ASSUME NEW c \in Ctrl, Boot(c)
      PROVE  SessionAgreement'
  <2>1. link' = "none"
    BY <1>4 DEF Boot, SessionAgreement, Ctrl, TypeOK
  <2>2. ~Start(c).connected /\ Start(c).connector # "none"
    BY DEF Start, NewProcess
  <2>3. \A d \in Ctrl : Connecting(d)'
    BY <1>0, <1>4, <2>2 DEF Boot, SessionAgreement, Connecting
  <2>4. QED
    BY <2>1, <2>3, NoSessionKeeps
<1>5. ASSUME NEW c \in Ctrl, ConnectionStep(c)
      PROVE  SessionAgreement'
  <2>1. CASE ReadError(c)
    <3>1. SameSession
      BY <1>0, <2>1 DEF ReadError, SameSession, Process
    <3>2. QED
      BY <3>1, SameSessionKeeps
  <2>2. CASE handleConnectionError(c)
    <3>1. CASE cops' = [cops EXCEPT ![c].errs = @ - 1] /\ link' = link
      <4>1. SameSession
        BY <1>0, <2>2, <3>1 DEF handleConnectionError, SameSession, Process
      <4>2. QED
        BY <4>1, SameSessionKeeps
    <3>2. CASE /\ cops' = [cops EXCEPT ![c].errs = @ - 1, ![c].connected = FALSE,
                                       ![c].connector = "goroutine"]
               /\ link' = "none"
      <4>1. \A d \in Ctrl : Connecting(d)'
        BY <1>0, <2>2, <3>2 DEF handleConnectionError, SessionAgreement, Connecting, Process
      <4>2. QED
        BY <3>2, <4>1, NoSessionKeeps
    <3>3. QED
      BY <2>2, <3>1, <3>2 DEF handleConnectionError
  <2>3. CASE ConfirmationExpires(c)
    <3>1. SameSession
      BY <1>0, <2>3 DEF ConfirmationExpires, SameSession, Process
    <3>2. QED
      BY <3>1, SameSessionKeeps
  <2>4. QED
    BY <1>5, <2>1, <2>2, <2>3 DEF ConnectionStep
<1>6. ASSUME NEW c \in Ctrl, NegotiationStep(c)
      PROVE  SessionAgreement'
  <2>1. CASE cops' = cops
    <3>1. SameSession
      BY <1>6, <2>1 DEF NegotiationStep, WaitConnected, WaitDeadline,
                        checkControllerMode, SameSession
    <3>2. QED
      BY <3>1, SameSessionKeeps
  <2>2. CASE cops' # cops
    BY <1>0, <1>6, <2>2, SendKeepsSession
       DEF NegotiationStep, WaitConnected, WaitDeadline, checkControllerMode
  <2>3. QED
    BY <2>1, <2>2
<1>7. ASSUME NEW c \in Ctrl, MessageStep(c)
      PROVE  SessionAgreement'
  <2>1. CASE replyToModeQueryMsg(c)
    BY <1>0, <2>1, SendKeepsSession DEF replyToModeQueryMsg
  <2>2. CASE processModeCommand(c)
    <3>1. \/ cops' = cops
          \/ cops' = [cops EXCEPT ![c] = [cops[c] EXCEPT !.first = FALSE]]
          \/ cops' = [cops EXCEPT ![c] = [cops[c] EXCEPT !.stale = FALSE]]
      BY <2>2 DEF processModeCommand
    <3>2. \A d \in Ctrl : /\ cops'[d].connected = cops[d].connected
                          /\ cops'[d].connector = cops[d].connector
      <4>1. CASE cops' = [cops EXCEPT ![c] = [cops[c] EXCEPT !.first = FALSE]]
        BY <1>0, <4>1 DEF Process
      <4>2. CASE cops' = [cops EXCEPT ![c] = [cops[c] EXCEPT !.stale = FALSE]]
        BY <1>0, <4>2 DEF Process
      <4>3. QED
        BY <3>1, <4>1, <4>2
    <3>3. QED
      BY <2>2, <3>2, SameSessionKeeps DEF processModeCommand, SameSession
  <2>3. CASE RequestDBIUpdate(c)
    <3> DEFINE p == [cops[c] EXCEPT !.stale = FALSE]
    <3>1. /\ p \in Process /\ p.connected = cops[c].connected
          /\ p.connector = cops[c].connector
      BY <1>0 DEF Process
    <3>2. /\ sendC2CMsg(c, "c2c", GetDBIUpdate, p, chan)
          /\ up' = up /\ link' = link
      BY <2>3 DEF RequestDBIUpdate
    <3> HIDE DEF p
    <3>3. QED
      BY <3>1, <3>2, SendKeepsSession
  <2>4. CASE getDBIUpdate(c)
    BY <2>4, SameSessionKeeps DEF getDBIUpdate, SameSession
  <2>5. QED
    BY <1>7, <2>1, <2>2, <2>3, <2>4 DEF MessageStep
<1>8. ASSUME NEW c \in Ctrl, NEW v, NEW p \in Process, SetUpdateMode(c, v, p),
             p.connected = cops[c].connected, p.connector = cops[c].connector,
             up' = up, link' = link
      PROVE  SessionAgreement'
  <2> DEFINE q == [p EXCEPT !.mode = "Update"]
  <2>1. q \in Process /\ q.connected = p.connected /\ q.connector = p.connector
    BY DEF Process, Modes
  <2>2. cops' = [cops EXCEPT ![c] = p] \/ cops' = [cops EXCEPT ![c] = q]
    BY <1>8 DEF SetUpdateMode
  <2> HIDE DEF q
  <2>3. QED
    BY <1>8, <2>1, <2>2, MemoryKeepsSession
<1>9. ASSUME NEW c \in Ctrl, DbiReply(c)
      PROVE  SessionAgreement'
  <2> DEFINE p == [cops[c] EXCEPT !.ask = "none"]
  <2>1. /\ p \in Process /\ p.connected = cops[c].connected
        /\ p.connector = cops[c].connector
    BY <1>0 DEF Process, UpdateDoc
  <2>2. SetUpdateMode(c, cops[c].ask, p) /\ up' = up /\ link' = link
    BY <1>9 DEF DbiReply
  <2> HIDE DEF p
  <2>3. QED
    BY <2>1, <2>2, <1>8
<1>10. ASSUME NEW c \in Ctrl, NEW t \in Threads
       PROVE  LET p == AfterReturn(c, t)
                  q == [p EXCEPT !.alarm = TRUE]
              IN  /\ p \in Process /\ q \in Process
                  /\ p.connected = cops[c].connected /\ p.connector = cops[c].connector
                  /\ q.connected = cops[c].connected /\ q.connector = cops[c].connector
  <2>1. /\ AfterReturn(c, t) \in Process
        /\ AfterReturn(c, t).connected = cops[c].connected
        /\ AfterReturn(c, t).connector = cops[c].connector
    BY <1>0 DEF AfterReturn, Process
  <2>2. QED
    BY <2>1 DEF Process
<1>11. ASSUME NEW c \in Ctrl, NEW t \in Threads, TakeoverStep(c, t)
       PROVE  SessionAgreement'
  <2>1. CASE Claim(c, t)
    <3>1. SameSession
      BY <1>0, <2>1 DEF Claim, SameSession, Process
    <3>2. QED
      BY <3>1, SameSessionKeeps
  <2>2. CASE setupPrimaryIP(c, t) \/ RequestReset(c, t)
    BY <2>2, SameSessionKeeps DEF setupPrimaryIP, ipLinkAdd, ipAddrAdd, RequestReset, SameSession
  <2>3. CASE ResetOther(c, t)
    <3>1. Other(c) \in Ctrl /\ Other(Other(c)) = c
      BY DEF Other, Ctrl
    <3>2. QED
      BY <2>3, <3>1, <1>10, ProcessEndsKeepsSession DEF ResetOther
  <2>4. QED
    BY <1>11, <2>1, <2>2, <2>3 DEF TakeoverStep
<1>12. ASSUME NEW c \in Ctrl, OrphanReset(c)
       PROVE  SessionAgreement'
  <2>1. Other(c) \in Ctrl /\ Other(Other(c)) = c
    BY DEF Other, Ctrl
  <2>2. QED
    BY <1>12, <2>1, ProcessEndsKeepsSession DEF OrphanReset
<1>13. ASSUME NEW c \in Ctrl, FaultStep(c)
       PROVE  SessionAgreement'
  <2>1. CASE CopsCrash(c) \/ PowerFail(c)
    BY <2>1, ProcessEndsKeepsSession DEF CopsCrash, PowerFail
  <2>2. CASE HealthChange(c)
    BY <2>2, SameSessionKeeps DEF HealthChange, SameSession
  <2>3. CASE handleUpdateMode(c)
    BY <1>0, <2>3, <1>8 DEF handleUpdateMode
  <2>4. ASSUME NEW t \in Threads, ResetRefused(c, t)
        PROVE  SessionAgreement'
    BY <2>4, <1>10, MemoryKeepsSession DEF ResetRefused
  <2>5. ASSUME NEW t \in Threads, ResetUnanswered(c, t)
        PROVE  SessionAgreement'
    BY <2>5, <1>10, MemoryKeepsSession, ProcessEndsKeepsSession DEF ResetUnanswered
  <2>6. QED
    BY <1>13, <2>1, <2>2, <2>3, <2>4, <2>5 DEF FaultStep
<1>14. CASE UNCHANGED vars
  BY <1>14, SameSessionKeeps DEF vars, SameSession
<1>15. QED
  BY <1>1, <1>2, <1>3, <1>4, <1>5, <1>6, <1>7, <1>9, <1>11, <1>12, <1>13, <1>14
     DEF Next, SessionStep

(* However processes die, sessions break and late handleConnectionError    *)
(* goroutines run, the two ends never disagree about a session that        *)
(* exists, no process that has one is making another, and every running    *)
(* process without one is (c2c.go:93-125).                                 *)
THEOREM SessionTheorem == Spec => []SessionAgreement
<1>1. Init => SessionAgreement
  BY DEF Init, SessionAgreement, NewProcess, Ctrl
<1>2. QED
  BY <1>1, TypeCorrect, SessionStepKeeps, PTL DEF Spec
=============================================================================
