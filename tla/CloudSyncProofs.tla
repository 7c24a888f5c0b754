--------------------------- MODULE CloudSyncProofs ---------------------------
(***************************************************************************)
(* Proofs about CloudSync: its type invariant; that no file in the source  *)
(* directory is forgotten while the process runs; that a client of any     *)
(* number of servers implements StoreForward as long as copies to the      *)
(* error directory and database writes succeed; and that a client of one   *)
(* server loses no file until the process dies, an event is repeated or a  *)
(* copy fails.                                                             *)
(***************************************************************************)
EXTENDS CloudSync, TLAPS

(* A thread that is not idle has the fields of its record.                 *)
LEMMA BusyTypes ==
  ASSUME TypeOK
  PROVE  /\ snd.at # "idle" => snd \in Sending
         /\ \A s \in Servers : rt[s].at # "idle" => rt[s] \in Retrying
         /\ srt.at # "idle" => srt \in Sorting
         /\ clr # NoPath => clr \in Path
BY DEF TypeOK, SendIdle, RetryIdle, SortIdle, NoPath

(* So are the fault budget and the history of faults after any step.       *)
LEMMA FaultsType ==
  ASSUME TypeOK, Free \/ \E k \in AllFaultKinds : Spend(k)
  PROVE  faults' \in 0..MaxFaults /\ calm' \in BOOLEAN
<1>1. faults' \in 0..MaxFaults
  BY CloudSyncAssumption DEF Free, Spend, TypeOK
<1>2. calm' \in BOOLEAN
  BY DEF Free, Spend, TypeOK
<1>3. QED
  BY <1>1, <1>2

(* What the transfer stage does is well typed.                             *)
LEMMA TransfersType ==
  ASSUME TypeOK, NEW s \in Servers, NEW f \in Files, NEW x \in Content,
         NEW r \in Results, handleTransferRequest(s, f, x, r)
  PROVE  /\ dst' \in [Servers -> [Files -> Content]]
         /\ acked' \in [Servers -> SUBSET Files]
         /\ net' \in [Servers -> BOOLEAN]
         /\ conn' \in [Servers -> [ok : BOOLEAN, fails : Nat]]
         /\ faults' \in 0..MaxFaults /\ calm' \in BOOLEAN
<1> USE CloudSyncAssumption
<1>1. Failed(conn[s]) \in [ok : BOOLEAN, fails : Nat]
  <2>1. conn[s].fails \in Nat
    BY DEF TypeOK
  <2>2. QED
    BY <2>1 DEF Failed
<1>2. conn' = conn \/ conn' = [conn EXCEPT ![s] = Failed(conn[s])]
  BY DEF handleTransferRequest, copy, upload, Arrives
<1>3. conn' \in [Servers -> [ok : BOOLEAN, fails : Nat]]
  BY <1>1, <1>2 DEF TypeOK
<1>4. \/ dst' = dst
      \/ \E y \in Content : dst' = [dst EXCEPT ![s][f] = y]
  BY DEF handleTransferRequest, copy, upload, Arrives, Content, Reads
<1>5. dst' \in [Servers -> [Files -> Content]]
  <2>1. ASSUME NEW y \in Content, dst' = [dst EXCEPT ![s][f] = y]
        PROVE  dst' \in [Servers -> [Files -> Content]]
    <3>1. dst \in [Servers -> [Files -> Content]]
      BY DEF TypeOK
    <3>2. [dst[s] EXCEPT ![f] = y] \in [Files -> Content]
      BY <3>1
    <3>3. dst' = [dst EXCEPT ![s] = [dst[s] EXCEPT ![f] = y]]
      BY <2>1
    <3>4. QED
      BY <3>1, <3>2, <3>3
  <2>2. QED
    BY <1>4, <2>1 DEF TypeOK
<1>6. faults' \in 0..MaxFaults /\ calm' \in BOOLEAN
  <2>1. Free \/ \E k \in AllFaultKinds : Spend(k)
    BY DEF handleTransferRequest, copy, upload, Arrives, AllFaultKinds
  <2>2. QED
    BY <2>1, FaultsType
<1>7. acked' \in [Servers -> SUBSET Files]
  <2>1. acked' = acked \/ acked' = [acked EXCEPT ![s] = acked[s] \cup {f}]
    BY DEF handleTransferRequest, copy, upload, Arrives
  <2>2. acked \in [Servers -> SUBSET Files] /\ acked[s] \cup {f} \in SUBSET Files
    BY DEF TypeOK
  <2>3. QED
    BY <2>1, <2>2
<1>8. QED
  BY <1>3, <1>5, <1>6, <1>7 DEF handleTransferRequest, TypeOK

(* Every action of the send thread keeps the types.                        *)
LEMMA SendType ==
  ASSUME TypeOK, SendStep
  PROVE  TypeOK'
<1> USE CloudSyncAssumption DEF disk, remote
<1>f. ASSUME Free \/ \E k \in AllFaultKinds : Spend(k)
      PROVE  faults' \in 0..MaxFaults /\ calm' \in BOOLEAN
  BY <1>f, FaultsType
<1>1. ASSUME NEW f \in Files, SendTake(f)
      PROVE  TypeOK'
  <2>1. (CHOOSE s \in Servers : TRUE) \in Servers
    OBVIOUS
  <2>2. snd' \in Sending
    BY <1>1, <2>1 DEF SendTake, Sending, SendPoints, Content
  <2>3. sendQ' \in [Files -> Nat]
    BY <1>1 DEF SendTake, TypeOK
  <2>4. QED
    BY <1>1, <2>2, <2>3, <1>f DEF SendTake, TypeOK
<1>2. ASSUME NEW s \in Servers, SendTransfer(s)
      PROVE  TypeOK'
  <2>1. snd \in Sending
    BY <1>2, BusyTypes DEF SendTransfer
  <2>a. \/ snd' = [snd EXCEPT !.todo = snd.todo \ {s}]
        \/ \E b \in BOOLEAN :
             snd' = [snd EXCEPT !.todo = snd.todo \ {s}, !.at = "get",
                                !.serv = s, !.retry = b]
    BY <1>2, <2>1 DEF SendTransfer, Sending
  <2>b. snd.todo \ {s} \in SUBSET Servers
    BY <2>1 DEF Sending
  <2>2. snd' \in Sending
    BY <2>1, <2>a, <2>b DEF Sending, SendPoints
  <2>3. CASE UNCHANGED remote /\ Free
    BY <1>2, <2>2, <2>3, <1>f DEF SendTransfer, TypeOK
  <2>4. CASE \E r \in Results : handleTransferRequest(s, snd.file, src[snd.file], r)
    <3>1. snd.file \in Files /\ src[snd.file] \in Content
      BY <2>1 DEF Sending, TypeOK
    <3>2. /\ dst' \in [Servers -> [Files -> Content]]
          /\ acked' \in [Servers -> SUBSET Files]
          /\ net' \in [Servers -> BOOLEAN]
          /\ conn' \in [Servers -> [ok : BOOLEAN, fails : Nat]]
          /\ faults' \in 0..MaxFaults /\ calm' \in BOOLEAN
      BY <2>4, <3>1, TransfersType
    <3>3. QED
      BY <1>2, <2>2, <3>2 DEF SendTransfer, TypeOK
  <2>5. QED
    BY <1>2, <2>3, <2>4 DEF SendTransfer
<1>3. CASE AddFailureGet
  <2>1. snd \in Sending
    BY <1>3, BusyTypes DEF AddFailureGet
  <2>2. snd' \in Sending
    BY <1>3, <2>1 DEF AddFailureGet, Sending, SendPoints, TypeOK
  <2>3. QED
    BY <1>3, <2>2, <1>f DEF AddFailureGet, TypeOK
<1>4. CASE AddFailureSet
  <2>1. snd \in Sending
    BY <1>4, BusyTypes DEF AddFailureSet, Put
  <2>2. snd' \in Sending
    BY <1>4, <2>1 DEF AddFailureSet, Put, AfterRecording, Sending, SendPoints
  <2>3. db' \in [Files -> SUBSET Servers]
    <3>1. snd.file \in Files /\ (snd.val \cup {snd.serv}) \in SUBSET Servers
      BY <2>1 DEF Sending
    <3>2. db' = db \/ db' = [db EXCEPT ![snd.file] = snd.val \cup {snd.serv}]
      BY <1>4 DEF AddFailureSet, Put
    <3>3. QED
      BY <3>1, <3>2 DEF TypeOK
  <2>4. QED
    BY <1>4, <2>2, <2>3, <1>f DEF AddFailureSet, Put, TypeOK, AllFaultKinds
<1>c. ASSUME snd \in Sending
      PROVE  AfterCopy(snd) \in Sending
  BY <1>c DEF AfterCopy, Sending, SendPoints, Content
<1>5. CASE CopyToError
  <2>1. snd \in Sending
    BY <1>5, BusyTypes DEF CopyToError
  <2>2. snd.file \in Files /\ src[snd.file] \in Content
    BY <2>1 DEF Sending, TypeOK
  <2>3. snd' = AfterCopy(snd)
          \/ snd' = [snd EXCEPT !.at = "fill", !.data = src[snd.file]]
    BY <1>5 DEF CopyToError
  <2>4. snd' \in Sending
    BY <1>c, <2>1, <2>2, <2>3 DEF Sending, SendPoints
  <2>5. err' = err \/ err' = [err EXCEPT ![snd.file] = "open"]
    BY <1>5 DEF CopyToError
  <2>6. err' \in [Files -> Content]
    BY <2>2, <2>5 DEF TypeOK, Content
  <2>7. faults' \in 0..MaxFaults /\ calm' \in BOOLEAN
    BY <1>5, <1>f DEF CopyToError, AllFaultKinds
  <2>8. QED
    BY <1>5, <2>4, <2>6, <2>7 DEF CopyToError, TypeOK
<1>k. CASE FillErrorCopy
  <2>1. snd \in Sending
    BY <1>k, BusyTypes DEF FillErrorCopy
  <2>2. snd' \in Sending
    BY <1>c, <1>k, <2>1 DEF FillErrorCopy
  <2>3. snd.data \in Content /\ snd.file \in Files
    BY <2>1 DEF Sending
  <2>4. PICK x \in Content :
          /\ src' = [f \in Files |-> IF f = snd.file /\ src[f] = "open" THEN x
                                    ELSE src[f]]
          /\ err' = [f \in Files |-> IF f = snd.file /\ err[f] = "open" THEN x
                                    ELSE err[f]]
    BY <1>k, <2>3 DEF FillErrorCopy, Content
  <2>5. src' \in [Files -> Content] /\ err' \in [Files -> Content]
    BY <2>4 DEF TypeOK
  <2>6. sendQ' \in [Files -> Nat]
    BY <1>k, <2>3 DEF FillErrorCopy, TypeOK
  <2>7. faults' \in 0..MaxFaults /\ calm' \in BOOLEAN
    BY <1>k, <1>f DEF FillErrorCopy, AllFaultKinds
  <2>8. QED
    BY <1>k, <2>2, <2>5, <2>6, <2>7 DEF FillErrorCopy, TypeOK
<1>6. CASE QueueRetry
  <2>1. snd \in Sending
    BY <1>6, BusyTypes DEF QueueRetry
  <2>2. snd' \in Sending
    BY <1>6, <2>1 DEF QueueRetry, Sending, SendPoints
  <2>3. retryQ' \in [Servers -> Seq(Files)]
    BY <1>6, <2>1 DEF QueueRetry, Sending, TypeOK
  <2>4. QED
    BY <1>6, <2>2, <2>3, <1>f DEF QueueRetry, TypeOK
<1>7. CASE QueueClear
  <2>1. snd \in Sending
    BY <1>7, BusyTypes DEF QueueClear
  <2>2. clearQ' \in Seq(Path)
    BY <1>7, <2>1 DEF QueueClear, Sending, TypeOK, Path
  <2>3. QED
    BY <1>7, <2>2, <1>f DEF QueueClear, TypeOK
<1>8. QED
  BY <1>1, <1>2, <1>3, <1>4, <1>5, <1>k, <1>6, <1>7 DEF SendStep

(* Every action of a retry thread keeps the types.                         *)
LEMMA RetryType ==
  ASSUME TypeOK, NEW s \in Servers, RetryStep(s)
  PROVE  TypeOK'
<1> USE CloudSyncAssumption DEF disk, remote
<1>f. ASSUME Free \/ \E k \in AllFaultKinds : Spend(k)
      PROVE  faults' \in 0..MaxFaults /\ calm' \in BOOLEAN
  BY <1>f, FaultsType
<1>r. ASSUME NEW t \in Retrying \cup {RetryIdle}, rt' = [rt EXCEPT ![s] = t]
      PROVE  rt' \in [Servers -> Retrying \cup {RetryIdle}]
  BY <1>r DEF TypeOK
<1>i. RetryIdle \in Retrying \cup {RetryIdle}
  OBVIOUS
<1>1. CASE RetryTake(s)
  <2>1. Head(retryQ[s]) \in Files /\ Tail(retryQ[s]) \in Seq(Files)
    BY <1>1 DEF RetryTake, TypeOK
  <2>2. [at |-> "transfer", file |-> Head(retryQ[s]), val |-> {}]
          \in Retrying \cup {RetryIdle}
    BY <2>1 DEF Retrying
  <2>3. rt' \in [Servers -> Retrying \cup {RetryIdle}]
    BY <1>1, <2>2, <1>r DEF RetryTake
  <2>4. retryQ' \in [Servers -> Seq(Files)]
    BY <1>1, <2>1 DEF RetryTake, TypeOK
  <2>5. QED
    BY <1>1, <2>3, <2>4, <1>f DEF RetryTake, TypeOK
<1>2. CASE RetryTransfer(s)
  <2>1. rt[s] \in Retrying /\ rt[s].file \in Files
    BY <1>2, BusyTypes DEF RetryTransfer, Retrying
  <2>2. err[rt[s].file] \in Content
    BY <2>1 DEF TypeOK
  <2>3. PICK r \in Results :
          /\ handleTransferRequest(s, rt[s].file, err[rt[s].file], r)
          /\ rt' = [rt EXCEPT ![s] = AfterRetry(rt[s], r)]
    BY <1>2 DEF RetryTransfer
  <2>4. AfterRetry(rt[s], r) \in Retrying \cup {RetryIdle}
    BY <2>1 DEF AfterRetry, Results, Retrying
  <2>5. rt' \in [Servers -> Retrying \cup {RetryIdle}]
    BY <2>3, <2>4, <1>r
  <2>6. /\ dst' \in [Servers -> [Files -> Content]]
        /\ acked' \in [Servers -> SUBSET Files]
        /\ net' \in [Servers -> BOOLEAN]
        /\ conn' \in [Servers -> [ok : BOOLEAN, fails : Nat]]
        /\ faults' \in 0..MaxFaults /\ calm' \in BOOLEAN
    BY <2>1, <2>2, <2>3, TransfersType
  <2>7. QED
    BY <1>2, <2>5, <2>6 DEF RetryTransfer, TypeOK
<1>3. CASE RetryAgain(s)
  <2>1. rt[s].file \in Files
    BY <1>3, BusyTypes DEF RetryAgain, Retrying
  <2>2. rt' \in [Servers -> Retrying \cup {RetryIdle}]
    BY <1>3, <1>i, <1>r DEF RetryAgain
  <2>3. retryQ' \in [Servers -> Seq(Files)]
    BY <1>3, <2>1 DEF RetryAgain, TypeOK
  <2>4. QED
    BY <1>3, <2>2, <2>3, <1>f DEF RetryAgain, TypeOK
<1>4. CASE RemoveFailureGet(s)
  <2>1. rt[s] \in Retrying /\ rt[s].file \in Files
    BY <1>4, BusyTypes DEF RemoveFailureGet, Retrying
  <2>2. (db[rt[s].file] \ {s}) \in SUBSET Servers
    BY <2>1 DEF TypeOK
  <2>3. \E a \in {"clear", "put"} :
          rt' = [rt EXCEPT ![s] = [rt[s] EXCEPT !.at = a, !.val = db[rt[s].file] \ {s}]]
    BY <1>4 DEF RemoveFailureGet, TypeOK
  <2>4. \A a \in {"clear", "put"} :
          [rt[s] EXCEPT !.at = a, !.val = db[rt[s].file] \ {s}]
            \in Retrying \cup {RetryIdle}
    BY <2>1, <2>2 DEF Retrying
  <2>5. rt' \in [Servers -> Retrying \cup {RetryIdle}]
    BY <2>3, <2>4, <1>r
  <2>6. QED
    BY <1>4, <2>5, <1>f DEF RemoveFailureGet, TypeOK
<1>5. CASE RemoveFailurePut(s)
  <2>1. rt[s] \in Retrying /\ rt[s].file \in Files /\ rt[s].val \in SUBSET Servers
    BY <1>5, BusyTypes DEF RemoveFailurePut, Put, Retrying
  <2>2. db' = db \/ db' = [db EXCEPT ![rt[s].file] = rt[s].val]
    BY <1>5 DEF RemoveFailurePut, Put
  <2>3. db' \in [Files -> SUBSET Servers]
    BY <2>1, <2>2 DEF TypeOK
  <2>4. [rt[s] EXCEPT !.at = "clear"] \in Retrying \cup {RetryIdle}
    BY <2>1 DEF Retrying
  <2>5. \/ rt' = [rt EXCEPT ![s] = [rt[s] EXCEPT !.at = "clear"]]
        \/ rt' = [rt EXCEPT ![s] = RetryIdle]
    BY <1>5 DEF RemoveFailurePut, Put
  <2>6. rt' \in [Servers -> Retrying \cup {RetryIdle}]
    BY <2>4, <2>5, <1>i, <1>r
  <2>7. QED
    BY <1>5, <2>3, <2>6, <1>f DEF RemoveFailurePut, Put, TypeOK, AllFaultKinds
<1>6. CASE RetryClear(s)
  <2>1. rt[s].file \in Files
    BY <1>6, BusyTypes DEF RetryClear, Retrying
  <2>2. rt' \in [Servers -> Retrying \cup {RetryIdle}]
    BY <1>6, <1>i, <1>r DEF RetryClear
  <2>3. clearQ' \in Seq(Path)
    BY <1>6, <2>1 DEF RetryClear, TypeOK, Path
  <2>4. QED
    BY <1>6, <2>2, <2>3, <1>f DEF RetryClear, TypeOK
<1>7. QED
  BY <1>1, <1>2, <1>3, <1>4, <1>5, <1>6 DEF RetryStep

(* The clear thread and sortFailures keep the types.                       *)
LEMMA ClearSortType ==
  ASSUME TypeOK, ClearStep \/ SortStep
  PROVE  TypeOK'
<1> USE CloudSyncAssumption DEF disk, remote
<1>f. ASSUME Free \/ \E k \in AllFaultKinds : Spend(k)
      PROVE  faults' \in 0..MaxFaults /\ calm' \in BOOLEAN
  BY <1>f, FaultsType
<1>1. CASE Clear
  <2>1. Head(clearQ) \in Path /\ Tail(clearQ) \in Seq(Path)
    BY <1>1 DEF Clear, TypeOK
  <2>2. Head(clearQ).file \in Files
    BY <2>1 DEF Path
  <2>3. /\ src' = src \/ src' = [src EXCEPT ![Head(clearQ).file] = "none"]
        /\ err' = err \/ err' = [err EXCEPT ![Head(clearQ).file] = "none"]
        /\ clr' = clr \/ clr' = Head(clearQ)
    BY <1>1 DEF Clear
  <2>a. "none" \in Content /\ src \in [Files -> Content] /\ err \in [Files -> Content]
    BY DEF TypeOK, Content
  <2>4. src' \in [Files -> Content] /\ err' \in [Files -> Content]
    BY <2>2, <2>3, <2>a
  <2>5. clr' \in Path \cup {NoPath} /\ clearQ' \in Seq(Path)
    BY <1>1, <2>1, <2>3 DEF Clear, TypeOK
  <2>6. QED
    BY <1>1, <2>4, <2>5, <1>f DEF Clear, TypeOK, AllFaultKinds
<1>2. CASE ClearAgain
  <2>1. clearQ' \in Seq(Path)
    BY <1>2 DEF ClearAgain, TypeOK
  <2>2. QED
    BY <1>2, <2>1, <1>f DEF ClearAgain, TypeOK
<1>3. ASSUME NEW f \in Files, SortTake(f)
      PROVE  TypeOK'
  <2>1. srt' \in Sorting
    BY <1>3 DEF SortTake, Sorting, TypeOK
  <2>2. QED
    BY <1>3, <2>1, <1>f DEF SortTake, TypeOK
<1>4. CASE SortRename
  <2>1. srt.file \in Files
    BY <1>4, BusyTypes DEF SortRename, Sorting
  <2>2. err[srt.file] \in Content
    BY <2>1 DEF TypeOK
  <2>3. /\ src' = src \/ src' = [src EXCEPT ![srt.file] = err[srt.file]]
        /\ err' = err \/ err' = [err EXCEPT ![srt.file] = "none"]
        /\ sendQ' = sendQ \/ sendQ' = [sendQ EXCEPT ![srt.file] = @ + 1]
    BY <1>4 DEF SortRename
  <2>4. src' \in [Files -> Content] /\ err' \in [Files -> Content]
    BY <2>1, <2>2, <2>3 DEF TypeOK, Content
  <2>5. sendQ' \in [Files -> Nat]
    BY <2>1, <2>3 DEF TypeOK
  <2>6. QED
    BY <1>4, <2>4, <2>5, <1>f DEF SortRename, TypeOK
<1>5. ASSUME NEW s \in Servers, SortPush(s)
      PROVE  TypeOK'
  <2>1. srt \in Sorting
    BY <1>5, BusyTypes DEF SortPush
  <2>2. srt.file \in Files /\ (srt.val \ {s}) \in SUBSET Servers
    BY <2>1 DEF Sorting
  <2>3. srt' = SortIdle \/ srt' = [srt EXCEPT !.val = srt.val \ {s}]
    BY <1>5 DEF SortPush
  <2>4. srt' \in Sorting \cup {SortIdle}
    BY <2>1, <2>2, <2>3 DEF Sorting
  <2>5. retryQ' \in [Servers -> Seq(Files)]
    BY <1>5, <2>2 DEF SortPush, TypeOK
  <2>6. QED
    BY <1>5, <2>4, <2>5, <1>f DEF SortPush, TypeOK
<1>6. QED
  BY <1>1, <1>2, <1>3, <1>4, <1>5 DEF ClearStep, SortStep

(* A process that is not running has no connection.                        *)
LEMMA EmptyConnection ==
  [s \in Servers |-> [ok |-> FALSE, fails |-> 0]]
    \in [Servers -> [ok : BOOLEAN, fails : Nat]]
<1>1. [ok |-> FALSE, fails |-> 0] \in [ok : BOOLEAN, fails : Nat]
  OBVIOUS
<1>2. QED
  BY <1>1

(* So do the writer of the files, the network and the end and the start of *)
(* the process.                                                            *)
LEMMA OtherType ==
  ASSUME TypeOK,
         \/ Crash \/ Restart
         \/ \E f \in Files : NewFile(f) \/ SecondEvent(f)
         \/ \E s \in Servers :
              ConnectionStep(s) \/ NetDown(s) \/ NetUp(s) \/ CrashInTransfer(s)
  PROVE  TypeOK'
<1> USE CloudSyncAssumption DEF disk, remote, threads
<1>f. ASSUME Free \/ \E k \in AllFaultKinds : Spend(k)
      PROVE  faults' \in 0..MaxFaults /\ calm' \in BOOLEAN
  BY <1>f, FaultsType
<1>e. ASSUME Ended
      PROVE  /\ up' \in BOOLEAN /\ sendQ' \in [Files -> Nat]
             /\ snd' \in Sending \cup {SendIdle}
             /\ retryQ' \in [Servers -> Seq(Files)]
             /\ rt' \in [Servers -> Retrying \cup {RetryIdle}]
             /\ clearQ' \in Seq(Path) /\ clr' \in Path \cup {NoPath}
             /\ refill' \subseteq Files
             /\ srt' \in Sorting \cup {SortIdle}
             /\ conn' \in [Servers -> [ok : BOOLEAN, fails : Nat]]
             /\ src' \in [Files -> Content] /\ err' \in [Files -> Content]
  <2>e. src' \in [Files -> Content] /\ err' \in [Files -> Content]
    BY <1>e DEF Ended, Reads, TypeOK, Content
  <2>1. up' \in BOOLEAN
    BY <1>e DEF Ended
  <2>d. clearQ' \in Seq(Path)
    BY <1>e DEF Ended
  <2>a. sendQ' \in [Files -> Nat]
    BY <1>e DEF Ended
  <2>b. retryQ' \in [Servers -> Seq(Files)]
    BY <1>e DEF Ended
  <2>c. rt' \in [Servers -> Retrying \cup {RetryIdle}]
    BY <1>e DEF Ended
  <2>2. conn' \in [Servers -> [ok : BOOLEAN, fails : Nat]]
    BY <1>e, EmptyConnection DEF Ended
  <2>3. QED
    BY <1>e, <2>1, <2>a, <2>b, <2>c, <2>d, <2>e, <2>2 DEF Ended
<1>1. CASE Crash
  BY <1>1, <1>e, <1>f DEF Crash, TypeOK, AllFaultKinds
<1>2. ASSUME NEW s \in Servers, CrashInTransfer(s)
      PROVE  TypeOK'
  <2>1. PICK f \in Files : dst' = [dst EXCEPT ![s] = [dst[s] EXCEPT ![f] = "part"]]
    BY <1>2 DEF CrashInTransfer, InTransfer
  <2>2. [dst[s] EXCEPT ![f] = "part"] \in [Files -> Content]
    BY DEF TypeOK, Content
  <2>3. dst' \in [Servers -> [Files -> Content]]
    BY <2>1, <2>2 DEF TypeOK
  <2>4. QED
    BY <1>2, <2>3, <1>e, <1>f DEF CrashInTransfer, TypeOK, AllFaultKinds
<1>3. CASE Restart
  <2>1. conn' \in [Servers -> [ok : BOOLEAN, fails : Nat]]
    <3>1. \A s \in Servers : (net[s] \/ s \in Local) \in BOOLEAN
      OBVIOUS
    <3>2. \A s \in Servers : [ok |-> net[s] \/ s \in Local, fails |-> 0]
                               \in [ok : BOOLEAN, fails : Nat]
      BY <3>1
    <3>3. QED
      BY <1>3, <3>2 DEF Restart, initConnection
  <2>2. sendQ' \in [Files -> Nat]
    BY <1>3 DEF Restart
  <2>3. refill' \subseteq Files
    BY <1>3 DEF Restart
  <2>4. QED
    BY <1>3, <2>1, <2>2, <2>3, <1>f DEF Restart, TypeOK
<1>4. ASSUME NEW f \in Files, NewFile(f)
      PROVE  TypeOK'
  <2>1. sendQ' = sendQ \/ sendQ' = [sendQ EXCEPT ![f] = sendQ[f] + 1]
    BY <1>4 DEF NewFile
  <2>2. sendQ' \in [Files -> Nat]
    <3>1. sendQ \in [Files -> Nat] /\ sendQ[f] + 1 \in Nat
      BY DEF TypeOK
    <3>2. QED
      BY <2>1, <3>1
  <2>3. src' \in [Files -> Content]
    BY <1>4 DEF NewFile, TypeOK, Content
  <2>4. QED
    BY <1>4, <2>2, <2>3, <1>f DEF NewFile, TypeOK
<1>5. ASSUME NEW f \in Files, SecondEvent(f)
      PROVE  TypeOK'
  <2>1. sendQ' \in [Files -> Nat]
    BY <1>5 DEF SecondEvent, TypeOK
  <2>2. QED
    BY <1>5, <2>1, <1>f DEF SecondEvent, TypeOK, AllFaultKinds
<1>6. ASSUME NEW s \in Servers, ConnectionStep(s) \/ NetDown(s) \/ NetUp(s)
      PROVE  TypeOK'
  <2>1. CASE Reestablish(s)
    BY <2>1, <1>f DEF Reestablish, TypeOK
  <2>2. CASE KeepAliveFails(s)
    <3>1. conn[s] \in [ok : BOOLEAN, fails : Nat]
      BY DEF TypeOK
    <3>2. [conn[s] EXCEPT !.ok = FALSE] \in [ok : BOOLEAN, fails : Nat]
      BY <3>1
    <3>3. conn' = [conn EXCEPT ![s] = [conn[s] EXCEPT !.ok = FALSE]]
      BY <2>2 DEF KeepAliveFails
    <3>4. conn' \in [Servers -> [ok : BOOLEAN, fails : Nat]]
      BY <3>2, <3>3 DEF TypeOK
    <3>5. QED
      BY <2>2, <3>4, <1>f DEF KeepAliveFails, TypeOK
  <2>3. CASE NetDown(s)
    BY <2>3, <1>f DEF NetDown, TypeOK, AllFaultKinds
  <2>4. CASE NetUp(s)
    BY <2>4, <1>f DEF NetUp, TypeOK
  <2>5. QED
    BY <1>6, <2>1, <2>2, <2>3, <2>4 DEF ConnectionStep
<1>7. QED
  BY <1>1, <1>2, <1>3, <1>4, <1>5, <1>6

(* Every step keeps the types.                                             *)
LEMMA NextType ==
  ASSUME TypeOK, [Next]_vars
  PROVE  TypeOK'
<1>1. CASE UNCHANGED vars
  BY <1>1 DEF vars, disk, remote, threads, TypeOK
<1>2. CASE Next
  BY <1>2, SendType, RetryType, ClearSortType, OtherType DEF Next
<1>3. QED
  BY <1>1, <1>2

(* Type correctness of the client's threads, queues and directories, for   *)
(* any number of files, servers and faults (client.go, transfer.go).       *)
THEOREM CloudTypeCorrect == Spec => []TypeOK
<1>1. Init => TypeOK
  <2> SUFFICES ASSUME Init
               PROVE  TypeOK
    OBVIOUS
  <2>1. conn \in [Servers -> [ok : BOOLEAN, fails : Nat]]
    BY EmptyConnection DEF Init
  <2>2. dst \in [Servers -> [Files -> Content]]
    BY DEF Init, Content
  <2>3. net \in [Servers -> BOOLEAN] /\ db \in [Files -> SUBSET Servers]
    BY DEF Init
  <2>4. /\ retryQ \in [Servers -> Seq(Files)] /\ clearQ \in Seq(Path)
        /\ rt \in [Servers -> Retrying \cup {RetryIdle}]
    BY DEF Init
  <2>5. src \in [Files -> Content] /\ err \in [Files -> Content]
    BY DEF Init, Content
  <2>6. /\ sendQ \in [Files -> Nat] /\ faults \in 0..MaxFaults
        /\ calm \in BOOLEAN /\ acked \in [Servers -> SUBSET Files]
    BY CloudSyncAssumption DEF Init
  <2>7. QED
    BY <2>1, <2>2, <2>3, <2>4, <2>5, <2>6 DEF Init, TypeOK
<1>2. TypeOK /\ [Next]_vars => TypeOK'
  BY NextType
<1>3. QED
  BY <1>1, <1>2, PTL DEF Spec
-----------------------------------------------------------------------------
(* No file is dropped.  What the threads rely on about a file, in rising   *)
(* order: a transfer of it succeeded; or a failure is on record; or the    *)
(* copy in the error directory, full or not, is there as well.             *)
Done(f) == \E s \in Servers : f \in acked[s]
Recorded(f) == Done(f) \/ db[f] # {}
Kept(f) == Done(f) \/ (err[f] # "none" /\ db[f] # {})

(* A file that does not exist yet is nowhere.                              *)
FreshInv ==
  /\ \A f \in fresh : src[f] = "none" /\ err[f] = "none" /\ sendQ[f] = 0
  /\ snd.at # "idle" => snd.file \notin fresh

KeptInv == \A f \in Files \ fresh : Kept(f) \/ src[f] # "none"

(* A copy in the error directory was recorded before it was made.          *)
ErrorInv == \A f \in Files : err[f] # "none" => Recorded(f)

(* A path that is to be deleted is not needed any more.                    *)
Erasable(p) ==
  IF p.dir = "src" THEN Kept(p.file) ELSE Done(p.file)
ClearInv ==
  /\ clr # NoPath => Erasable(clr)
  /\ \A i \in DOMAIN clearQ : Erasable(clearQ[i])

(* A retry thread past its transfer was told that it succeeded.            *)
RetryInv ==
  \A s \in Servers : rt[s].at \in {"get", "put", "clear"} => Done(rt[s].file)

(* The send thread records, then copies, then queues.  As long as it made  *)
(* no copy, either no server was tried yet or the first one succeeded.     *)
SendInv ==
  /\ snd.at = "copy" => Recorded(snd.file)
  /\ snd.at = "fill" => Kept(snd.file) /\ snd.data # "none"
  /\ snd.at # "idle" /\ snd.failed => Kept(snd.file)
  /\ snd.at = "next" /\ ~snd.failed => snd.todo = Servers \/ Done(snd.file)
  /\ snd.at = "queue" => snd.failed

(* sortFailures moves a file back only when a transfer of it succeeded.    *)
SortInv ==
  /\ \A f \in refill : Recorded(f)
  /\ srt.at = "rename" => Done(srt.file)

KeepInv ==
  /\ FreshInv /\ KeptInv /\ ErrorInv
  /\ ClearInv /\ RetryInv /\ SendInv /\ SortInv

(* No fault that prevents a copy or loses a record.                        *)
NoDamage == FaultKinds \cap {"copy", "db"} = {}

(* What is known of a file stays true.                                     *)
Grows ==
  \A f \in Files : /\ Done(f) => Done(f)'
                   /\ Recorded(f) => Recorded(f)'
                   /\ Kept(f) => Kept(f)'

(* A step that deletes no copy and leaves the records alone drops nothing. *)
LEMMA GrowsQuietly ==
  ASSUME UNCHANGED <<acked, db>>,
         \A f \in Files : err[f] # "none" => err'[f] # "none"
  PROVE  Grows
BY DEF Grows, Done, Recorded, Kept

(* Each part of the invariant depends on few variables.                    *)
LEMMA Frame ==
  ASSUME TypeOK, KeepInv, Grows
  PROVE  /\ UNCHANGED <<fresh, src, err, sendQ, snd>> => FreshInv'
         /\ UNCHANGED <<fresh, src>> => KeptInv'
         /\ UNCHANGED err => ErrorInv'
         /\ UNCHANGED <<clearQ, clr>> => ClearInv'
         /\ UNCHANGED rt => RetryInv'
         /\ UNCHANGED snd => SendInv'
         /\ UNCHANGED <<refill, srt>> => SortInv'
<1>2. UNCHANGED <<fresh, src, err, sendQ, snd>> => FreshInv'
  BY DEF KeepInv, FreshInv
<1>3. UNCHANGED <<fresh, src>> => KeptInv'
  BY DEF KeepInv, KeptInv, Grows
<1>4. UNCHANGED err => ErrorInv'
  BY DEF KeepInv, ErrorInv, Grows
<1>5. ASSUME NEW p \in Path, Erasable(p)
      PROVE  Erasable(p)'
  BY <1>5 DEF Erasable, Grows, Path
<1>6. UNCHANGED <<clearQ, clr>> => ClearInv'
  <2>1. \A i \in DOMAIN clearQ : clearQ[i] \in Path
    BY DEF TypeOK
  <2>2. clr # NoPath => clr \in Path
    BY DEF TypeOK
  <2>3. QED
    BY <1>5, <2>1, <2>2 DEF KeepInv, ClearInv, Erasable
<1>7. UNCHANGED rt => RetryInv'
  <2>1. \A s \in Servers : rt[s].at # "idle" => rt[s].file \in Files
    BY BusyTypes DEF Retrying
  <2>2. QED
    BY <2>1 DEF KeepInv, RetryInv, Grows
<1>8. UNCHANGED snd => SendInv'
  <2>1. snd.at # "idle" => snd.file \in Files
    BY BusyTypes DEF Sending
  <2>2. QED
    BY <2>1 DEF KeepInv, SendInv, Grows
<1>9. UNCHANGED <<refill, srt>> => SortInv'
  <2>1. srt.at # "idle" => srt.file \in Files
    BY BusyTypes DEF Sorting
  <2>2. refill \subseteq Files
    BY DEF TypeOK
  <2>3. QED
    BY <2>1, <2>2 DEF KeepInv, SortInv, Grows
<1>10. QED
  BY <1>2, <1>3, <1>4, <1>6, <1>7, <1>8, <1>9

(* A transfer drops nothing, and a success is on record.                   *)
LEMMA TransfersGrow ==
  ASSUME TypeOK, UNCHANGED <<db, err>>,
         NEW s \in Servers, NEW f \in Files, NEW r \in Results, NEW x,
         handleTransferRequest(s, f, x, r)
  PROVE  Grows /\ (r = "ok" => Done(f)')
<1>1. \/ acked' = acked /\ r # "ok"
      \/ acked' = [acked EXCEPT ![s] = acked[s] \cup {f}]
  BY DEF handleTransferRequest, copy, upload, Arrives
<1>2. CASE acked' = acked /\ r # "ok"
  BY <1>2, GrowsQuietly
<1>3. CASE acked' = [acked EXCEPT ![s] = acked[s] \cup {f}]
  <2>1. f \in acked'[s] /\ \A t \in Servers : acked[t] \subseteq acked'[t]
    BY <1>3 DEF TypeOK
  <2>2. Done(f)'
    BY <2>1 DEF Done
  <2>3. \A g \in Files : Done(g) => Done(g)'
    BY <2>1 DEF Done
  <2>4. QED
    BY <2>2, <2>3 DEF Grows, Recorded, Kept
<1>4. QED
  BY <1>1, <1>2, <1>3

(* Adding a path to the clear queue needs only that this path is erasable. *)
LEMMA AppendClear ==
  ASSUME TypeOK, KeepInv, Grows, NEW p \in Path, Erasable(p),
         clearQ' = Append(clearQ, p), clr' = clr \/ clr' = NoPath
  PROVE  ClearInv'
<1>1. ASSUME NEW q \in Path, Erasable(q)
      PROVE  Erasable(q)'
  BY <1>1 DEF Erasable, Grows, Path
<1>2. \A i \in DOMAIN clearQ' : clearQ'[i] \in Path /\ Erasable(clearQ'[i])
  BY DEF TypeOK, KeepInv, ClearInv
<1>3. clr' # NoPath => clr' \in Path /\ Erasable(clr')
  BY DEF TypeOK, KeepInv, ClearInv
<1>4. QED
  BY <1>1, <1>2, <1>3 DEF ClearInv, Erasable, Done, Kept

(* The send thread keeps every file.                                       *)
LEMMA SendKeeps ==
  ASSUME TypeOK, KeepInv, NoDamage, SendStep
  PROVE  KeepInv'
<1> USE DEF disk, remote
<1>1. ASSUME NEW f \in Files, SendTake(f)
      PROVE  KeepInv'
  <2>1. Grows
    BY <1>1, GrowsQuietly DEF SendTake
  <2>2. /\ snd'.at = "next" /\ snd'.file = f
        /\ snd'.todo = Servers /\ ~snd'.failed
    BY <1>1 DEF SendTake
  <2>3. FreshInv'
    <3>1. f \notin fresh
      BY <1>1 DEF SendTake, KeepInv, FreshInv
    <3>2. \A g \in fresh : g \in Files /\ g # f /\ sendQ'[g] = sendQ[g]
      BY <1>1, <3>1 DEF SendTake, TypeOK
    <3>3. QED
      BY <1>1, <2>2, <3>1, <3>2 DEF SendTake, KeepInv, FreshInv
  <2>4. SendInv'
    BY <2>2, CloudSyncAssumption DEF SendInv
  <2>5. QED
    BY <1>1, <2>1, <2>3, <2>4, Frame DEF SendTake, KeepInv
<1>2. ASSUME NEW s \in Servers, SendTransfer(s)
      PROVE  KeepInv'
  <2>1. snd \in Sending /\ snd.file \in Files
    BY <1>2, BusyTypes DEF SendTransfer, Sending
  <2>2. PICK f \in Files : f = snd.file
    BY <2>1
  <2>3. snd.at = "next" /\ (snd.failed => Kept(f))
    BY <1>2, <2>2 DEF SendTransfer, KeepInv, SendInv
  <2> DEFINE Outcome == /\ Grows
                        /\ snd'.file = f /\ snd'.failed = snd.failed
                        /\ \/ snd'.at = "get"
                           \/ snd'.at = "next" /\ Done(f)'
  <2>5. Outcome
    <3>1. ASSUME NEW r \in Results, handleTransferRequest(s, f, src[f], r),
                 snd' = IF r = "ok" THEN [snd EXCEPT !.todo = @ \ {s}]
                        ELSE [[snd EXCEPT !.todo = @ \ {s}] EXCEPT !.at = "get",
                                !.serv = s, !.retry = (r = "retryable")]
          PROVE  Outcome
      <4>0. UNCHANGED <<db, err>>
        BY <1>2 DEF SendTransfer
      <4>1. Grows /\ (r = "ok" => Done(f)')
        BY <3>1, <4>0, TransfersGrow
      <4>2. /\ snd'.file = f /\ snd'.failed = snd.failed
            /\ snd'.at = IF r = "ok" THEN "next" ELSE "get"
        BY <1>2, <2>1, <2>2, <2>3, <3>1 DEF SendTransfer, Sending
      <4>3. QED
        BY <4>1, <4>2
    <3>2. ASSUME UNCHANGED remote,
                 snd' = [[snd EXCEPT !.todo = @ \ {s}] EXCEPT !.at = "get",
                           !.serv = s, !.retry = TRUE]
          PROVE  Outcome
      <4>1. Grows
        BY <1>2, <3>2, GrowsQuietly DEF SendTransfer
      <4>2. /\ snd'.file = f /\ snd'.failed = snd.failed
            /\ snd'.at = "get"
        BY <2>1, <2>2, <2>3, <3>2 DEF Sending
      <4>3. QED
        BY <4>1, <4>2
    <3>3. QED
      BY <1>2, <2>2, <3>1, <3>2 DEF SendTransfer
  <2>6. FreshInv'
    BY <1>2, <2>2, <2>5 DEF SendTransfer, KeepInv, FreshInv
  <2>7. SendInv'
    <3>1. snd'.failed => Kept(f)'
      BY <2>3, <2>5 DEF Grows
    <3>2. QED
      BY <2>5, <3>1 DEF SendInv, Kept, Done
  <2>8. QED
    BY <1>2, <2>5, <2>6, <2>7, Frame DEF SendTransfer, KeepInv
<1>3. CASE AddFailureGet
  <2>1. Grows
    BY <1>3, GrowsQuietly DEF AddFailureGet
  <2>2. snd \in Sending
    BY <1>3, BusyTypes DEF AddFailureGet
  <2>3. /\ snd'.at = "set" /\ snd'.file = snd.file
        /\ snd'.todo = snd.todo /\ snd'.failed = snd.failed
    BY <1>3, <2>2 DEF AddFailureGet, Sending
  <2>4. FreshInv'
    BY <1>3, <2>3 DEF AddFailureGet, KeepInv, FreshInv
  <2>5. SendInv'
    <3>1. snd.failed => Kept(snd.file)'
      BY <1>3, <2>1, <2>2 DEF AddFailureGet, KeepInv, SendInv, Grows, Sending
    <3>2. QED
      BY <2>3, <3>1 DEF SendInv, Kept, Done
  <2>6. QED
    BY <1>3, <2>1, <2>4, <2>5, Frame DEF AddFailureGet, KeepInv
<1>4. CASE AddFailureSet
  <2>1. snd \in Sending
    BY <1>4, BusyTypes DEF AddFailureSet, Put
  <2>2. PICK f \in Files : f = snd.file
    BY <2>1 DEF Sending
  <2>3. PICK v : v = snd.val \cup {snd.serv} /\ v # {}
    OBVIOUS
  <2>4. db' = [db EXCEPT ![f] = v]
    BY <1>4, <2>2, <2>3 DEF AddFailureSet, Put, Spend, NoDamage
  <2>5. \A g \in Files : db'[g] = IF g = f THEN v ELSE db[g]
    BY <2>4 DEF TypeOK
  <2>6. Grows
    BY <1>4, <2>3, <2>5 DEF AddFailureSet, Put, Grows, Done, Recorded, Kept
  <2>7. /\ snd'.file = f /\ snd'.failed = snd.failed
        /\ snd'.at = "copy" \/ (snd'.at \in {"queue", "next"} /\ snd.failed)
    BY <1>4, <2>1, <2>2 DEF AddFailureSet, Put, AfterRecording, Sending
  <2>k. snd.failed => Kept(f)'
    BY <1>4, <2>2, <2>6 DEF AddFailureSet, KeepInv, SendInv, Grows
  <2>8. FreshInv'
    BY <1>4, <2>2, <2>7 DEF AddFailureSet, Put, KeepInv, FreshInv
  <2>9. SendInv'
    BY <2>3, <2>5, <2>7, <2>k DEF SendInv, Recorded, Kept, Done
  <2>10. QED
    BY <1>4, <2>6, <2>8, <2>9, Frame DEF AddFailureSet, Put, KeepInv
<1>5. CASE CopyToError
  <2>1. snd \in Sending
    BY <1>5, BusyTypes DEF CopyToError
  <2>2. PICK f \in Files : f = snd.file
    BY <2>1 DEF Sending
  <2>3. \A g \in Files :
          err'[g] = IF g = f /\ src[f] # "none" THEN "open" ELSE err[g]
    BY <1>5, <2>2 DEF CopyToError, Spend, NoDamage, TypeOK
  <2>4. Recorded(f) /\ f \notin fresh
    BY <1>5, <2>2 DEF CopyToError, KeepInv, SendInv, FreshInv
  <2>5. Grows
    BY <1>5, <2>3, GrowsQuietly DEF CopyToError
  <2>6. Kept(f)'
    <3>1. CASE src[f] = "none"
      BY <2>4, <2>5, <3>1 DEF KeepInv, KeptInv, Grows
    <3>2. CASE src[f] # "none"
      BY <1>5, <2>3, <2>4, <3>2 DEF CopyToError, Recorded, Kept, Done
    <3>3. QED
      BY <3>1, <3>2
  <2>7. /\ snd'.at \in {"queue", "next", "fill"} /\ snd'.file = f
        /\ IF snd'.at = "fill" THEN snd'.data # "none" /\ snd'.failed = snd.failed
           ELSE snd'.failed
    BY <1>5, <2>1, <2>2 DEF CopyToError, AfterCopy, Sending
  <2>8. FreshInv'
    <3>1. \A g \in fresh : g \in Files /\ g # f
      BY <2>4 DEF TypeOK
    <3>2. QED
      BY <1>5, <2>3, <2>4, <2>7, <3>1 DEF CopyToError, KeepInv, FreshInv
  <2>9. ErrorInv'
    BY <1>5, <2>3, <2>4, <2>5 DEF KeepInv, ErrorInv, Grows
  <2>10. SendInv'
    BY <2>6, <2>7 DEF SendInv, Kept, Done
  <2>11. QED
    BY <1>5, <2>5, <2>8, <2>9, <2>10, Frame DEF CopyToError, KeepInv
<1>k. CASE FillErrorCopy
  <2>1. snd \in Sending
    BY <1>k, BusyTypes DEF FillErrorCopy
  <2>2. PICK f \in Files : f = snd.file
    BY <2>1 DEF Sending
  <2>3. Kept(f) /\ f \notin fresh
    BY <1>k, <2>2 DEF FillErrorCopy, KeepInv, SendInv, FreshInv
  <2>4. snd.data # "none"
    BY <1>k DEF FillErrorCopy, KeepInv, SendInv
  <2>5. \A g \in Files : /\ src'[g] = "none" <=> src[g] = "none"
                         /\ err'[g] = "none" <=> err[g] = "none"
    BY <1>k, <2>4 DEF FillErrorCopy
  <2>6. Grows
    BY <1>k, <2>5, GrowsQuietly DEF FillErrorCopy
  <2>7. snd'.at \in {"queue", "next"} /\ snd'.file = f /\ snd'.failed
    BY <1>k, <2>1, <2>2 DEF FillErrorCopy, AfterCopy, Sending
  <2>8. FreshInv'
    <3>1. \A g \in fresh : g \in Files /\ g # f
      BY <2>3 DEF TypeOK
    <3>2. \A g \in fresh : sendQ'[g] = sendQ[g]
      BY <1>k, <2>2, <3>1 DEF FillErrorCopy, TypeOK
    <3>3. QED
      BY <1>k, <2>3, <2>5, <2>7, <3>1, <3>2 DEF FillErrorCopy, KeepInv, FreshInv
  <2>9. KeptInv'
    BY <1>k, <2>5, <2>6 DEF FillErrorCopy, KeepInv, KeptInv, Grows
  <2>10. ErrorInv'
    BY <2>5, <2>6 DEF KeepInv, ErrorInv, Grows
  <2>11. SendInv'
    <3>1. Kept(f)'
      BY <2>3, <2>6 DEF Grows
    <3>2. QED
      BY <2>7, <3>1 DEF SendInv, Kept, Done
  <2>12. QED
    BY <1>k, <2>6, <2>8, <2>9, <2>10, <2>11, Frame DEF FillErrorCopy, KeepInv
<1>6. CASE QueueRetry
  <2>1. Grows
    BY <1>6, GrowsQuietly DEF QueueRetry
  <2>2. PICK f \in Files : f = snd.file
    BY <1>6, BusyTypes DEF QueueRetry, Sending
  <2>3. snd'.at = "next" /\ snd'.file = f /\ snd'.failed
    <3>1. snd \in Sending
      BY <1>6, BusyTypes DEF QueueRetry
    <3>2. QED
      BY <1>6, <2>2, <3>1 DEF QueueRetry, Sending, KeepInv, SendInv
  <2>4. FreshInv'
    BY <1>6, <2>2, <2>3 DEF QueueRetry, KeepInv, FreshInv
  <2>5. Kept(f)'
    BY <1>6, <2>1, <2>2 DEF QueueRetry, KeepInv, SendInv, Grows
  <2>6. SendInv'
    BY <2>3, <2>5 DEF SendInv, Kept, Done
  <2>7. QED
    BY <1>6, <2>1, <2>4, <2>6, Frame DEF QueueRetry, KeepInv
<1>7. CASE QueueClear
  <2>1. Grows
    BY <1>7, GrowsQuietly DEF QueueClear
  <2>2. snd.file \in Files
    BY <1>7, BusyTypes DEF QueueClear, Sending
  <2>3. /\ [dir |-> "src", file |-> snd.file] \in Path
        /\ Erasable([dir |-> "src", file |-> snd.file])
    BY <1>7, <2>2, CloudSyncAssumption
    DEF QueueClear, Path, Erasable, KeepInv, SendInv, Kept
  <2>4. ClearInv'
    BY <1>7, <2>1, <2>3, AppendClear DEF QueueClear
  <2>5. snd'.at = "idle"
    BY <1>7 DEF QueueClear, SendIdle
  <2>6. FreshInv' /\ SendInv'
    BY <1>7, <2>5 DEF QueueClear, KeepInv, FreshInv, SendInv
  <2>7. QED
    BY <1>7, <2>1, <2>4, <2>6, Frame DEF QueueClear, KeepInv
<1>8. QED
  BY <1>1, <1>2, <1>3, <1>4, <1>5, <1>k, <1>6, <1>7 DEF SendStep

(* A retry thread keeps every file.                                        *)
LEMMA RetryKeeps ==
  ASSUME TypeOK, KeepInv, NoDamage, NEW s \in Servers, RetryStep(s)
  PROVE  KeepInv'
<1> USE DEF disk, remote
<1>0. ASSUME Grows, \A u \in Servers \ {s} : rt'[u] = rt[u],
             (rt[s].at \in {"get", "put", "clear"} => Done(rt[s].file))'
      PROVE  RetryInv'
  <2>1. ASSUME NEW u \in Servers \ {s}, rt[u].at \in {"get", "put", "clear"}
        PROVE  Done(rt[u].file) /\ rt[u].file \in Files
    BY <2>1, BusyTypes DEF KeepInv, RetryInv, Retrying
  <2>2. QED
    BY <1>0, <2>1 DEF RetryInv, Grows, Done
<1>1. ASSUME RetryTake(s) \/ RetryAgain(s)
      PROVE  KeepInv'
  <2>1. Grows
    BY <1>1, GrowsQuietly DEF RetryTake, RetryAgain
  <2>2. rt'[s].at \in {"transfer", "idle"}
    BY <1>1 DEF RetryTake, RetryAgain, RetryIdle, TypeOK
  <2>3. RetryInv'
    BY <1>0, <1>1, <2>1, <2>2 DEF RetryTake, RetryAgain, TypeOK
  <2>4. QED
    BY <1>1, <2>1, <2>3, Frame DEF RetryTake, RetryAgain, KeepInv
<1>2. CASE RetryTransfer(s)
  <2>1. rt[s] \in Retrying /\ rt[s].file \in Files
    BY <1>2, BusyTypes DEF RetryTransfer, Retrying
  <2>2. PICK f \in Files : f = rt[s].file
    BY <2>1
  <2>4. PICK r \in Results :
          /\ handleTransferRequest(s, f, err[f], r)
          /\ rt' = [rt EXCEPT ![s] = AfterRetry(rt[s], r)]
    BY <1>2, <2>2 DEF RetryTransfer
  <2>5. UNCHANGED <<db, err>>
    BY <1>2 DEF RetryTransfer
  <2>6. Grows /\ (r = "ok" => Done(f)')
    BY <2>4, <2>5, TransfersGrow
  <2>7. rt'[s] = AfterRetry(rt[s], r)
    BY <2>4 DEF TypeOK
  <2>8. \/ rt'[s].at \in {"again", "idle"}
        \/ r = "ok" /\ rt'[s].at = "get" /\ rt'[s].file = f
    BY <2>1, <2>2, <2>7 DEF AfterRetry, Results, Retrying, RetryIdle
  <2>9. RetryInv'
    BY <1>0, <2>4, <2>6, <2>8 DEF Done, TypeOK
  <2>10. QED
    BY <1>2, <2>6, <2>9, Frame DEF RetryTransfer, KeepInv
<1>3. CASE RemoveFailureGet(s)
  <2>1. Grows
    BY <1>3, GrowsQuietly DEF RemoveFailureGet
  <2>2. PICK f \in Files : f = rt[s].file
    BY <1>3, BusyTypes DEF RemoveFailureGet, Retrying
  <2>3. Done(f)'
    BY <1>3, <2>1, <2>2 DEF RemoveFailureGet, KeepInv, RetryInv, Grows
  <2>4. rt'[s].file = f
    <3>1. rt[s] \in Retrying
      BY <1>3, BusyTypes DEF RemoveFailureGet
    <3>2. \E a \in {"clear", "put"} :
            rt'[s] = [rt[s] EXCEPT !.at = a, !.val = db[f] \ {s}]
      BY <1>3, <2>2 DEF RemoveFailureGet, TypeOK
    <3>3. QED
      BY <2>2, <3>1, <3>2 DEF Retrying
  <2>5. RetryInv'
    BY <1>0, <1>3, <2>1, <2>3, <2>4 DEF RemoveFailureGet, Done, TypeOK
  <2>6. QED
    BY <1>3, <2>1, <2>5, Frame DEF RemoveFailureGet, KeepInv
<1>4. CASE RemoveFailurePut(s)
  <2>1. PICK f \in Files : f = rt[s].file
    BY <1>4, BusyTypes DEF RemoveFailurePut, Put, Retrying
  <2>2. Done(f)
    BY <1>4, <2>1 DEF RemoveFailurePut, Put, KeepInv, RetryInv
  <2>3. \A g \in Files : g # f => db'[g] = db[g]
    BY <1>4, <2>1 DEF RemoveFailurePut, Put, TypeOK
  <2>4. Grows
    BY <1>4, <2>2, <2>3 DEF RemoveFailurePut, Put, Grows, Done, Recorded, Kept
  <2>5. rt'[s].at = "idle" \/ rt'[s].file = f
    <3>1. rt[s] \in Retrying
      BY <1>4, BusyTypes DEF RemoveFailurePut, Put
    <3>2. rt'[s] = RetryIdle \/ rt'[s] = [rt[s] EXCEPT !.at = "clear"]
      BY <1>4 DEF RemoveFailurePut, Put, TypeOK
    <3>3. QED
      BY <2>1, <3>1, <3>2 DEF Retrying, RetryIdle
  <2>6. Done(f)'
    BY <2>2, <2>4 DEF Grows
  <2>7. RetryInv'
    BY <1>0, <1>4, <2>4, <2>5, <2>6 DEF RemoveFailurePut, Done, TypeOK
  <2>8. QED
    BY <1>4, <2>4, <2>7, Frame DEF RemoveFailurePut, Put, KeepInv
<1>5. CASE RetryClear(s)
  <2>1. Grows
    BY <1>5, GrowsQuietly DEF RetryClear
  <2>2. rt[s].file \in Files
    BY <1>5, BusyTypes DEF RetryClear, Retrying
  <2>3. /\ [dir |-> "error", file |-> rt[s].file] \in Path
        /\ Erasable([dir |-> "error", file |-> rt[s].file])
    BY <1>5, <2>2 DEF RetryClear, Path, Erasable, KeepInv, RetryInv
  <2>4. ClearInv'
    BY <1>5, <2>1, <2>3, AppendClear DEF RetryClear
  <2>5. rt'[s].at = "idle"
    BY <1>5 DEF RetryClear, RetryIdle, TypeOK
  <2>6. RetryInv'
    BY <1>0, <1>5, <2>1, <2>5 DEF RetryClear, TypeOK
  <2>7. QED
    BY <1>5, <2>1, <2>4, <2>6, Frame DEF RetryClear, KeepInv
<1>6. QED
  BY <1>1, <1>2, <1>3, <1>4, <1>5 DEF RetryStep

(* The clear thread deletes only what is not needed.                       *)
LEMMA ClearKeeps ==
  ASSUME TypeOK, KeepInv, ClearStep
  PROVE  KeepInv'
<1> USE DEF disk, remote
<1>1. CASE Clear
  <2>1. PICK p \in Path : p = Head(clearQ)
    BY <1>1 DEF Clear, TypeOK
  <2>2. PICK f \in Files : f = p.file
    BY DEF Path
  <2>3. Erasable(p)
    BY <1>1, <2>1 DEF Clear, TypeOK, KeepInv, ClearInv
  <2>4. /\ \A g \in Files : src'[g] = src[g] \/ (src'[g] = "none" /\ g = f /\ p.dir = "src")
        /\ \A g \in Files : err'[g] = err[g] \/ (err'[g] = "none" /\ g = f /\ p.dir = "error")
    BY <1>1, <2>1, <2>2 DEF Clear, TypeOK
  <2>5. Grows
    <3>1. ASSUME NEW g \in Files, err'[g] # err[g]
          PROVE  Done(g)
      BY <2>2, <2>3, <2>4, <3>1 DEF Erasable
    <3>2. QED
      BY <1>1, <3>1 DEF Clear, Grows, Done, Recorded, Kept
  <2>7. FreshInv'
    <3>1. fresh \subseteq Files
      BY DEF TypeOK
    <3>2. \A g \in fresh : src'[g] = "none" /\ err'[g] = "none"
      BY <2>4, <3>1 DEF KeepInv, FreshInv
    <3>3. QED
      BY <1>1, <3>2 DEF Clear, KeepInv, FreshInv
  <2>8. KeptInv'
    <3>1. ASSUME NEW g \in Files \ fresh
          PROVE  Kept(g)' \/ src'[g] # "none"
      <4>1. CASE src'[g] = src[g]
        BY <2>5, <4>1 DEF KeepInv, KeptInv, Grows
      <4>2. CASE src'[g] # src[g]
        BY <2>2, <2>3, <2>4, <2>5, <4>2 DEF Erasable, Grows
      <4>3. QED
        BY <4>1, <4>2
    <3>2. QED
      BY <1>1, <3>1 DEF Clear, KeptInv
  <2>9. ErrorInv'
    BY <2>4, <2>5 DEF KeepInv, ErrorInv, Grows
  <2>10. ClearInv'
    <3>1. \A q \in Path : Erasable(q) => Erasable(q)'
      BY <2>5 DEF Erasable, Grows, Path
    <3>2. \A i \in DOMAIN clearQ' : clearQ'[i] \in Path /\ Erasable(clearQ'[i])
      BY <1>1 DEF Clear, TypeOK, KeepInv, ClearInv
    <3>3. clr' # NoPath => clr' \in Path /\ Erasable(clr')
      BY <1>1, <2>1, <2>3 DEF Clear
    <3>4. QED
      BY <3>1, <3>2, <3>3 DEF ClearInv, Erasable, Done, Kept
  <2>11. QED
    BY <1>1, <2>5, <2>7, <2>8, <2>9, <2>10, Frame DEF Clear, KeepInv
<1>2. CASE ClearAgain
  <2>1. Grows
    BY <1>2, GrowsQuietly DEF ClearAgain
  <2>2. clr \in Path /\ Erasable(clr)
    BY <1>2 DEF ClearAgain, TypeOK, KeepInv, ClearInv
  <2>3. ClearInv'
    BY <1>2, <2>1, <2>2, AppendClear DEF ClearAgain
  <2>4. QED
    BY <1>2, <2>1, <2>3, Frame DEF ClearAgain, KeepInv
<1>3. QED
  BY <1>1, <1>2 DEF ClearStep

(* sortFailures keeps every file.                                          *)
LEMMA SortKeeps ==
  ASSUME TypeOK, KeepInv, SortStep
  PROVE  KeepInv'
<1> USE DEF disk, remote
<1>1. ASSUME NEW f \in Files, SortTake(f)
      PROVE  KeepInv'
  <2>1. Grows
    BY <1>1, GrowsQuietly DEF SortTake
  <2>2. \A g \in refill : g \in Files /\ Recorded(g)'
    BY <2>1 DEF TypeOK, KeepInv, SortInv, Grows
  <2>3. db[f] = {} => Done(f)'
    BY <1>1, <2>1, CloudSyncAssumption DEF SortTake, KeepInv, SortInv, Recorded, Grows
  <2>4. srt'.file = f /\ (srt'.at = "rename" => db[f] = {})
    BY <1>1 DEF SortTake
  <2>5. SortInv'
    BY <1>1, <2>2, <2>3, <2>4 DEF SortTake, SortInv, Done
  <2>6. QED
    BY <1>1, <2>1, <2>5, Frame DEF SortTake, KeepInv
<1>2. CASE SortRename
  <2>1. PICK f \in Files : f = srt.file
    BY <1>2, BusyTypes DEF SortRename, Sorting
  <2>2. Done(f)
    BY <1>2, <2>1 DEF SortRename, KeepInv, SortInv
  <2>3. \A g \in Files :
          \/ src'[g] = src[g] /\ err'[g] = err[g] /\ sendQ'[g] = sendQ[g]
          \/ g = f /\ err[g] # "none" /\ src'[g] # "none" /\ err'[g] = "none"
    BY <1>2, <2>1 DEF SortRename, TypeOK
  <2>4. Grows
    BY <1>2, <2>2, <2>3 DEF SortRename, Grows, Done, Recorded, Kept
  <2>6. FreshInv'
    <3>1. fresh \subseteq Files
      BY DEF TypeOK
    <3>2. \A g \in fresh : src'[g] = "none" /\ err'[g] = "none" /\ sendQ'[g] = 0
      BY <2>3, <3>1 DEF KeepInv, FreshInv
    <3>3. QED
      BY <1>2, <3>2 DEF SortRename, KeepInv, FreshInv
  <2>7. KeptInv'
    BY <1>2, <2>3, <2>4 DEF SortRename, KeepInv, KeptInv, Grows
  <2>8. ErrorInv'
    BY <2>3, <2>4 DEF KeepInv, ErrorInv, Grows
  <2>9. SortInv'
    <3>1. \A g \in refill : g \in Files /\ Recorded(g)'
      BY <2>4 DEF TypeOK, KeepInv, SortInv, Grows
    <3>2. QED
      BY <1>2, <3>1 DEF SortRename, SortInv, SortIdle
  <2>10. QED
    BY <1>2, <2>4, <2>6, <2>7, <2>8, <2>9, Frame DEF SortRename, KeepInv
<1>3. ASSUME NEW s \in Servers, SortPush(s)
      PROVE  KeepInv'
  <2>1. Grows
    BY <1>3, GrowsQuietly DEF SortPush
  <2>2. \A g \in refill : g \in Files /\ Recorded(g)'
    BY <2>1 DEF TypeOK, KeepInv, SortInv, Grows
  <2>3. srt'.at # "rename"
    <3>1. srt \in Sorting
      BY <1>3, BusyTypes DEF SortPush
    <3>2. srt' = SortIdle \/ srt' = [srt EXCEPT !.val = srt.val \ {s}]
      BY <1>3 DEF SortPush
    <3>3. QED
      BY <1>3, <3>1, <3>2 DEF SortPush, Sorting, SortIdle
  <2>4. SortInv'
    BY <1>3, <2>2, <2>3 DEF SortPush, SortInv
  <2>5. QED
    BY <1>3, <2>1, <2>4, Frame DEF SortPush, KeepInv
<1>4. QED
  BY <1>1, <1>2, <1>3 DEF SortStep

(* So do new files, the network and the end and the start of the process.  *)
LEMMA OtherKeeps ==
  ASSUME TypeOK, KeepInv, NoDamage,
         \/ Crash \/ Restart
         \/ \E f \in Files : NewFile(f) \/ SecondEvent(f)
         \/ \E s \in Servers :
              ConnectionStep(s) \/ NetDown(s) \/ NetUp(s) \/ CrashInTransfer(s)
  PROVE  KeepInv'
<1> USE DEF disk, remote, threads
<1>0. fresh \subseteq Files
  BY DEF TypeOK
<1>1. ASSUME Ended, UNCHANGED <<fresh, db, acked>>
      PROVE  KeepInv'
  <2>1. \A f \in Files : /\ src'[f] = "none" <=> src[f] = "none"
                         /\ err'[f] = "none" <=> err[f] = "none"
    BY <1>1 DEF Ended, Reads
  <2>2. Grows
    BY <1>1, <2>1, GrowsQuietly
  <2>3. /\ snd'.at = "idle" /\ srt'.at = "idle" /\ clr' = NoPath
        /\ DOMAIN clearQ' = {} /\ refill' = {}
        /\ \A s \in Servers : rt'[s].at = "idle"
        /\ \A f \in Files : sendQ'[f] = 0
    BY <1>1 DEF Ended, SendIdle, SortIdle, RetryIdle
  <2>4. FreshInv' /\ SendInv' /\ RetryInv' /\ SortInv' /\ ClearInv'
    BY <1>0, <1>1, <2>1, <2>3
    DEF KeepInv, FreshInv, SendInv, RetryInv, SortInv, ClearInv
  <2>5. KeptInv' /\ ErrorInv'
    BY <1>1, <2>1, <2>2 DEF KeepInv, KeptInv, ErrorInv, Grows
  <2>6. QED
    BY <2>4, <2>5 DEF KeepInv
<1>2. CASE Crash \/ \E s \in Servers : CrashInTransfer(s)
  BY <1>1, <1>2 DEF Crash, CrashInTransfer
<1>3. CASE Restart
  <2>1. Grows
    BY <1>3, GrowsQuietly DEF Restart
  <2>2. \A f \in fresh : sendQ'[f] = 0
    BY <1>0, <1>3 DEF Restart, KeepInv, FreshInv
  <2>3. FreshInv'
    BY <1>3, <2>2 DEF Restart, KeepInv, FreshInv
  <2>4. \A f \in refill' : f \in Files /\ Recorded(f)'
    BY <1>3, <2>1 DEF Restart, KeepInv, ErrorInv, TypeOK, Grows
  <2>5. srt.at # "idle" => srt.file \in Files
    BY BusyTypes DEF Sorting
  <2>6. SortInv'
    BY <1>3, <2>1, <2>4, <2>5 DEF Restart, KeepInv, SortInv, Grows
  <2>7. QED
    BY <1>3, <2>1, <2>3, <2>6, Frame DEF Restart, KeepInv
<1>4. ASSUME NEW f \in Files, NewFile(f)
      PROVE  KeepInv'
  <2>1. Grows
    BY <1>4, GrowsQuietly DEF NewFile
  <2>2. \A g \in Files : src'[g] = IF g = f THEN "whole" ELSE src[g]
    BY <1>4 DEF NewFile, TypeOK
  <2>3. \A g \in Files : g # f => sendQ'[g] = sendQ[g]
    BY <1>4 DEF NewFile, TypeOK
  <2>5. FreshInv'
    BY <1>0, <1>4, <2>2, <2>3 DEF NewFile, KeepInv, FreshInv
  <2>6. KeptInv'
    BY <1>4, <2>1, <2>2 DEF NewFile, KeepInv, KeptInv, Grows
  <2>7. QED
    BY <1>4, <2>1, <2>5, <2>6, Frame DEF NewFile, KeepInv
<1>5. ASSUME NEW f \in Files, SecondEvent(f)
      PROVE  KeepInv'
  <2>1. Grows
    BY <1>5, GrowsQuietly DEF SecondEvent
  <2>2. f \notin fresh
    BY <1>5 DEF SecondEvent, KeepInv, FreshInv
  <2>3. \A g \in fresh : sendQ'[g] = sendQ[g]
    BY <1>0, <1>5, <2>2 DEF SecondEvent, TypeOK
  <2>4. FreshInv'
    BY <1>5, <2>3 DEF SecondEvent, KeepInv, FreshInv
  <2>5. QED
    BY <1>5, <2>1, <2>4, Frame DEF SecondEvent, KeepInv
<1>6. ASSUME NEW s \in Servers, ConnectionStep(s) \/ NetDown(s) \/ NetUp(s)
      PROVE  KeepInv'
  <2>1. UNCHANGED <<disk, acked, threads>>
    BY <1>6 DEF ConnectionStep, Reestablish, KeepAliveFails, NetDown, NetUp
  <2>2. Grows
    BY <2>1, GrowsQuietly
  <2>3. QED
    BY <2>1, <2>2, Frame DEF KeepInv
<1>7. QED
  BY <1>2, <1>3, <1>4, <1>5, <1>6

(* KeepInv is an invariant, for any number of servers.                     *)
LEMMA KeepInvariant ==
  ASSUME NoDamage
  PROVE  Spec => []KeepInv
<1>1. Init => KeepInv
  <2> SUFFICES ASSUME Init
               PROVE  KeepInv
    OBVIOUS
  <2>1. FreshInv /\ KeptInv /\ ErrorInv
    BY DEF Init, FreshInv, KeptInv, ErrorInv, SendIdle
  <2>2. ClearInv /\ RetryInv
    BY DEF Init, ClearInv, RetryInv, RetryIdle
  <2>3. SendInv /\ SortInv
    BY DEF Init, SendInv, SortInv, SendIdle, SortIdle
  <2>4. QED
    BY <2>1, <2>2, <2>3 DEF KeepInv
<1>2. TypeOK /\ KeepInv /\ [Next]_vars => KeepInv'
  <2> SUFFICES ASSUME TypeOK, KeepInv, [Next]_vars
               PROVE  KeepInv'
    OBVIOUS
  <2>1. CASE UNCHANGED vars
    <3>1. Grows
      BY <2>1, GrowsQuietly DEF vars, disk, remote
    <3>2. QED
      BY <2>1, <3>1, Frame DEF vars, disk, remote, threads, KeepInv
  <2>2. CASE Next
    BY <2>2, SendKeeps, RetryKeeps, ClearKeeps, SortKeeps, OtherKeeps DEF Next
  <2>3. QED
    BY <2>1, <2>2
<1>3. QED
  BY <1>1, <1>2, CloudTypeCorrect, PTL DEF Spec

-----------------------------------------------------------------------------
(* The client implements StoreForward.  A step that leaves both            *)
(* directories and the successes alone is none of the store's.             *)
LEMMA StoreUntouched ==
  ASSUME UNCHANGED <<fresh, src, err, acked>>
  PROVE  UNCHANGED Store!vars
BY DEF Store!vars, In

(* Neither is one that only moves, copies or fills a file.                 *)
LEMMA StoreMoves ==
  ASSUME UNCHANGED <<fresh, acked>>,
         \A f \in Files : (src'[f] # "none" \/ err'[f] # "none")
                            <=> (src[f] # "none" \/ err[f] # "none")
  PROVE  UNCHANGED Store!vars
<1>1. (In(src) \cup In(err))' = In(src) \cup In(err)
  BY DEF In
<1>2. QED
  BY <1>1 DEF Store!vars

(* A transfer of a file that one of the directories holds is a delivery,   *)
(* or nothing.                                                             *)
LEMMA StoreDelivers ==
  ASSUME TypeOK, KeepInv, UNCHANGED <<fresh, src, err>>,
         NEW s \in Servers, NEW f \in Files, NEW r \in Results,
         NEW x \in {src[f], err[f]}, handleTransferRequest(s, f, x, r)
  PROVE  Store!Next \/ UNCHANGED Store!vars
<1>1. \/ acked' = acked
      \/ x # "none" /\ acked' = [acked EXCEPT ![s] = acked[s] \cup {f}]
  BY DEF handleTransferRequest, copy, upload, Arrives
<1>2. CASE acked' = acked
  BY <1>2, StoreUntouched
<1>3. CASE x # "none" /\ acked' = [acked EXCEPT ![s] = acked[s] \cup {f}]
  <2>1. f \in Files \ fresh
    BY <1>3 DEF KeepInv, FreshInv
  <2>2. (In(src) \cup In(err))' = In(src) \cup In(err)
    BY DEF In
  <2>3. Store!Deliver(s, f)
    BY <1>3, <2>1, <2>2 DEF Store!Deliver
  <2>4. QED
    BY <2>3 DEF Store!Next
<1>4. QED
  BY <1>1, <1>2, <1>3

(* Deleting a path is discarding the file only when it was the last copy,  *)
(* and then a transfer of it has succeeded.                                *)
LEMMA StoreDiscards ==
  ASSUME TypeOK, KeepInv, Clear
  PROVE  Store!Next \/ UNCHANGED Store!vars
<1>1. PICK p \in Path : p = Head(clearQ)
  BY DEF Clear, TypeOK
<1>2. PICK f \in Files : f = p.file
  BY DEF Path
<1>3. Erasable(p)
  BY <1>1 DEF Clear, TypeOK, KeepInv, ClearInv
<1>4. /\ \A g \in Files : src'[g] = src[g] \/ (src'[g] = "none" /\ g = f /\ p.dir = "src")
      /\ \A g \in Files : err'[g] = err[g] \/ (err'[g] = "none" /\ g = f /\ p.dir = "error")
  BY <1>1, <1>2 DEF Clear, TypeOK
<1>5. UNCHANGED <<fresh, acked>>
  BY DEF Clear, remote
<1> DEFINE Before == src[f] # "none" \/ err[f] # "none"
           After == src'[f] # "none" \/ err'[f] # "none"
<1>6. CASE ~(Before /\ ~After)
  <2>1. \A g \in Files : (src'[g] # "none" \/ err'[g] # "none")
                            <=> (src[g] # "none" \/ err[g] # "none")
    BY <1>4, <1>6
  <2>2. QED
    BY <1>5, <2>1, StoreMoves
<1>7. CASE Before /\ ~After
  <2>1. Done(f)
    BY <1>2, <1>3, <1>4, <1>7 DEF Erasable, Kept
  <2>2. PICK s \in Servers : f \in acked[s]
    BY <2>1 DEF Done
  <2>3. f \in In(src) \cup In(err)
    BY <1>7 DEF In
  <2>4. (In(src) \cup In(err))' = (In(src) \cup In(err)) \ {f}
    BY <1>4, <1>7 DEF In
  <2>5. (Files \ fresh)' = Files \ fresh
    BY <1>5
  <2>7. Store!Discard(f)
    BY <1>5, <2>2, <2>3, <2>4, <2>5 DEF Store!Discard
  <2>8. QED
    BY <2>7 DEF Store!Next
<1>8. QED
  BY <1>6, <1>7

(* A file that appears arrives in the store.                               *)
LEMMA StoreArrives ==
  ASSUME TypeOK, NEW f \in Files, NewFile(f)
  PROVE  Store!Next
<1>1. f \in fresh /\ fresh' = fresh \ {f} /\ UNCHANGED <<err, acked>>
  BY DEF NewFile, remote
<1>2. \A g \in Files : src'[g] = IF g = f THEN "whole" ELSE src[g]
  BY DEF NewFile, TypeOK
<1>3. (Files \ fresh)' = (Files \ fresh) \cup {f} /\ f \notin Files \ fresh
  BY <1>1
<1>4. (In(src) \cup In(err))' = (In(src) \cup In(err)) \cup {f}
  BY <1>1, <1>2 DEF In
<1>6. Store!Arrive(f)
  BY <1>1, <1>3, <1>4 DEF Store!Arrive
<1>7. QED
  BY <1>6 DEF Store!Next

(* Every step of the client is a step of the store or none.                *)
LEMMA StoreStep ==
  ASSUME NoDamage, TypeOK, KeepInv, [Next]_vars
  PROVE  Store!Next \/ UNCHANGED Store!vars
<1> USE DEF disk, remote, threads
<1>1. CASE SendStep
  <2>1. ASSUME NEW s \in Servers, SendTransfer(s)
        PROVE  Store!Next \/ UNCHANGED Store!vars
    <3>1. PICK f \in Files : f = snd.file
      BY <2>1, BusyTypes DEF SendTransfer, Sending
    <3>3. UNCHANGED <<fresh, src, err>>
      BY <2>1 DEF SendTransfer
    <3>4. CASE UNCHANGED acked
      BY <3>3, <3>4, StoreUntouched
    <3>5. ASSUME NEW r \in Results, handleTransferRequest(s, f, src[f], r)
          PROVE  Store!Next \/ UNCHANGED Store!vars
      BY <3>3, <3>5, StoreDelivers
    <3>6. QED
      BY <2>1, <3>1, <3>4, <3>5 DEF SendTransfer
  <2>2. CASE CopyToError
    <3>1. PICK f \in Files : f = snd.file
      BY <2>2, BusyTypes DEF CopyToError, Sending
    <3>2. \A g \in Files : err'[g] = err[g]
                             \/ (g = f /\ src[g] # "none" /\ err'[g] = "open")
      BY <2>2, <3>1 DEF CopyToError, TypeOK
    <3>3. UNCHANGED <<fresh, src, acked>>
      BY <2>2 DEF CopyToError
    <3>4. QED
      BY <3>2, <3>3, StoreMoves
  <2>k. CASE FillErrorCopy
    <3>1. snd.data # "none"
      BY <2>k DEF FillErrorCopy, KeepInv, SendInv
    <3>2. \A g \in Files : /\ src'[g] = "none" <=> src[g] = "none"
                           /\ err'[g] = "none" <=> err[g] = "none"
      BY <2>k, <3>1 DEF FillErrorCopy
    <3>3. UNCHANGED <<fresh, acked>>
      BY <2>k DEF FillErrorCopy
    <3>4. QED
      BY <3>2, <3>3, StoreMoves
  <2>3. ASSUME NEW f \in Files, SendTake(f)
        PROVE  UNCHANGED Store!vars
    BY <2>3, StoreUntouched DEF SendTake
  <2>4. CASE AddFailureGet \/ AddFailureSet \/ QueueRetry \/ QueueClear
    BY <2>4, StoreUntouched DEF AddFailureGet, AddFailureSet, QueueRetry, QueueClear
  <2>5. QED
    BY <1>1, <2>1, <2>2, <2>k, <2>3, <2>4 DEF SendStep
<1>2. ASSUME NEW s \in Servers, RetryStep(s)
      PROVE  Store!Next \/ UNCHANGED Store!vars
  <2>1. CASE RetryTransfer(s)
    <3>1. PICK f \in Files : f = rt[s].file
      BY <2>1, BusyTypes DEF RetryTransfer, Retrying
    <3>3. PICK r \in Results : handleTransferRequest(s, f, err[f], r)
      BY <2>1, <3>1 DEF RetryTransfer
    <3>4. UNCHANGED <<fresh, src, err>>
      BY <2>1 DEF RetryTransfer
    <3>5. QED
      BY <3>3, <3>4, StoreDelivers
  <2>2. CASE ~RetryTransfer(s)
    BY <1>2, <2>2, StoreUntouched
    DEF RetryStep, RetryTake, RetryAgain, RemoveFailureGet, RemoveFailurePut, RetryClear
  <2>3. QED
    BY <2>1, <2>2
<1>3. CASE ClearStep
  BY <1>3, StoreDiscards, StoreUntouched DEF ClearStep, ClearAgain
<1>4. CASE SortStep
  <2>1. CASE SortRename
    <3>1. PICK f \in Files : f = srt.file
      BY <2>1, BusyTypes DEF SortRename, Sorting
    <3>2. \A g \in Files :
            \/ src'[g] = src[g] /\ err'[g] = err[g]
            \/ err[g] # "none" /\ src'[g] # "none"
      BY <2>1, <3>1 DEF SortRename, TypeOK
    <3>3. UNCHANGED <<fresh, acked>>
      BY <2>1 DEF SortRename
    <3>4. QED
      BY <3>2, <3>3, StoreMoves
  <2>2. CASE ~SortRename
    BY <1>4, <2>2, StoreUntouched DEF SortStep, SortTake, SortPush
  <2>3. QED
    BY <2>1, <2>2
<1>5. CASE Restart
  BY <1>5, StoreUntouched DEF Restart
<1>6. CASE Crash \/ \E s \in Servers : CrashInTransfer(s)
  <2>1. \A g \in Files : /\ src'[g] = "none" <=> src[g] = "none"
                         /\ err'[g] = "none" <=> err[g] = "none"
    BY <1>6 DEF Crash, CrashInTransfer, Ended, Reads
  <2>2. UNCHANGED <<fresh, acked>>
    BY <1>6 DEF Crash, CrashInTransfer
  <2>3. QED
    BY <2>1, <2>2, StoreMoves
<1>7. ASSUME NEW f \in Files, NewFile(f) \/ SecondEvent(f)
      PROVE  Store!Next \/ UNCHANGED Store!vars
  BY <1>7, StoreArrives, StoreUntouched DEF SecondEvent
<1>8. ASSUME NEW s \in Servers, ConnectionStep(s) \/ NetDown(s) \/ NetUp(s)
      PROVE  UNCHANGED Store!vars
  BY <1>8, StoreUntouched
  DEF ConnectionStep, Reestablish, KeepAliveFails, NetDown, NetUp
<1>9. CASE UNCHANGED vars
  BY <1>9, StoreUntouched DEF vars
<1>10. QED
  BY <1>1, <1>2, <1>3, <1>4, <1>5, <1>6, <1>7, <1>8, <1>9 DEF Next

(* For any number of servers and files and all faults but failing copies   *)
(* and database writes, process deaths and truncated transfers included:   *)
(* no file leaves both directories before a transfer of it to some server  *)
(* was reported as successful (client.go: send, retry, clear,              *)
(* sortFailures).                                                          *)
THEOREM StoreTheorem ==
  ASSUME NoDamage
  PROVE  Spec => ImplementsStore
<1>1. Init => Store!Init
  BY DEF Init, Store!Init, In
<1>2. TypeOK /\ KeepInv /\ [Next]_vars => [Store!Next]_(Store!vars)
  BY StoreStep
<1>3. QED
  BY <1>1, <1>2, KeepInvariant, CloudTypeCorrect, PTL
  DEF Spec, ImplementsStore, Store!Spec

-----------------------------------------------------------------------------
(* Nothing in the source directory is forgotten while the process runs.    *)
(* SourceInHand is inductive with the types, whatever faults occur: each   *)
(* handover of a file is one step.                                         *)
SourcePath(f) == [dir |-> "src", file |-> f]
InHand(f) ==
  \/ sendQ[f] > 0
  \/ snd.at # "idle" /\ snd.file = f
  \/ Clearing(SourcePath(f))

LEMMA InHandDef ==
  SourceInHand <=> \A f \in Files : up /\ src[f] # "none" => InHand(f)
BY DEF SourceInHand, InHand, SourcePath

(* A thread that goes on with its file, or more waiting files, change      *)
(* nothing.                                                                *)
LEMMA HandsStay ==
  ASSUME TypeOK, NEW f \in Files, InHand(f),
         sendQ'[f] = sendQ[f] \/ sendQ'[f] > 0,
         snd.at # "idle" => snd'.at # "idle" /\ snd'.file = snd.file,
         UNCHANGED <<clearQ, clr>>
  PROVE  InHand(f)'
BY DEF InHand, Clearing, SourcePath

(* A path put into the clear queue joins those that were there.            *)
LEMMA ClearingGrows ==
  ASSUME TypeOK, NEW p \in Path, NEW q \in Path,
         clearQ' = Append(clearQ, p),
         clr' = clr \/ clr = p,
         q = p \/ Clearing(q)
  PROVE  Clearing(q)'
<1>1. clearQ'[Len(clearQ) + 1] = p /\ Len(clearQ') = Len(clearQ) + 1
  BY DEF TypeOK
<1>2. \A i \in 1..Len(clearQ) : clearQ'[i] = clearQ[i]
  BY DEF TypeOK
<1>3. Len(clearQ) \in Nat
  BY DEF TypeOK
<1>4. CASE q = p
  BY <1>1, <1>3, <1>4 DEF Clearing
<1>5. CASE clr = q
  BY <1>1, <1>3, <1>5 DEF Clearing
<1>6. CASE \E i \in 1..Len(clearQ) : clearQ[i] = q
  <2>1. PICK i \in 1..Len(clearQ) : clearQ[i] = q
    BY <1>6
  <2>2. i \in 1..Len(clearQ') /\ clearQ'[i] = q
    BY <1>1, <1>2, <1>3, <2>1
  <2>3. QED
    BY <2>2 DEF Clearing
<1>7. QED
  BY <1>4, <1>5, <1>6 DEF Clearing

(* Of the paths in the clear queue only its head is taken.                 *)
LEMMA ClearingTail ==
  ASSUME TypeOK, NEW q \in Path, clearQ # <<>>, clr = NoPath,
         clearQ' = Tail(clearQ), Clearing(q), q # Head(clearQ)
  PROVE  Clearing(q)'
<1>1. PICK i \in 1..Len(clearQ) : clearQ[i] = q
  BY DEF Clearing, NoPath, Path
<1>2. i # 1
  BY <1>1 DEF TypeOK
<1>3. i - 1 \in 1..Len(clearQ') /\ clearQ'[i - 1] = q
  BY <1>1, <1>2 DEF TypeOK
<1>4. QED
  BY <1>3 DEF Clearing

LEMMA SendKeepsHands ==
  ASSUME TypeOK, SourceInHand, SendStep
  PROVE  SourceInHand'
<1> USE DEF disk, remote
<1> SUFFICES ASSUME NEW f \in Files, up', src'[f] # "none"
             PROVE  InHand(f)'
  BY InHandDef DEF SourceInHand, InHand, SourcePath
<1>0. up /\ InHand(f)
  <2>1. up /\ src[f] # "none"
    BY DEF SendStep, SendTake, SendTransfer, AddFailureGet, AddFailureSet,
           CopyToError, FillErrorCopy, QueueRetry, QueueClear
  <2>2. QED
    BY <2>1, InHandDef
<1>1. ASSUME NEW g \in Files, SendTake(g)
      PROVE  InHand(f)'
  <2>1. snd.at = "idle" /\ snd'.at = "next" /\ snd'.file = g
    BY <1>1 DEF SendTake
  <2>2. CASE f = g
    BY <2>1, <2>2 DEF InHand
  <2>3. CASE f # g
    <3>1. sendQ'[f] = sendQ[f]
      BY <1>1, <2>3 DEF SendTake, TypeOK
    <3>2. QED
      BY <1>0, <1>1, <2>1, <3>1, HandsStay DEF SendTake
  <2>4. QED
    BY <2>2, <2>3
<1>2. CASE QueueClear
  <2>1. snd \in Sending
    BY <1>2, BusyTypes DEF QueueClear
  <2>2. SourcePath(snd.file) \in Path /\ SourcePath(f) \in Path
    BY <2>1 DEF SourcePath, Path, Sending
  <2>3. clearQ' = Append(clearQ, SourcePath(snd.file)) /\ clr' = clr
    BY <1>2 DEF QueueClear, SourcePath
  <2>4. CASE sendQ[f] > 0
    BY <1>2, <2>4 DEF QueueClear, InHand
  <2>5. CASE f = snd.file \/ Clearing(SourcePath(f))
    <3>1. Clearing(SourcePath(f))'
      BY <2>2, <2>3, <2>5, ClearingGrows DEF SourcePath
    <3>2. QED
      BY <3>1 DEF InHand, SourcePath
  <2>6. QED
    BY <1>0, <2>4, <2>5 DEF InHand
<1>3. CASE \/ \E s \in Servers : SendTransfer(s)
           \/ AddFailureGet \/ AddFailureSet \/ CopyToError \/ FillErrorCopy
           \/ QueueRetry
  <2>1. snd.at # "idle" /\ snd \in Sending
    BY <1>3, BusyTypes DEF SendTransfer, AddFailureGet, AddFailureSet,
       CopyToError, FillErrorCopy, QueueRetry
  <2>2. snd'.at # "idle" /\ snd'.file = snd.file
    <3>1. ASSUME NEW s \in Servers, SendTransfer(s)
          PROVE  \/ snd' = [snd EXCEPT !.todo = snd.todo \ {s}]
                 \/ \E b \in BOOLEAN :
                      snd' = [snd EXCEPT !.todo = snd.todo \ {s}, !.at = "get",
                                         !.serv = s, !.retry = b]
      BY <2>1, <3>1 DEF SendTransfer, Sending
    <3>2. CASE \E s \in Servers : SendTransfer(s)
      BY <2>1, <3>1, <3>2 DEF Sending
    <3>3. CASE AddFailureGet \/ AddFailureSet
      BY <2>1, <3>3 DEF AddFailureGet, AddFailureSet, AfterRecording, Sending
    <3>4. CASE CopyToError \/ FillErrorCopy \/ QueueRetry
      BY <2>1, <3>4 DEF CopyToError, FillErrorCopy, AfterCopy, QueueRetry, Sending
    <3>5. QED
      BY <1>3, <3>2, <3>3, <3>4
  <2>3. UNCHANGED <<clearQ, clr>> /\ (sendQ'[f] = sendQ[f] \/ sendQ'[f] > 0)
    <3>1. CASE FillErrorCopy
      <4>1. snd.file \in Files /\ sendQ \in [Files -> Nat]
        BY <2>1 DEF TypeOK, Sending
      <4>2. sendQ' = sendQ \/ sendQ' = [sendQ EXCEPT ![snd.file] = sendQ[snd.file] + 1]
        BY <3>1 DEF FillErrorCopy
      <4>3. QED
        BY <3>1, <4>1, <4>2 DEF FillErrorCopy
    <3>2. CASE ~FillErrorCopy
      BY <1>3, <3>2 DEF SendTransfer, AddFailureGet, AddFailureSet, CopyToError,
         QueueRetry
    <3>3. QED
      BY <3>1, <3>2
  <2>4. QED
    BY <1>0, <2>2, <2>3, HandsStay
<1>4. QED
  BY <1>1, <1>2, <1>3 DEF SendStep

LEMMA ClearKeepsHands ==
  ASSUME TypeOK, SourceInHand, ClearStep
  PROVE  SourceInHand'
<1> USE DEF disk, remote
<1> SUFFICES ASSUME NEW f \in Files, up', src'[f] # "none"
             PROVE  InHand(f)'
  BY InHandDef DEF SourceInHand, InHand, SourcePath
<1>p. SourcePath(f) \in Path
  BY DEF SourcePath, Path
<1>q. InHand(f) /\ UNCHANGED <<sendQ, snd>>
  <2>1. up /\ src[f] # "none" /\ UNCHANGED <<sendQ, snd>>
    BY DEF ClearStep, Clear, ClearAgain, TypeOK
  <2>2. QED
    BY <2>1, InHandDef
<1>1. CASE ~Clearing(SourcePath(f))
  BY <1>1, <1>q DEF InHand
<1>2. CASE Clearing(SourcePath(f)) /\ Clear
  <2>1. Clearing(SourcePath(f))'
    <3>1. CASE SourcePath(f) = Head(clearQ)
      <4>1. src'[f] = "none" \/ clr' = SourcePath(f)
        BY <1>2, <3>1 DEF Clear, SourcePath, TypeOK
      <4>2. QED
        BY <4>1 DEF Clearing, SourcePath
    <3>2. CASE SourcePath(f) # Head(clearQ)
      BY <1>2, <1>p, <3>2, ClearingTail DEF Clear, SourcePath
    <3>3. QED
      BY <3>1, <3>2
  <2>2. QED
    BY <2>1 DEF InHand, SourcePath
<1>3. CASE Clearing(SourcePath(f)) /\ ClearAgain
  <2>1. clr \in Path
    BY <1>3 DEF ClearAgain, TypeOK
  <2>2. Clearing(SourcePath(f))'
    BY <1>3, <1>p, <2>1, ClearingGrows DEF ClearAgain, SourcePath
  <2>3. QED
    BY <2>2 DEF InHand, SourcePath
<1>4. QED
  BY <1>1, <1>2, <1>3 DEF ClearStep

(* The other threads and the environment: a step puts more files into the  *)
(* buffer, ends or starts the process, or touches no source file.          *)
LEMMA OthersKeepHands ==
  ASSUME TypeOK, SourceInHand,
         \/ SortStep \/ Crash \/ Restart
         \/ \E f \in Files : NewFile(f) \/ SecondEvent(f)
         \/ \E s \in Servers :
              \/ RetryStep(s) \/ ConnectionStep(s) \/ NetDown(s) \/ NetUp(s)
              \/ CrashInTransfer(s)
  PROVE  SourceInHand'
<1> USE DEF disk, remote, threads
<1> SUFFICES ASSUME NEW f \in Files, up', src'[f] # "none"
             PROVE  InHand(f)'
  BY InHandDef DEF SourceInHand, InHand, SourcePath
<1>s. ASSUME up, sendQ'[f] > 0 \/ (src[f] # "none" /\ sendQ'[f] = sendQ[f]),
             UNCHANGED <<snd, clearQ, clr>>
      PROVE  InHand(f)'
  <2>1. CASE sendQ'[f] > 0
    BY <2>1 DEF InHand
  <2>2. CASE src[f] # "none" /\ sendQ'[f] = sendQ[f]
    <3>1. InHand(f)
      BY <1>s, <2>2, InHandDef
    <3>2. QED
      BY <1>s, <2>2, <3>1, HandsStay
  <2>3. QED
    BY <1>s, <2>1, <2>2
<1>1. CASE SortStep
  <2>1. up /\ UNCHANGED <<snd, clearQ, clr>>
    BY <1>1 DEF SortStep, SortTake, SortRename, SortPush
  <2>2. sendQ'[f] > 0 \/ (src'[f] = src[f] /\ sendQ'[f] = sendQ[f])
    <3>1. CASE SortRename
      <4>1. srt \in Sorting
        BY <3>1, BusyTypes DEF SortRename
      <4>2. srt.file \in Files
        BY <4>1 DEF Sorting
      <4>3. sendQ[srt.file] \in Nat
        BY <4>2 DEF TypeOK
      <4>4. QED
        BY <3>1, <4>2, <4>3 DEF SortRename, TypeOK
    <3>2. QED
      BY <1>1, <3>1 DEF SortStep, SortTake, SortPush
  <2>3. sendQ'[f] > 0 \/ (src[f] # "none" /\ sendQ'[f] = sendQ[f])
    BY <2>2
  <2>4. QED
    BY <2>1, <2>3, <1>s
<1>2. CASE Crash \/ \E s \in Servers : CrashInTransfer(s)
  BY <1>2 DEF Crash, CrashInTransfer, Ended
<1>3. CASE Restart
  BY <1>3 DEF Restart, InHand
<1>4. ASSUME NEW g \in Files, NewFile(g) \/ SecondEvent(g)
      PROVE  InHand(f)'
  <2>1. up /\ UNCHANGED <<snd, clearQ, clr>>
    BY <1>4 DEF NewFile, SecondEvent
  <2>2. sendQ[g] \in Nat
    BY DEF TypeOK
  <2>3. sendQ'[f] > 0 \/ (src'[f] = src[f] /\ sendQ'[f] = sendQ[f])
    BY <1>4, <2>1, <2>2 DEF NewFile, SecondEvent, TypeOK
  <2>4. sendQ'[f] > 0 \/ (src[f] # "none" /\ sendQ'[f] = sendQ[f])
    BY <2>3
  <2>5. QED
    BY <2>1, <2>4, <1>s
<1>5. ASSUME NEW s \in Servers, ConnectionStep(s) \/ NetDown(s) \/ NetUp(s)
      PROVE  InHand(f)'
  <2>1. up /\ UNCHANGED <<src, sendQ, snd, clearQ, clr>>
    BY <1>5 DEF ConnectionStep, Reestablish, KeepAliveFails, NetDown, NetUp
  <2>2. QED
    BY <2>1, <1>s
<1>6. ASSUME NEW s \in Servers, RetryStep(s)
      PROVE  InHand(f)'
  <2>1. up /\ UNCHANGED <<src, sendQ, snd, clr>>
    BY <1>6 DEF RetryStep, RetryTake, RetryTransfer, RetryAgain,
       RemoveFailureGet, RemoveFailurePut, RetryClear
  <2>2. CASE clearQ' = clearQ
    BY <2>1, <2>2, <1>s
  <2>3. CASE RetryClear(s)
    <3>1. rt[s] \in Retrying
      BY <2>3, BusyTypes DEF RetryClear
    <3>2. PICK p \in Path : clearQ' = Append(clearQ, p)
      <4>1. [dir |-> "error", file |-> rt[s].file] \in Path
        BY <3>1 DEF Path, Retrying
      <4>2. QED
        BY <2>3, <4>1 DEF RetryClear
    <3>3. SourcePath(f) \in Path
      BY DEF SourcePath, Path
    <3>4. Clearing(SourcePath(f)) => Clearing(SourcePath(f))'
      BY <2>1, <3>2, <3>3, ClearingGrows DEF SourcePath
    <3>5. InHand(f)
      BY <2>1, InHandDef
    <3>6. QED
      BY <2>1, <3>4, <3>5 DEF InHand, SourcePath
  <2>4. QED
    BY <1>6, <2>2, <2>3 DEF RetryStep, RetryTake, RetryTransfer, RetryAgain,
       RemoveFailureGet, RemoveFailurePut
<1>7. QED
  BY <1>1, <1>2, <1>3, <1>4, <1>5, <1>6

(* For any number of servers and files, any queue length and all faults:   *)
(* while the process runs, every file in the source directory is waiting   *)
(* to be sent, being sent or waiting to be deleted (client.go: monitor,    *)
(* send, clear, addFileToRetryFromError).                                  *)
THEOREM InHandTheorem == Spec => []SourceInHand
<1>1. Init => SourceInHand
  BY DEF Init, SourceInHand
<1>2. TypeOK /\ SourceInHand /\ [Next]_vars => SourceInHand'
  <2> SUFFICES ASSUME TypeOK, SourceInHand, [Next]_vars
               PROVE  SourceInHand'
    OBVIOUS
  <2>1. CASE UNCHANGED vars
    BY <2>1 DEF vars, disk, threads, SourceInHand, Clearing
  <2>2. CASE Next
    BY <2>2, SendKeepsHands, ClearKeepsHands, OthersKeepHands DEF Next
  <2>3. QED
    BY <2>1, <2>2
<1>3. QED
  BY <1>1, <1>2, CloudTypeCorrect, PTL DEF Spec

-----------------------------------------------------------------------------
(* No file is lost.  Without a process death, a repeated event or a        *)
(* failing copy a file passes from hand to hand.  Where file f of a client *)
(* of server d is:                                                         *)
OneServer == \E d : Servers = {d}

ErrorPath(f) == [dir |-> "error", file |-> f]

Sends(f) == snd.at # "idle" /\ snd.file = f
Queued(d, f) == \E i \in 1..Len(retryQ[d]) : retryQ[d][i] = f
Once(d, f) ==
  \A i, j \in 1..Len(retryQ[d]) : retryQ[d][i] = f /\ retryQ[d][j] = f => i = j
Retries(d, f) == rt[d].at # "idle" /\ rt[d].file = f
LeavesSource(f) == Clearing(SourcePath(f))
LeavesError(f) == Clearing(ErrorPath(f))

NoRetry(d, f) == ~Queued(d, f) /\ ~Retries(d, f) /\ ~LeavesError(f)
Untouched(d, f) == err[f] = "none" /\ ~LeavesSource(f) /\ NoRetry(d, f)
Settled(d, f) == dst[d][f] = "whole" \/ err[f] = "whole"

(* A file that waits to be sent, or whose transfer was not yet tried or    *)
(* whose failure was not yet dealt with, is nowhere else; while it is      *)
(* copied nobody retries it.                                               *)
OutInv(d, f) ==
  /\ f \in fresh => src[f] = "none" /\ sendQ[f] = 0 /\ ~Sends(f) /\ Untouched(d, f)
  /\ sendQ[f] > 0 => sendQ[f] = 1 /\ src[f] = "whole" /\ ~Sends(f) /\ Untouched(d, f)
  /\ Sends(f) =>
       /\ src[f] = "whole" /\ ~LeavesSource(f)
       /\ snd.at # "next" => snd.todo = {}
       /\ snd.at \in {"get", "set", "copy"} => Untouched(d, f) /\ ~snd.failed
       /\ snd.at = "next" /\ snd.todo # {} => Untouched(d, f) /\ ~snd.failed
       /\ snd.at = "fill" => err[f] = "open" /\ snd.data = "whole" /\ NoRetry(d, f)
       /\ snd.at = "queue" => err[f] = "whole" /\ NoRetry(d, f)

(* A file is retried by one hand at a time, from a whole copy; the copy is *)
(* deleted when the server has the file.                                   *)
AgainInv(d, f) ==
  /\ Queued(d, f) => /\ err[f] = "whole" /\ Once(d, f)
                     /\ ~Retries(d, f) /\ ~LeavesError(f)
  /\ Retries(d, f) =>
       /\ ~LeavesError(f)
       /\ rt[d].at \in {"transfer", "again"} => err[f] = "whole"
       /\ rt[d].at \in {"get", "put", "clear"} => dst[d][f] = "whole"
  /\ LeavesError(f) => dst[d][f] = "whole"

(* A file that was sent is at the server or in the error directory.        *)
SentInv(d, f) ==
  f \notin fresh /\ sendQ[f] = 0 /\ (Sends(f) => snd.at = "next" /\ snd.todo = {})
    => Settled(d, f)

HandInv(d, f) == OutInv(d, f) /\ AgainInv(d, f) /\ SentInv(d, f)

(* The process is in its first life: sortFailures found nothing.           *)
FirstLife ==
  /\ refill = {} /\ srt.at = "idle"
  /\ ~up => /\ snd.at = "idle" /\ clearQ = <<>> /\ clr = NoPath
            /\ \A s \in Servers : retryQ[s] = <<>> /\ rt[s].at = "idle"
            /\ \A f \in Files : /\ sendQ[f] = 0 /\ err[f] = "none"
                                /\ src[f] = IF f \in fresh THEN "none" ELSE "whole"

CalmInv ==
  calm => /\ FirstLife
          /\ up => \A d \in Servers, f \in Files : HandInv(d, f)

(* A step that changes nothing about a file, or takes it out of a queue.   *)
Same(d, f) ==
  /\ f \in fresh' <=> f \in fresh
  /\ src'[f] = src[f] /\ err'[f] = err[f] /\ sendQ'[f] = sendQ[f]
  /\ dst'[d][f] = dst[d][f]
  /\ Sends(f)' => Sends(f) /\ snd' = snd
  /\ Sends(f) => Sends(f)'
  /\ Queued(d, f)' => Queued(d, f) /\ (Once(d, f) => Once(d, f)')
  /\ Retries(d, f)' => Retries(d, f) /\ rt'[d].at = rt[d].at
  /\ LeavesSource(f)' => LeavesSource(f)
  /\ LeavesError(f)' => LeavesError(f)

LEMMA SameKeeps ==
  ASSUME NEW d \in Servers, NEW f \in Files, HandInv(d, f), Same(d, f)
  PROVE  HandInv(d, f)'
<1>1. OutInv(d, f)'
  BY DEF HandInv, Same, OutInv, Untouched, NoRetry
<1>2. AgainInv(d, f)'
  BY DEF HandInv, Same, AgainInv
<1>3. SentInv(d, f)'
  BY DEF HandInv, Same, SentInv, Settled
<1>4. QED
  BY <1>1, <1>2, <1>3 DEF HandInv

(* Where a file is depends on few variables.                               *)
LEMMA HandFrame ==
  ASSUME NEW d \in Servers, NEW f \in Files
  PROVE  /\ UNCHANGED snd => (Sends(f)' <=> Sends(f))
         /\ UNCHANGED retryQ => /\ Queued(d, f)' <=> Queued(d, f)
                                /\ Once(d, f)' <=> Once(d, f)
         /\ UNCHANGED rt => (Retries(d, f)' <=> Retries(d, f))
         /\ UNCHANGED <<clearQ, clr>> => /\ LeavesSource(f)' <=> LeavesSource(f)
                                         /\ LeavesError(f)' <=> LeavesError(f)
<1>1. UNCHANGED snd => (Sends(f)' <=> Sends(f))
  BY DEF Sends
<1>2. UNCHANGED retryQ => /\ Queued(d, f)' <=> Queued(d, f)
                          /\ Once(d, f)' <=> Once(d, f)
  BY DEF Queued, Once
<1>3. UNCHANGED rt => (Retries(d, f)' <=> Retries(d, f))
  BY DEF Retries
<1>4. UNCHANGED <<clearQ, clr>> => /\ LeavesSource(f)' <=> LeavesSource(f)
                                   /\ LeavesError(f)' <=> LeavesError(f)
  BY DEF LeavesSource, LeavesError, Clearing, SourcePath, ErrorPath
<1>5. QED
  BY <1>1, <1>2, <1>3, <1>4

(* A file put into the retry queue, and one taken from it.                 *)
LEMMA RetryAppended ==
  ASSUME TypeOK, NEW d \in Servers, NEW f \in Files, NEW g \in Files,
         retryQ' = [retryQ EXCEPT ![d] = Append(@, f)]
  PROVE  /\ g # f => (Queued(d, g)' <=> Queued(d, g)) /\ (Once(d, g) => Once(d, g)')
         /\ ~Queued(d, f) => Once(d, f)'
<1>1. retryQ[d] \in Seq(Files) /\ retryQ'[d] = Append(retryQ[d], f)
  BY DEF TypeOK
<1>2. /\ Len(retryQ[d]) \in Nat /\ Len(retryQ'[d]) = Len(retryQ[d]) + 1
      /\ retryQ'[d][Len(retryQ[d]) + 1] = f
      /\ \A i \in 1..Len(retryQ[d]) : retryQ'[d][i] = retryQ[d][i]
  BY <1>1
<1>3. \A i \in 1..Len(retryQ'[d]) :
        i \in 1..Len(retryQ[d]) \/ i = Len(retryQ[d]) + 1
  BY <1>2
<1>4. \A i \in 1..Len(retryQ[d]) : i \in 1..Len(retryQ'[d])
  BY <1>2
<1>5. g # f => (Queued(d, g)' <=> Queued(d, g))
  BY <1>2, <1>3, <1>4 DEF Queued
<1>6. g # f => (Once(d, g) => Once(d, g)')
  BY <1>2, <1>3 DEF Once
<1>7. ~Queued(d, f) => Once(d, f)'
  BY <1>2, <1>3 DEF Once, Queued
<1>8. QED
  BY <1>5, <1>6, <1>7

LEMMA RetryTaken ==
  ASSUME TypeOK, NEW d \in Servers, NEW g \in Files, retryQ[d] # <<>>,
         retryQ' = [retryQ EXCEPT ![d] = Tail(@)]
  PROVE  /\ Queued(d, Head(retryQ[d])) /\ Head(retryQ[d]) \in Files
         /\ Queued(d, g)' => Queued(d, g)
         /\ Once(d, g) => Once(d, g)'
         /\ g = Head(retryQ[d]) /\ Once(d, g) => ~Queued(d, g)'
<1>1. retryQ[d] \in Seq(Files) /\ retryQ'[d] = Tail(retryQ[d])
  BY DEF TypeOK
<1>2. /\ Len(retryQ[d]) \in Nat \ {0} /\ Len(retryQ'[d]) = Len(retryQ[d]) - 1
      /\ Head(retryQ[d]) = retryQ[d][1] /\ Head(retryQ[d]) \in Files
      /\ \A i \in 1..Len(retryQ'[d]) : retryQ'[d][i] = retryQ[d][i + 1]
  <2> SUFFICES ASSUME NEW q \in Seq(Files), q # <<>>
               PROVE  /\ Len(q) \in Nat \ {0} /\ Len(Tail(q)) = Len(q) - 1
                      /\ Head(q) = q[1] /\ Head(q) \in Files
                      /\ \A i \in 1..Len(Tail(q)) : Tail(q)[i] = q[i + 1]
    BY <1>1
  <2>1. QED
    OBVIOUS
<1>3. /\ 1 \in 1..Len(retryQ[d])
      /\ \A i \in 1..Len(retryQ'[d]) : i + 1 \in 1..Len(retryQ[d])
  BY <1>2
<1>4. Queued(d, Head(retryQ[d]))
  BY <1>2, <1>3 DEF Queued
<1>5. Queued(d, g)' => Queued(d, g)
  BY <1>2, <1>3 DEF Queued
<1>6. Once(d, g) => Once(d, g)'
  <2> SUFFICES ASSUME Once(d, g), NEW i \in 1..Len(retryQ'[d]),
                      NEW j \in 1..Len(retryQ'[d]),
                      retryQ'[d][i] = g, retryQ'[d][j] = g
               PROVE  i = j
    BY DEF Once
  <2>1. /\ i + 1 \in 1..Len(retryQ[d]) /\ j + 1 \in 1..Len(retryQ[d])
        /\ retryQ[d][i + 1] = g /\ retryQ[d][j + 1] = g
    BY <1>2, <1>3
  <2>a. i + 1 = j + 1
    BY <2>1 DEF Once
  <2>2. QED
    BY <1>2, <2>a
<1>7. g = Head(retryQ[d]) /\ Once(d, g) => ~Queued(d, g)'
  <2> SUFFICES ASSUME g = Head(retryQ[d]), Once(d, g),
                      NEW i \in 1..Len(retryQ'[d]), retryQ'[d][i] = g
               PROVE  FALSE
    BY DEF Queued
  <2>1. i + 1 = 1
    BY <1>2, <1>3 DEF Once
  <2>2. QED
    BY <1>2, <2>1
<1>8. QED
  BY <1>2, <1>4, <1>5, <1>6, <1>7

(* Only a path that is put into the clear queue comes to be there.         *)
LEMMA ClearingComes ==
  ASSUME TypeOK, NEW p \in Path, NEW q \in Path, clearQ' = Append(clearQ, p),
         clr' = clr \/ (clr' = NoPath /\ clr = p), q # p
  PROVE  Clearing(q)' => Clearing(q)
<1>1. /\ Len(clearQ') = Len(clearQ) + 1 /\ Len(clearQ) \in Nat
      /\ clearQ'[Len(clearQ) + 1] = p
      /\ \A i \in 1..Len(clearQ) : clearQ'[i] = clearQ[i]
  BY DEF TypeOK
<1>2. \A i \in 1..Len(clearQ') :
        i \in 1..Len(clearQ) \/ i = Len(clearQ) + 1
  BY <1>1
<1>3. q # NoPath
  BY DEF Path, NoPath
<1>4. QED
  BY <1>1, <1>2, <1>3 DEF Clearing

LEMMA ClearingGoes ==
  ASSUME TypeOK, NEW q \in Path, clearQ # <<>>, clearQ' = Tail(clearQ),
         clr' = clr \/ clr' = Head(clearQ)
  PROVE  (Clearing(q)' => Clearing(q)) /\ Clearing(Head(clearQ))
<1>1. /\ Len(clearQ) \in Nat \ {0} /\ Len(clearQ') = Len(clearQ) - 1
      /\ Head(clearQ) = clearQ[1]
      /\ \A i \in 1..Len(clearQ') : clearQ'[i] = clearQ[i + 1]
  BY DEF TypeOK
<1>2. /\ 1 \in 1..Len(clearQ)
      /\ \A i \in 1..Len(clearQ') : i + 1 \in 1..Len(clearQ)
  BY <1>1
<1>3. QED
  BY <1>1, <1>2 DEF Clearing

(* A transfer writes to the file it is about; when it succeeds the server  *)
(* has what was in the requester's directory.                              *)
LEMMA TransferHits ==
  ASSUME TypeOK, NEW d \in Servers, NEW f \in Files, NEW x \in Content,
         NEW r \in Results, handleTransferRequest(d, f, x, r)
  PROVE  /\ \A t \in Files : t # f => dst'[d][t] = dst[d][t]
         /\ r = "ok" /\ x = "whole" => dst'[d][f] = "whole"
<1>1. \/ dst' = dst
      \/ \E y \in Content : dst' = [dst EXCEPT ![d][f] = y]
  BY DEF handleTransferRequest, copy, upload, Arrives, Content, Reads
<1>2. r = "ok" /\ x = "whole" => dst' = [dst EXCEPT ![d][f] = "whole"]
  BY DEF handleTransferRequest, copy, upload, Arrives, Reads
<1>3. dst \in [Servers -> [Files -> Content]]
  BY DEF TypeOK
<1>4. \A y, t : dst' = [dst EXCEPT ![d][f] = y] /\ t \in Files
        => dst'[d][t] = IF t = f THEN y ELSE dst[d][t]
  BY <1>3
<1>5. QED
  BY <1>1, <1>2, <1>4

(* The send thread.  g is any file, f the one the thread is at.            *)
LEMMA SendCalm ==
  ASSUME TypeOK, NEW d \in Servers, Servers = {d}, calm',
         \A f \in Files : HandInv(d, f), SendStep
  PROVE  \A f \in Files : HandInv(d, f)'
<1> USE DEF disk, remote
<1> TAKE g \in Files
<1>h. HandInv(d, g)
  OBVIOUS
<1>1. ASSUME NEW f \in Files, SendTake(f)
      PROVE  HandInv(d, g)'
  <2>1. /\ snd'.at = "next" /\ snd'.file = f /\ snd'.todo = Servers /\ ~snd'.failed
        /\ snd.at = "idle" /\ sendQ[f] > 0
        /\ UNCHANGED <<fresh, src, err, dst, retryQ, rt, clearQ, clr>>
    BY <1>1 DEF SendTake
  <2>2. /\ ~Sends(g) /\ (Sends(g)' <=> g = f)
        /\ Queued(d, g)' <=> Queued(d, g)
        /\ Once(d, g)' <=> Once(d, g)
        /\ Retries(d, g)' <=> Retries(d, g)
        /\ LeavesSource(g)' <=> LeavesSource(g)
        /\ LeavesError(g)' <=> LeavesError(g)
    BY <2>1, HandFrame DEF Sends
  <2>3. CASE g # f
    <3>1. sendQ'[g] = sendQ[g]
      BY <1>1, <2>3 DEF SendTake, TypeOK
    <3>2. Same(d, g)
      BY <2>1, <2>2, <2>3, <3>1 DEF Same
    <3>3. QED
      BY <1>h, <3>2, SameKeeps
  <2>4. CASE g = f
    <3>1. /\ sendQ[g] = 1 /\ src[g] = "whole" /\ Untouched(d, g) /\ g \notin fresh
      BY <1>h, <2>1, <2>4 DEF HandInv, OutInv, TypeOK
    <3>2. sendQ'[g] = 0
      BY <1>1, <2>4, <3>1 DEF SendTake, TypeOK
    <3>3. OutInv(d, g)'
      BY <2>1, <2>2, <2>4, <3>1, <3>2 DEF OutInv, Untouched, NoRetry
    <3>4. AgainInv(d, g)'
      BY <2>2, <3>1 DEF AgainInv, Untouched, NoRetry
    <3>5. SentInv(d, g)'
      BY <2>1, <2>2, <2>4 DEF SentInv
    <3>6. QED
      BY <3>3, <3>4, <3>5 DEF HandInv
  <2>5. QED
    BY <2>3, <2>4
<1>b. ASSUME snd.at # "idle"
      PROVE  /\ snd \in Sending /\ snd.file \in Files
             /\ Sends(snd.file) /\ HandInv(d, snd.file)
  BY <1>b, BusyTypes DEF Sending, Sends
(* The thread goes on with a file that is not g.                           *)
<1>o. ASSUME snd.at # "idle", snd'.file = snd.file \/ snd'.at = "idle",
             g # snd.file,
             UNCHANGED <<fresh, src, sendQ, rt>>,
             err'[g] = err[g], dst'[d][g] = dst[d][g],
             Queued(d, g)' => Queued(d, g) /\ (Once(d, g) => Once(d, g)'),
             LeavesSource(g)' => LeavesSource(g),
             LeavesError(g)' => LeavesError(g)
      PROVE  HandInv(d, g)'
  <2>1. ~Sends(g) /\ ~Sends(g)'
    BY <1>o DEF Sends
  <2>2. Same(d, g)
    BY <1>o, <2>1, HandFrame DEF Same
  <2>3. QED
    BY <1>h, <2>2, SameKeeps
<1>2. ASSUME NEW s \in Servers, SendTransfer(s)
      PROVE  HandInv(d, g)'
  <2>1. s = d /\ snd.at = "next" /\ d \in snd.todo
    BY <1>2 DEF SendTransfer
  <2>2. /\ snd \in Sending /\ snd.file \in Files /\ snd.todo \ {d} = {}
        /\ src[snd.file] = "whole" /\ Untouched(d, snd.file) /\ ~snd.failed
        /\ Sends(snd.file) /\ snd.file \notin fresh /\ ~(sendQ[snd.file] > 0)
    BY <1>b, <2>1 DEF HandInv, OutInv, Sending
  <2>3. UNCHANGED <<fresh, src, err, sendQ, retryQ, rt, clearQ, clr>>
    BY <1>2 DEF SendTransfer
  <2>4. \/ snd' = [snd EXCEPT !.todo = {}] /\ dst'[d][snd.file] = "whole"
        \/ \E b \in BOOLEAN :
             snd' = [snd EXCEPT !.todo = {}, !.at = "get", !.serv = d, !.retry = b]
    <3>1. ASSUME NEW r \in Results, handleTransferRequest(d, snd.file, src[snd.file], r),
                 r = "ok"
          PROVE  dst'[d][snd.file] = "whole"
      BY <2>2, <3>1 DEF handleTransferRequest, copy, upload, Arrives, Reads, TypeOK
    <3>2. QED
      BY <1>2, <2>1, <2>2, <3>1 DEF SendTransfer, Sending
  <2>5. \A t \in Files : t # snd.file => dst'[d][t] = dst[d][t]
    <3>1. CASE UNCHANGED remote
      BY <3>1
    <3>2. CASE \E r \in Results :
                 handleTransferRequest(d, snd.file, src[snd.file], r)
      BY <2>2, <3>2, TransferHits DEF TypeOK
    <3>3. QED
      BY <1>2, <2>1, <3>1, <3>2 DEF SendTransfer
  <2>6. /\ snd'.file = snd.file /\ snd'.failed = snd.failed /\ snd'.todo = {}
        /\ snd'.at \in {"next", "get"}
        /\ snd'.at = "next" => dst'[d][snd.file] = "whole"
    BY <2>1, <2>2, <2>4 DEF Sending
  <2>7. CASE g # snd.file
    BY <1>o, <2>1, <2>3, <2>5, <2>6, <2>7, HandFrame
  <2>8. CASE g = snd.file
    <3>1. /\ Sends(g)'
          /\ Queued(d, g)' <=> Queued(d, g)
          /\ Once(d, g)' <=> Once(d, g)
          /\ Retries(d, g)' <=> Retries(d, g)
          /\ LeavesSource(g)' <=> LeavesSource(g)
          /\ LeavesError(g)' <=> LeavesError(g)
      BY <2>3, <2>6, <2>8, HandFrame DEF Sends
    <3>2. OutInv(d, g)'
      BY <2>2, <2>3, <2>6, <2>8, <3>1 DEF OutInv, Untouched, NoRetry
    <3>3. AgainInv(d, g)'
      BY <2>2, <2>8, <3>1 DEF AgainInv, Untouched, NoRetry
    <3>4. SentInv(d, g)'
      BY <2>6, <2>8, <3>1 DEF SentInv, Settled
    <3>5. QED
      BY <3>2, <3>3, <3>4 DEF HandInv
  <2>9. QED
    BY <2>7, <2>8
<1>3. CASE AddFailureGet \/ AddFailureSet
  <2>1. /\ snd.at \in {"get", "set"} /\ snd.at # "idle"
        /\ UNCHANGED <<fresh, src, err, dst, sendQ, retryQ, rt, clearQ, clr>>
    BY <1>3 DEF AddFailureGet, AddFailureSet
  <2>2. /\ snd \in Sending /\ snd.todo = {} /\ ~snd.failed
        /\ src[snd.file] = "whole" /\ Untouched(d, snd.file)
        /\ snd.file \notin fresh /\ ~(sendQ[snd.file] > 0)
    BY <1>b, <2>1 DEF HandInv, OutInv
  <2>3. /\ snd'.file = snd.file /\ snd'.failed = snd.failed /\ snd'.todo = {}
        /\ snd'.at \in {"set", "copy"}
    BY <1>3, <2>2 DEF AddFailureGet, AddFailureSet, AfterRecording, Sending
  <2>4. CASE g # snd.file
    BY <1>o, <2>1, <2>3, <2>4, HandFrame
  <2>5. CASE g = snd.file
    <3>1. /\ Sends(g)'
          /\ Queued(d, g)' <=> Queued(d, g)
          /\ Once(d, g)' <=> Once(d, g)
          /\ Retries(d, g)' <=> Retries(d, g)
          /\ LeavesSource(g)' <=> LeavesSource(g)
          /\ LeavesError(g)' <=> LeavesError(g)
      BY <2>1, <2>3, <2>5, HandFrame DEF Sends
    <3>2. OutInv(d, g)'
      BY <2>1, <2>2, <2>3, <2>5, <3>1 DEF OutInv, Untouched, NoRetry
    <3>3. AgainInv(d, g)'
      BY <2>2, <2>5, <3>1 DEF AgainInv, Untouched, NoRetry
    <3>4. SentInv(d, g)'
      BY <2>3, <3>1 DEF SentInv
    <3>5. QED
      BY <3>2, <3>3, <3>4 DEF HandInv
  <2>6. QED
    BY <2>4, <2>5
<1>4. CASE CopyToError
  <2>1. /\ snd.at = "copy" /\ snd.at # "idle"
        /\ UNCHANGED <<fresh, src, dst, sendQ, retryQ, rt, clearQ, clr>>
    BY <1>4 DEF CopyToError
  <2>2. /\ snd \in Sending /\ snd.file \in Files /\ snd.todo = {} /\ ~snd.failed
        /\ src[snd.file] = "whole" /\ Untouched(d, snd.file)
        /\ snd.file \notin fresh /\ ~(sendQ[snd.file] > 0)
    BY <1>b, <2>1 DEF HandInv, OutInv
  <2>3. /\ snd' = [snd EXCEPT !.at = "fill", !.data = "whole"]
        /\ err' = [err EXCEPT ![snd.file] = "open"]
    BY <1>4, <2>2 DEF CopyToError, Spend, Unsettling
  <2>4. /\ snd'.file = snd.file /\ snd'.todo = {} /\ snd'.at = "fill"
        /\ snd'.data = "whole"
        /\ \A t \in Files : err'[t] = IF t = snd.file THEN "open" ELSE err[t]
    BY <2>2, <2>3 DEF Sending, TypeOK
  <2>5. CASE g # snd.file
    BY <1>o, <2>1, <2>4, <2>5, HandFrame
  <2>6. CASE g = snd.file
    <3>1. /\ Sends(g)'
          /\ Queued(d, g)' <=> Queued(d, g)
          /\ Once(d, g)' <=> Once(d, g)
          /\ Retries(d, g)' <=> Retries(d, g)
          /\ LeavesSource(g)' <=> LeavesSource(g)
          /\ LeavesError(g)' <=> LeavesError(g)
      BY <2>1, <2>4, <2>6, HandFrame DEF Sends
    <3>2. OutInv(d, g)'
      BY <2>1, <2>2, <2>4, <2>6, <3>1 DEF OutInv, Untouched, NoRetry
    <3>3. AgainInv(d, g)'
      BY <2>2, <2>6, <3>1 DEF AgainInv, Untouched, NoRetry
    <3>4. SentInv(d, g)'
      BY <2>4, <3>1 DEF SentInv
    <3>5. QED
      BY <3>2, <3>3, <3>4 DEF HandInv
  <2>7. QED
    BY <2>5, <2>6
<1>5. CASE FillErrorCopy
  <2>1. /\ snd.at = "fill" /\ snd.at # "idle"
        /\ UNCHANGED <<fresh, dst, retryQ, rt, clearQ, clr>>
    BY <1>5 DEF FillErrorCopy
  <2>2. /\ snd \in Sending /\ snd.file \in Files /\ snd.todo = {}
        /\ src[snd.file] = "whole" /\ err[snd.file] = "open" /\ snd.data = "whole"
        /\ ~LeavesSource(snd.file) /\ NoRetry(d, snd.file)
        /\ snd.file \notin fresh /\ ~(sendQ[snd.file] > 0)
    BY <1>b, <2>1 DEF HandInv, OutInv
  <2>3. /\ \A t \in Files : src'[t] = src[t]
        /\ \A t \in Files : err'[t] = IF t = snd.file THEN "whole" ELSE err[t]
        /\ sendQ' = sendQ /\ snd' = AfterCopy(snd)
    BY <1>5, <2>2 DEF FillErrorCopy, Spend, Unsettling
  <2>4. /\ snd'.file = snd.file /\ snd'.todo = {} /\ snd'.at \in {"queue", "next"}
    BY <2>2, <2>3 DEF AfterCopy, Sending
  <2>5. src' = src
    BY <1>5, <2>3 DEF FillErrorCopy, TypeOK
  <2>6. CASE g # snd.file
    BY <1>o, <2>1, <2>3, <2>4, <2>5, <2>6, HandFrame
  <2>7. CASE g = snd.file
    <3>1. /\ Sends(g)'
          /\ Queued(d, g)' <=> Queued(d, g)
          /\ Once(d, g)' <=> Once(d, g)
          /\ Retries(d, g)' <=> Retries(d, g)
          /\ LeavesSource(g)' <=> LeavesSource(g)
          /\ LeavesError(g)' <=> LeavesError(g)
      BY <2>1, <2>4, <2>7, HandFrame DEF Sends
    <3>2. OutInv(d, g)'
      BY <2>1, <2>2, <2>3, <2>4, <2>7, <3>1 DEF OutInv, NoRetry
    <3>3. AgainInv(d, g)'
      BY <2>2, <2>7, <3>1 DEF AgainInv, NoRetry
    <3>4. SentInv(d, g)'
      BY <2>3, <2>7 DEF SentInv, Settled
    <3>5. QED
      BY <3>2, <3>3, <3>4 DEF HandInv
  <2>8. QED
    BY <2>6, <2>7
<1>6. CASE QueueRetry
  <2>1. /\ snd.at = "queue" /\ snd.at # "idle"
        /\ UNCHANGED <<fresh, src, err, dst, sendQ, rt, clearQ, clr>>
    BY <1>6 DEF QueueRetry
  <2>2. /\ snd \in Sending /\ snd.file \in Files /\ snd.todo = {} /\ snd.serv = d
        /\ src[snd.file] = "whole" /\ err[snd.file] = "whole"
        /\ ~LeavesSource(snd.file) /\ NoRetry(d, snd.file)
        /\ snd.file \notin fresh /\ ~(sendQ[snd.file] > 0)
    BY <1>b, <2>1 DEF HandInv, OutInv, Sending
  <2>3. retryQ' = [retryQ EXCEPT ![d] = Append(@, snd.file)]
    BY <1>6, <2>2 DEF QueueRetry
  <2>4. snd'.file = snd.file /\ snd'.todo = {} /\ snd'.at = "next"
    BY <1>6, <2>2 DEF QueueRetry, Sending
  <2>5. CASE g # snd.file
    BY <1>o, <2>1, <2>2, <2>3, <2>4, <2>5, HandFrame, RetryAppended
  <2>6. CASE g = snd.file
    <3>1. /\ Sends(g)' /\ Once(d, g)'
          /\ Retries(d, g)' <=> Retries(d, g)
          /\ LeavesSource(g)' <=> LeavesSource(g)
          /\ LeavesError(g)' <=> LeavesError(g)
      BY <2>1, <2>2, <2>3, <2>4, <2>6, HandFrame, RetryAppended DEF Sends, NoRetry
    <3>2. OutInv(d, g)'
      BY <2>1, <2>2, <2>4, <2>6, <3>1 DEF OutInv
    <3>3. AgainInv(d, g)'
      BY <2>1, <2>2, <2>6, <3>1 DEF AgainInv, NoRetry
    <3>4. SentInv(d, g)'
      BY <2>1, <2>2, <2>6 DEF SentInv, Settled
    <3>5. QED
      BY <3>2, <3>3, <3>4 DEF HandInv
  <2>7. QED
    BY <2>5, <2>6
<1>7. CASE QueueClear
  <2>1. /\ snd.at = "next" /\ snd.todo = {} /\ snd.at # "idle" /\ snd'.at = "idle"
        /\ UNCHANGED <<fresh, src, err, dst, sendQ, retryQ, rt, clr>>
    BY <1>7 DEF QueueClear, SendIdle
  <2>2. /\ snd.file \in Files /\ snd.file \notin fresh /\ ~(sendQ[snd.file] > 0)
        /\ Settled(d, snd.file) /\ AgainInv(d, snd.file)
    <3>1. sendQ[snd.file] \in Nat
      BY <1>b, <2>1 DEF TypeOK
    <3>2. QED
      BY <1>b, <2>1, <3>1 DEF HandInv, OutInv, SentInv
  <2>3. /\ clearQ' = Append(clearQ, SourcePath(snd.file))
        /\ SourcePath(snd.file) \in Path /\ SourcePath(g) \in Path
        /\ ErrorPath(g) \in Path /\ ErrorPath(g) # SourcePath(snd.file)
        /\ g # snd.file => SourcePath(g) # SourcePath(snd.file)
    BY <1>7, <2>2 DEF QueueClear, SourcePath, ErrorPath, Path
  <2>4. Clearing(ErrorPath(g))' => Clearing(ErrorPath(g))
    BY <2>1, <2>3, ClearingComes DEF ErrorPath
  <2>5. g # snd.file => (Clearing(SourcePath(g))' => Clearing(SourcePath(g)))
    BY <2>1, <2>3, ClearingComes DEF SourcePath
  <2>6. /\ LeavesError(g)' => LeavesError(g)
        /\ g # snd.file => (LeavesSource(g)' => LeavesSource(g))
    BY <2>4, <2>5 DEF LeavesError, LeavesSource, SourcePath, ErrorPath
  <2>7. CASE g # snd.file
    BY <1>o, <2>1, <2>6, <2>7, HandFrame
  <2>8. CASE g = snd.file
    <3>1. /\ ~Sends(g)'
          /\ Queued(d, g)' <=> Queued(d, g)
          /\ Once(d, g)' <=> Once(d, g)
          /\ Retries(d, g)' <=> Retries(d, g)
      BY <2>1, HandFrame DEF Sends
    <3>2. OutInv(d, g)'
      BY <2>1, <2>2, <2>8, <3>1 DEF OutInv
    <3>3. AgainInv(d, g)'
      BY <2>1, <2>2, <2>6, <2>8, <3>1 DEF AgainInv
    <3>4. SentInv(d, g)'
      BY <2>1, <2>2, <2>8 DEF SentInv, Settled
    <3>5. QED
      BY <3>2, <3>3, <3>4 DEF HandInv
  <2>9. QED
    BY <2>7, <2>8
<1>8. QED
  BY <1>1, <1>2, <1>3, <1>4, <1>5, <1>6, <1>7 DEF SendStep

(* The retry thread, likewise.                                             *)
LEMMA RetryCalm ==
  ASSUME TypeOK, NEW d \in Servers, Servers = {d},
         \A f \in Files : HandInv(d, f), RetryStep(d)
  PROVE  \A f \in Files : HandInv(d, f)'
<1> USE DEF disk, remote
<1> TAKE g \in Files
<1>h. HandInv(d, g)
  OBVIOUS
<1>t. rt \in [Servers -> Retrying \cup {RetryIdle}]
  BY DEF TypeOK
<1>b. ASSUME rt[d].at # "idle"
      PROVE  /\ rt[d] \in Retrying /\ rt[d].file \in Files
             /\ Retries(d, rt[d].file) /\ HandInv(d, rt[d].file)
  BY <1>b, BusyTypes DEF Retrying, Retries
(* A file that is retried was sent.                                        *)
<1>a. ASSUME Retries(d, g)
      PROVE  /\ g \notin fresh /\ ~(sendQ[g] > 0)
             /\ Sends(g) => snd.at = "next" /\ snd.todo = {}
             /\ ~Queued(d, g) /\ ~LeavesError(g)
  <2>1. Sends(g) => snd.at \in SendPoints \ {"idle"}
    BY BusyTypes DEF Sends, Sending
  <2>2. QED
    BY <1>a, <1>h, <2>1
    DEF HandInv, OutInv, AgainInv, Untouched, NoRetry, SendPoints
(* The thread goes on with a file that is not g.                           *)
<1>o. ASSUME ~Retries(d, g), ~Retries(d, g)',
             UNCHANGED <<fresh, src, err, sendQ, snd>>,
             dst'[d][g] = dst[d][g],
             Queued(d, g)' => Queued(d, g) /\ (Once(d, g) => Once(d, g)'),
             LeavesSource(g)' => LeavesSource(g),
             LeavesError(g)' => LeavesError(g)
      PROVE  HandInv(d, g)'
  <2>1. Same(d, g)
    BY <1>o, HandFrame DEF Same
  <2>2. QED
    BY <1>h, <2>1, SameKeeps
<1>1. CASE RetryTake(d)
  <2> DEFINE f == Head(retryQ[d])
  <2>1. /\ rt[d].at = "idle" /\ retryQ[d] # <<>>
        /\ retryQ' = [retryQ EXCEPT ![d] = Tail(@)]
        /\ rt'[d].at = "transfer" /\ rt'[d].file = f
        /\ UNCHANGED <<fresh, src, err, dst, sendQ, snd, clearQ, clr>>
    BY <1>1, <1>t DEF RetryTake
  <2>2. /\ Queued(d, f) /\ f \in Files
        /\ Queued(d, g)' => Queued(d, g)
        /\ Once(d, g) => Once(d, g)'
        /\ g = f /\ Once(d, g) => ~Queued(d, g)'
    BY <2>1, RetryTaken
  <2>3. /\ ~Retries(d, g) /\ (Retries(d, g)' <=> g = f)
        /\ Sends(g)' <=> Sends(g)
        /\ LeavesSource(g)' <=> LeavesSource(g)
        /\ LeavesError(g)' <=> LeavesError(g)
    BY <2>1, HandFrame DEF Retries
  <2>4. CASE g # f
    BY <1>o, <2>1, <2>2, <2>3, <2>4
  <2>5. CASE g = f
    <3>1. err[g] = "whole" /\ Once(d, g) /\ ~LeavesError(g) /\ ~Queued(d, g)'
      BY <1>h, <2>2, <2>5 DEF HandInv, AgainInv
    <3>2. OutInv(d, g)'
      BY <1>h, <2>1, <2>2, <2>3, <2>5, <3>1 DEF HandInv, OutInv, Untouched, NoRetry
    <3>3. AgainInv(d, g)'
      BY <2>1, <2>3, <3>1 DEF AgainInv
    <3>4. SentInv(d, g)'
      BY <2>1, <3>1 DEF SentInv, Settled
    <3>5. QED
      BY <3>2, <3>3, <3>4 DEF HandInv
  <2>6. QED
    BY <2>4, <2>5
<1>2. CASE RetryTransfer(d)
  <2> DEFINE f == rt[d].file
  <2>1. /\ rt[d].at = "transfer" /\ rt[d].at # "idle"
        /\ UNCHANGED <<fresh, src, err, sendQ, snd, retryQ, clearQ, clr>>
    BY <1>2 DEF RetryTransfer
  <2>2. rt[d] \in Retrying /\ f \in Files /\ err[f] = "whole" /\ Retries(d, f)
    BY <1>b, <2>1 DEF HandInv, AgainInv
  <2>3. PICK r \in Results : /\ handleTransferRequest(d, f, err[f], r)
                             /\ rt' = [rt EXCEPT ![d] = AfterRetry(@, r)]
    BY <1>2 DEF RetryTransfer
  <2>4. err[f] \in Content
    BY <2>2 DEF Content
  <2>5. /\ \A t \in Files : t # f => dst'[d][t] = dst[d][t]
        /\ r = "ok" => dst'[d][f] = "whole"
    BY <2>2, <2>3, <2>4, TransferHits
  <2>6. rt'[d] = AfterRetry(rt[d], r)
    BY <1>t, <2>3
  <2>7. /\ rt'[d].at \in {"get", "again", "idle"}
        /\ rt'[d].at # "idle" => rt'[d].file = f
        /\ rt'[d].at = "get" => dst'[d][f] = "whole"
    <3>1. CASE r = "ok"
      BY <2>2, <2>5, <2>6, <3>1 DEF AfterRetry, Retrying
    <3>2. CASE r = "retryable"
      BY <2>2, <2>6, <3>2 DEF AfterRetry, Retrying
    <3>3. CASE r = "final"
      BY <2>6, <3>3 DEF AfterRetry, RetryIdle
    <3>4. QED
      BY <3>1, <3>2, <3>3 DEF Results
  <2>8. /\ Sends(g)' <=> Sends(g)
        /\ Queued(d, g)' <=> Queued(d, g)
        /\ Once(d, g)' <=> Once(d, g)
        /\ LeavesSource(g)' <=> LeavesSource(g)
        /\ LeavesError(g)' <=> LeavesError(g)
    BY <2>1, HandFrame
  <2>9. CASE g # f
    <3>1. ~Retries(d, g) /\ ~Retries(d, g)'
      BY <2>7, <2>9 DEF Retries
    <3>2. QED
      BY <1>o, <2>1, <2>5, <2>8, <2>9, <3>1
  <2>10. CASE g = f
    <3>1. OutInv(d, g)'
      BY <1>a, <1>h, <2>1, <2>2, <2>8, <2>10 DEF HandInv, OutInv
    <3>2. AgainInv(d, g)'
      BY <1>a, <2>1, <2>2, <2>7, <2>8, <2>10 DEF AgainInv, Retries
    <3>3. SentInv(d, g)'
      BY <2>1, <2>2, <2>10 DEF SentInv, Settled
    <3>4. QED
      BY <3>1, <3>2, <3>3 DEF HandInv
  <2>11. QED
    BY <2>9, <2>10
<1>3. CASE RetryAgain(d)
  <2> DEFINE f == rt[d].file
  <2>1. /\ rt[d].at = "again" /\ rt[d].at # "idle" /\ rt'[d].at = "idle"
        /\ retryQ' = [retryQ EXCEPT ![d] = Append(@, f)]
        /\ UNCHANGED <<fresh, src, err, dst, sendQ, snd, clearQ, clr>>
    BY <1>3, <1>t DEF RetryAgain, RetryIdle
  <2>2. f \in Files /\ err[f] = "whole" /\ Retries(d, f)
    BY <1>b, <2>1 DEF HandInv, AgainInv
  <2>3. /\ ~Retries(d, g)' /\ (Retries(d, g) <=> g = f)
        /\ Sends(g)' <=> Sends(g)
        /\ LeavesSource(g)' <=> LeavesSource(g)
        /\ LeavesError(g)' <=> LeavesError(g)
    BY <2>1, HandFrame DEF Retries
  <2>4. CASE g # f
    BY <1>o, <2>1, <2>2, <2>3, <2>4, RetryAppended
  <2>5. CASE g = f
    <3>1. Once(d, g)'
      BY <1>a, <2>1, <2>2, <2>5, RetryAppended
    <3>2. OutInv(d, g)'
      BY <1>a, <1>h, <2>1, <2>2, <2>3, <2>5 DEF HandInv, OutInv
    <3>3. AgainInv(d, g)'
      BY <1>a, <2>1, <2>2, <2>3, <2>5, <3>1 DEF AgainInv
    <3>4. SentInv(d, g)'
      BY <2>1, <2>2, <2>5 DEF SentInv, Settled
    <3>5. QED
      BY <3>2, <3>3, <3>4 DEF HandInv
  <2>6. QED
    BY <2>4, <2>5
<1>4. CASE RemoveFailureGet(d) \/ RemoveFailurePut(d)
  <2> DEFINE f == rt[d].file
  <2>1. /\ rt[d].at \in {"get", "put"} /\ rt[d].at # "idle"
        /\ UNCHANGED <<fresh, src, err, dst, sendQ, snd, retryQ, clearQ, clr>>
    BY <1>4 DEF RemoveFailureGet, RemoveFailurePut
  <2>2. rt[d] \in Retrying /\ f \in Files /\ dst[d][f] = "whole" /\ Retries(d, f)
    BY <1>b, <2>1 DEF HandInv, AgainInv
  <2>3. /\ rt'[d].at \in {"put", "clear", "idle"}
        /\ rt'[d].at # "idle" => rt'[d].file = f
    BY <1>4, <1>t, <2>2 DEF RemoveFailureGet, RemoveFailurePut, Retrying, RetryIdle
  <2>4. /\ Sends(g)' <=> Sends(g)
        /\ Queued(d, g)' <=> Queued(d, g)
        /\ Once(d, g)' <=> Once(d, g)
        /\ LeavesSource(g)' <=> LeavesSource(g)
        /\ LeavesError(g)' <=> LeavesError(g)
    BY <2>1, HandFrame
  <2>5. CASE g # f
    <3>1. ~Retries(d, g) /\ ~Retries(d, g)'
      BY <2>3, <2>5 DEF Retries
    <3>2. QED
      BY <1>o, <2>1, <2>4, <3>1
  <2>6. CASE g = f
    <3>1. OutInv(d, g)'
      BY <1>a, <1>h, <2>1, <2>2, <2>4, <2>6 DEF HandInv, OutInv
    <3>2. AgainInv(d, g)'
      BY <1>a, <2>1, <2>2, <2>3, <2>4, <2>6 DEF AgainInv, Retries
    <3>3. SentInv(d, g)'
      BY <2>1, <2>2, <2>6 DEF SentInv, Settled
    <3>4. QED
      BY <3>1, <3>2, <3>3 DEF HandInv
  <2>7. QED
    BY <2>5, <2>6
<1>5. CASE RetryClear(d)
  <2> DEFINE f == rt[d].file
  <2>1. /\ rt[d].at = "clear" /\ rt[d].at # "idle" /\ rt'[d].at = "idle"
        /\ clearQ' = Append(clearQ, ErrorPath(f))
        /\ UNCHANGED <<fresh, src, err, dst, sendQ, snd, retryQ, clr>>
    BY <1>5, <1>t DEF RetryClear, RetryIdle, ErrorPath
  <2>2. f \in Files /\ dst[d][f] = "whole" /\ Retries(d, f)
    BY <1>b, <2>1 DEF HandInv, AgainInv
  <2>3. /\ ~Retries(d, g)' /\ (Retries(d, g) <=> g = f)
        /\ Sends(g)' <=> Sends(g)
        /\ Queued(d, g)' <=> Queued(d, g)
        /\ Once(d, g)' <=> Once(d, g)
    BY <2>1, HandFrame DEF Retries
  <2>4. /\ ErrorPath(f) \in Path /\ SourcePath(g) \in Path /\ ErrorPath(g) \in Path
        /\ SourcePath(g) # ErrorPath(f)
        /\ g # f => ErrorPath(g) # ErrorPath(f)
    BY <2>2 DEF SourcePath, ErrorPath, Path
  <2>5. Clearing(SourcePath(g))' => Clearing(SourcePath(g))
    BY <2>1, <2>4, ClearingComes DEF SourcePath
  <2>6. g # f => (Clearing(ErrorPath(g))' => Clearing(ErrorPath(g)))
    BY <2>1, <2>4, ClearingComes DEF ErrorPath
  <2>7. /\ LeavesSource(g)' => LeavesSource(g)
        /\ g # f => (LeavesError(g)' => LeavesError(g))
    BY <2>5, <2>6 DEF LeavesError, LeavesSource, SourcePath, ErrorPath
  <2>8. CASE g # f
    BY <1>o, <2>1, <2>3, <2>7, <2>8
  <2>9. CASE g = f
    <3>1. OutInv(d, g)'
      BY <1>a, <1>h, <2>1, <2>2, <2>3, <2>7, <2>9 DEF HandInv, OutInv
    <3>2. AgainInv(d, g)'
      BY <1>a, <2>1, <2>2, <2>3, <2>9 DEF AgainInv
    <3>3. SentInv(d, g)'
      BY <2>1, <2>2, <2>9 DEF SentInv, Settled
    <3>4. QED
      BY <3>1, <3>2, <3>3 DEF HandInv
  <2>10. QED
    BY <2>8, <2>9
<1>6. QED
  BY <1>1, <1>2, <1>3, <1>4, <1>5 DEF RetryStep

(* The clear thread deletes a source file that was sent and a copy of one  *)
(* the server has.                                                         *)
LEMMA ClearCalm ==
  ASSUME TypeOK, NEW d \in Servers, \A f \in Files : HandInv(d, f), ClearStep
  PROVE  \A f \in Files : HandInv(d, f)'
<1> USE DEF disk, remote
<1> TAKE g \in Files
<1>h. HandInv(d, g)
  OBVIOUS
<1>p. SourcePath(g) \in Path /\ ErrorPath(g) \in Path
  BY DEF SourcePath, ErrorPath, Path
<1>u. /\ UNCHANGED <<fresh, dst, sendQ, snd, retryQ, rt>>
      /\ Sends(g)' <=> Sends(g)
      /\ Queued(d, g)' <=> Queued(d, g)
      /\ Once(d, g)' <=> Once(d, g)
      /\ Retries(d, g)' <=> Retries(d, g)
  <2>1. UNCHANGED <<fresh, dst, sendQ, snd, retryQ, rt>>
    BY DEF ClearStep, Clear, ClearAgain
  <2>2. QED
    BY <2>1, HandFrame
<1>1. CASE ClearAgain
  <2>1. /\ clr \in Path /\ clearQ' = Append(clearQ, clr) /\ clr' = NoPath
        /\ UNCHANGED <<src, err>>
    BY <1>1, BusyTypes DEF ClearAgain
  <2>2. Clearing(SourcePath(g))' => Clearing(SourcePath(g))
    <3>1. CASE SourcePath(g) = clr
      BY <3>1 DEF Clearing, SourcePath
    <3>2. CASE SourcePath(g) # clr
      BY <1>p, <2>1, <3>2, ClearingComes DEF SourcePath
    <3>3. QED
      BY <3>1, <3>2
  <2>3. Clearing(ErrorPath(g))' => Clearing(ErrorPath(g))
    <3>1. CASE ErrorPath(g) = clr
      BY <3>1 DEF Clearing, ErrorPath
    <3>2. CASE ErrorPath(g) # clr
      BY <1>p, <2>1, <3>2, ClearingComes DEF ErrorPath
    <3>3. QED
      BY <3>1, <3>2
  <2>4. Same(d, g)
    BY <1>u, <2>1, <2>2, <2>3 DEF Same, LeavesSource, LeavesError, SourcePath, ErrorPath
  <2>5. QED
    BY <1>h, <2>4, SameKeeps
<1>2. CASE Clear
  <2> DEFINE p == Head(clearQ)
  <2>1. /\ clearQ # <<>> /\ clearQ' = Tail(clearQ) /\ (clr' = clr \/ clr' = p)
    BY <1>2 DEF Clear
  <2>2. p \in Path
    BY <2>1 DEF TypeOK
  <2>3. /\ Clearing(SourcePath(g))' => Clearing(SourcePath(g))
        /\ Clearing(ErrorPath(g))' => Clearing(ErrorPath(g))
        /\ Clearing(p)
    BY <1>p, <2>1, ClearingGoes DEF SourcePath, ErrorPath
  <2>4. /\ LeavesSource(g)' => LeavesSource(g)
        /\ LeavesError(g)' => LeavesError(g)
        /\ p = SourcePath(g) => LeavesSource(g)
        /\ p = ErrorPath(g) => LeavesError(g)
    BY <2>3 DEF LeavesSource, LeavesError, SourcePath, ErrorPath
  <2>5. /\ src'[g] = src[g] \/ (src'[g] = "none" /\ p = SourcePath(g))
        /\ err'[g] = err[g] \/ (err'[g] = "none" /\ p = ErrorPath(g))
    BY <1>2, <2>2 DEF Clear, SourcePath, ErrorPath, Path, TypeOK
  <2>6. SourcePath(g) # ErrorPath(g)
    BY DEF SourcePath, ErrorPath
  <2>7. CASE src'[g] = src[g] /\ err'[g] = err[g]
    <3>1. Same(d, g)
      BY <1>u, <2>4, <2>7 DEF Same
    <3>2. QED
      BY <1>h, <3>1, SameKeeps
  <2>8. CASE src'[g] = "none" /\ p = SourcePath(g) /\ err'[g] = err[g]
    <3>1. ~Sends(g) /\ ~(sendQ[g] > 0) /\ g \notin fresh /\ LeavesSource(g)
      BY <1>h, <2>4, <2>8 DEF HandInv, OutInv, Untouched
    <3>2. OutInv(d, g)'
      BY <1>u, <3>1 DEF OutInv
    <3>3. AgainInv(d, g)'
      BY <1>h, <1>u, <2>4, <2>8 DEF HandInv, AgainInv
    <3>4. SentInv(d, g)'
      BY <1>h, <1>u, <2>8, <3>1 DEF HandInv, SentInv, Settled
    <3>5. QED
      BY <3>2, <3>3, <3>4 DEF HandInv
  <2>9. CASE err'[g] = "none" /\ p = ErrorPath(g) /\ src'[g] = src[g]
    <3>1. LeavesError(g) /\ dst[d][g] = "whole" /\ ~Queued(d, g) /\ ~Retries(d, g)
      BY <1>h, <2>4, <2>9 DEF HandInv, AgainInv
    <3>2. OutInv(d, g)'
      BY <1>h, <1>u, <2>4, <2>9, <3>1 DEF HandInv, OutInv, Untouched, NoRetry
    <3>3. AgainInv(d, g)'
      BY <1>u, <3>1 DEF AgainInv
    <3>4. SentInv(d, g)'
      BY <1>u, <3>1 DEF SentInv, Settled
    <3>5. QED
      BY <3>2, <3>3, <3>4 DEF HandInv
  <2>10. QED
    BY <2>5, <2>6, <2>7, <2>8, <2>9
<1>3. QED
  BY <1>1, <1>2 DEF ClearStep

(* Before the process runs nothing was touched: it starts with every file  *)
(* that is there in the send queue.                                        *)
LEMMA StartCalm ==
  ASSUME TypeOK, NEW d \in Servers, FirstLife, Restart
  PROVE  FirstLife' /\ \A f \in Files : HandInv(d, f)'
<1> USE DEF disk, remote
<1>1. /\ up' /\ UNCHANGED <<fresh, src, err, snd, retryQ, rt, clearQ, clr, srt>>
      /\ sendQ' = [f \in Files |-> IF src[f] = "none" THEN 0 ELSE 1]
      /\ refill' = {f \in Files : err[f] # "none"}
      /\ ~up
  BY DEF Restart
<1>2. refill' = {}
  BY <1>1 DEF FirstLife
<1>3. FirstLife'
  BY <1>1, <1>2 DEF FirstLife
<1>4. ASSUME NEW g \in Files
      PROVE  HandInv(d, g)'
  <2>1. ~Sends(g)' /\ ~Queued(d, g)' /\ ~Retries(d, g)'
    <3>1. ~Queued(d, g)'
      <4>1. retryQ'[d] = <<>>
        BY <1>1 DEF FirstLife
      <4>2. QED
        BY <4>1 DEF Queued
    <3>2. QED
      BY <1>1, <3>1 DEF FirstLife, Sends, Retries
  <2>2. \A q \in Path : ~Clearing(q)'
    <3>1. clearQ' = <<>> /\ clr' = NoPath
      BY <1>1 DEF FirstLife
    <3>2. QED
      BY <3>1 DEF Clearing, NoPath, Path
  <2>3. SourcePath(g) \in Path /\ ErrorPath(g) \in Path
    BY DEF SourcePath, ErrorPath, Path
  <2>4. ~LeavesSource(g)' /\ ~LeavesError(g)'
    BY <2>2, <2>3 DEF LeavesSource, LeavesError, SourcePath, ErrorPath
  <2>5. /\ err'[g] = "none" /\ src'[g] = src[g]
        /\ g \in fresh => src[g] = "none" /\ sendQ'[g] = 0
        /\ g \notin fresh => src[g] = "whole" /\ sendQ'[g] = 1
    BY <1>1 DEF FirstLife
  <2>6. g \in fresh' <=> g \in fresh
    BY <1>1
  <2>7. OutInv(d, g)'
    BY <2>1, <2>4, <2>5, <2>6 DEF OutInv, Untouched, NoRetry
  <2>8. AgainInv(d, g)'
    BY <2>1, <2>4 DEF AgainInv
  <2>9. SentInv(d, g)'
    BY <2>5, <2>6 DEF SentInv
  <2>10. QED
    BY <2>7, <2>8, <2>9 DEF HandInv
<1>5. QED
  BY <1>3, <1>4

(* A new file is nowhere else.                                             *)
LEMMA NewCalm ==
  ASSUME TypeOK, NEW d \in Servers, NEW f \in Files, up,
         \A g \in Files : HandInv(d, g), NewFile(f)
  PROVE  \A g \in Files : HandInv(d, g)'
<1> USE DEF disk, remote
<1> TAKE g \in Files
<1>h. HandInv(d, g)
  OBVIOUS
<1>1. /\ f \in fresh /\ fresh' = fresh \ {f}
      /\ src' = [src EXCEPT ![f] = "whole"] /\ sendQ' = [sendQ EXCEPT ![f] = @ + 1]
      /\ UNCHANGED <<err, dst, snd, retryQ, rt, clearQ, clr>>
  BY DEF NewFile
<1>2. /\ Sends(g)' <=> Sends(g)
      /\ Queued(d, g)' <=> Queued(d, g)
      /\ Once(d, g)' <=> Once(d, g)
      /\ Retries(d, g)' <=> Retries(d, g)
      /\ LeavesSource(g)' <=> LeavesSource(g)
      /\ LeavesError(g)' <=> LeavesError(g)
  BY <1>1, HandFrame
<1>3. CASE g # f
  <2>1. src'[g] = src[g] /\ sendQ'[g] = sendQ[g]
    BY <1>1, <1>3 DEF TypeOK
  <2>2. Same(d, g)
    BY <1>1, <1>2, <1>3, <2>1 DEF Same
  <2>3. QED
    BY <1>h, <2>2, SameKeeps
<1>4. CASE g = f
  <2>1. sendQ[g] = 0 /\ ~Sends(g) /\ Untouched(d, g)
    BY <1>h, <1>1, <1>4 DEF HandInv, OutInv
  <2>2. g \notin fresh' /\ src'[g] = "whole" /\ sendQ'[g] = 1
    BY <1>1, <1>4, <2>1 DEF TypeOK
  <2>3. OutInv(d, g)'
    BY <1>1, <1>2, <2>1, <2>2 DEF OutInv, Untouched, NoRetry
  <2>4. AgainInv(d, g)'
    BY <1>2, <2>1 DEF AgainInv, Untouched, NoRetry
  <2>5. SentInv(d, g)'
    BY <2>2 DEF SentInv
  <2>6. QED
    BY <2>3, <2>4, <2>5 DEF HandInv
<1>5. QED
  BY <1>3, <1>4

(* Each step keeps the invariant or ends the calm.                         *)
LEMMA CalmStep ==
  ASSUME TypeOK, NEW d \in Servers, Servers = {d}, calm, calm', FirstLife,
         up => \A f \in Files : HandInv(d, f), [Next]_vars
  PROVE  FirstLife' /\ (up' => \A f \in Files : HandInv(d, f)')
<1> USE DEF disk, remote, threads
<1>1. CASE UNCHANGED <<fresh, src, err, dst, threads>>
  <2>1. FirstLife'
    BY <1>1 DEF FirstLife
  <2>2. ASSUME up', NEW g \in Files
        PROVE  HandInv(d, g)'
    <3>1. HandInv(d, g)
      BY <1>1, <2>2
    <3>2. Same(d, g)
      BY <1>1, HandFrame DEF Same
    <3>3. QED
      BY <3>1, <3>2, SameKeeps
  <2>3. QED
    BY <2>1, <2>2
<1>2. CASE SendStep
  <2>1. up /\ UNCHANGED <<up, refill, srt>>
    BY <1>2 DEF SendStep, SendTake, SendTransfer, AddFailureGet, AddFailureSet,
       CopyToError, FillErrorCopy, QueueRetry, QueueClear
  <2>2. \A f \in Files : HandInv(d, f)'
    BY <1>2, <2>1, SendCalm
  <2>3. QED
    BY <2>1, <2>2 DEF FirstLife
<1>3. CASE RetryStep(d)
  <2>1. up /\ UNCHANGED <<up, refill, srt>>
    BY <1>3 DEF RetryStep, RetryTake, RetryTransfer, RetryAgain,
       RemoveFailureGet, RemoveFailurePut, RetryClear
  <2>2. \A f \in Files : HandInv(d, f)'
    BY <1>3, <2>1, RetryCalm
  <2>3. QED
    BY <2>1, <2>2 DEF FirstLife
<1>4. CASE ClearStep
  <2>1. up /\ UNCHANGED <<up, refill, srt>>
    BY <1>4 DEF ClearStep, Clear, ClearAgain
  <2>2. \A f \in Files : HandInv(d, f)'
    BY <1>4, <2>1, ClearCalm
  <2>3. QED
    BY <2>1, <2>2 DEF FirstLife
<1>5. CASE SortStep
  BY <1>5 DEF SortStep, SortTake, SortRename, SortPush, FirstLife
<1>6. CASE Restart
  BY <1>6, StartCalm
<1>7. ASSUME NEW f \in Files, NewFile(f)
      PROVE  FirstLife' /\ (up' => \A g \in Files : HandInv(d, g)')
  <2>1. UNCHANGED <<err, up, snd, retryQ, rt, clearQ, clr, refill, srt>>
    BY <1>7 DEF NewFile
  <2>2. CASE up
    <3>1. \A g \in Files : HandInv(d, g)'
      BY <1>7, <2>2, NewCalm
    <3>2. QED
      BY <2>1, <2>2, <3>1 DEF FirstLife
  <2>3. CASE ~up
    <3>1. /\ sendQ' = sendQ /\ fresh' = fresh \ {f}
          /\ \A g \in Files : src'[g] = IF g = f THEN "whole" ELSE src[g]
      BY <1>7, <2>3 DEF NewFile, TypeOK
    <3>2. FirstLife'
      BY <2>1, <2>3, <3>1 DEF FirstLife
    <3>3. QED
      BY <2>1, <2>3, <3>2
  <2>4. QED
    BY <2>2, <2>3
<1>8. ASSUME NEW s \in Servers, ConnectionStep(s) \/ NetDown(s) \/ NetUp(s)
      PROVE  UNCHANGED <<fresh, src, err, dst, threads>>
  BY <1>8 DEF ConnectionStep, Reestablish, KeepAliveFails, NetDown, NetUp
<1>9. ASSUME Spend("crash") \/ Spend("torn") \/ Spend("dup")
      PROVE  FALSE
  BY <1>9 DEF Spend, Unsettling
<1>10. /\ ~Crash
       /\ \A f \in Files : ~SecondEvent(f)
       /\ \A s \in Servers : ~CrashInTransfer(s)
  BY <1>9 DEF Crash, SecondEvent, CrashInTransfer
<1>11. CASE UNCHANGED vars
  BY <1>1, <1>11 DEF vars
<1>12. CASE Next
  BY <1>1, <1>2, <1>3, <1>4, <1>5, <1>6, <1>7, <1>8, <1>10, <1>12 DEF Next
<1>13. QED
  BY <1>11, <1>12

(* The calm does not come back.                                            *)
LEMMA CalmEnds == calm' /\ [Next]_vars => calm
<1> USE DEF Free, Spend
<1>1. SendStep => (calm' => calm)
  BY DEF SendStep, SendTake, SendTransfer, AddFailureGet, AddFailureSet, Put,
     CopyToError, FillErrorCopy, QueueRetry, QueueClear,
     handleTransferRequest, copy, upload, Arrives
<1>2. \A s \in Servers : RetryStep(s) => (calm' => calm)
  BY DEF RetryStep, RetryTake, RetryTransfer, RetryAgain, Put,
     RemoveFailureGet, RemoveFailurePut, RetryClear,
     handleTransferRequest, copy, upload, Arrives
<1>3. ClearStep \/ SortStep \/ Crash \/ Restart => (calm' => calm)
  BY DEF ClearStep, Clear, ClearAgain, SortStep, SortTake, SortRename, SortPush,
     Crash, Restart
<1>4. \A f \in Files : NewFile(f) \/ SecondEvent(f) => (calm' => calm)
  BY DEF NewFile, SecondEvent
<1>5. \A s \in Servers :
        ConnectionStep(s) \/ NetDown(s) \/ NetUp(s) \/ CrashInTransfer(s)
          => (calm' => calm)
  BY DEF ConnectionStep, Reestablish, KeepAliveFails, NetDown, NetUp,
     CrashInTransfer
<1>6. QED
  BY <1>1, <1>2, <1>3, <1>4, <1>5 DEF Next, vars

LEMMA CalmInvariant ==
  ASSUME OneServer
  PROVE  Spec => []CalmInv
<1>1. PICK d : Servers = {d}
  BY DEF OneServer
<1>2. Init => CalmInv
  BY DEF Init, CalmInv, FirstLife, SortIdle, SendIdle, RetryIdle
<1>3. TypeOK /\ CalmInv /\ [Next]_vars => CalmInv'
  <2> SUFFICES ASSUME TypeOK, CalmInv, [Next]_vars, calm'
               PROVE  FirstLife' /\ (up' => \A s \in Servers, f \in Files : HandInv(s, f)')
    BY DEF CalmInv
  <2>1. calm
    BY CalmEnds
  <2>2. FirstLife /\ (up => \A f \in Files : HandInv(d, f))
    BY <1>1, <2>1 DEF CalmInv
  <2>3. FirstLife' /\ (up' => \A f \in Files : HandInv(d, f)')
    BY <1>1, <2>1, <2>2, CalmStep
  <2>4. QED
    BY <1>1, <2>3
<1>4. QED
  BY <1>2, <1>3, CloudTypeCorrect, PTL DEF Spec

(* For any number of files, any queue length and all faults: until the     *)
(* process dies, an event is repeated or a copy to the error directory     *)
(* fails, a client of one server loses no file, however often the server   *)
(* disappears, transfers break off or leave a truncated file, deletes and  *)
(* database writes fail (client.go: send, retry, clear).                   *)
THEOREM NoLossTheorem ==
  ASSUME OneServer
  PROVE  Spec => []NoLoss
<1>1. TypeOK /\ CalmInv => NoLoss
  <2> SUFFICES ASSUME TypeOK, CalmInv, calm, NEW f \in Files \ fresh,
                      NEW d \in Servers
               PROVE  Safe(f, d)
    BY DEF NoLoss
  <2>1. CASE ~up
    BY <2>1 DEF CalmInv, FirstLife, Safe
  <2>2. CASE up
    <3>1. HandInv(d, f)
      BY <2>2 DEF CalmInv
    <3>2. db[f] = {} \/ d \in db[f]
      <4>1. db[f] \subseteq Servers
        BY DEF TypeOK
      <4>2. QED
        BY <4>1 DEF OneServer
    <3>3. CASE sendQ[f] > 0 \/ Sends(f)
      BY <3>1, <3>3 DEF HandInv, OutInv, Safe
    <3>4. CASE ~(sendQ[f] > 0) /\ ~Sends(f)
      <4>1. sendQ[f] = 0
        BY <3>4 DEF TypeOK
      <4>2. Settled(d, f)
        BY <3>1, <3>4, <4>1 DEF HandInv, SentInv
      <4>3. QED
        BY <3>2, <4>2 DEF Settled, Safe
    <3>5. QED
      BY <3>3, <3>4
  <2>3. QED
    BY <2>1, <2>2
<1>2. QED
  BY <1>1, CalmInvariant, CloudTypeCorrect, PTL
=============================================================================
