------------------------------ MODULE CloudSync ------------------------------
(***************************************************************************)
(* One client of cloud_sync (cloud_sync/src/client.go, transfer.go,        *)
(* server.go, db.go) without tar mode: files that appear in the client's   *)
(* source directory are sent to every server.  A file that could not be    *)
(* sent is recorded in the client's database, copied to the error          *)
(* directory and retried from there; files that are done are deleted by a  *)
(* thread of their own.                                                    *)
(*                                                                         *)
(* The send thread, one retry thread per server, the clear thread and the  *)
(* goroutine of sortFailures run concurrently.  A database operation is    *)
(* atomic (rwMutex), addFailure and removeFailure are two of them each.    *)
(* The copy into the error directory is a truncation and a filling.  A     *)
(* transfer request, its service by the transfer stage and the response    *)
(* are one step, at the moment the file is read: the requester waits, the  *)
(* stage serves one at a time and nobody else writes to the destination. A *)
(* transfer that overlaps the filling of the file it reads is a step       *)
(* between the truncation and the filling.                                 *)
(***************************************************************************)
EXTENDS Naturals, Sequences, FiniteSets

CONSTANTS
  Files,       \* file names; each appears once
  Servers,     \* the servers the client is configured for
  Local,       \* those that are directories of this machine
  BufSz,       \* capacity of clearQ and of each retryQ
  RetryLimit,  \* failures after which the connection is re-established
  FaultKinds,  \* which faults may occur
  MaxFaults    \* bound on how many of them occur in a behaviour

(* "net"   a server is unreachable      "cut"  a transfer breaks off       *)
(* "tear"  it breaks off and leaves a truncated file at the destination    *)
(* "crash" the process dies             "torn" it dies in a transfer       *)
(* "copy"  the copy to error/ fails     "db"   a database write fails      *)
(* "rm"    os.Remove fails              "dup"  a file is closed twice      *)
AllFaultKinds ==
  {"net", "cut", "tear", "crash", "torn", "copy", "db", "rm", "dup"}

ASSUME CloudSyncAssumption ==
  /\ Servers # {} /\ Local \subseteq Servers
  /\ BufSz \in Nat \ {0}
  /\ RetryLimit \in Nat
  /\ FaultKinds \subseteq AllFaultKinds
  /\ MaxFaults \in Nat

VARIABLES
  fresh,   \* files that do not exist yet
  src,     \* src[f]: what is in the source directory
  err,     \* err[f]: what is in its error directory
  db,      \* db[f]: the servers recorded as failed; {} is no entry
  dst,     \* dst[s][f]: what is at server s
  acked,   \* acked[s]: files a transfer to s was reported successful for
  net,     \* net[s]: server s can be reached
  up,      \* the process is running
  sendQ,   \* sendQ[f]: how often f waits in the new files buffer
  snd,     \* the send thread
  retryQ,  \* retryQ[s]: files to retry
  rt,      \* rt[s]: the retry thread of server s
  clearQ,  \* paths to delete
  clr,     \* a path the clear thread failed to delete
  refill,  \* files of the error directory sortFailures has yet to handle
  srt,     \* the goroutine of sortFailures
  conn,    \* conn[s]: the transfer stage of server s
  faults,  \* faults still allowed
  calm     \* no process death, repeated event or failing copy so far

disk == <<fresh, src, err, db>>
remote == <<dst, acked, net, conn>>
threads == <<up, sendQ, snd, retryQ, rt, clearQ, clr, refill, srt>>
vars == <<disk, remote, threads, faults, calm>>

(* "open" is a file that copy() has created and not yet filled.            *)
Content == {"none", "open", "part", "whole"}
Path == [dir : {"src", "error"}, file : Files]

(* file, todo and failed are the variables of send(), serv and retry the   *)
(* server that failed and whether it is worth a retry, val what addFailure *)
(* got from the database, data what copy() reads from the source file it   *)
(* opened.                                                                 *)
SendPoints == {"idle", "next", "get", "set", "copy", "fill", "queue"}
SendIdle == [at |-> "idle"]
Sending ==
  [at : SendPoints \ {"idle"}, file : Files, todo : SUBSET Servers,
   failed : BOOLEAN, serv : Servers, retry : BOOLEAN, val : SUBSET Servers,
   data : Content]

RetryIdle == [at |-> "idle"]
Retrying ==
  [at : {"transfer", "again", "get", "put", "clear"}, file : Files,
   val : SUBSET Servers]

SortIdle == [at |-> "idle"]
Sorting == [at : {"rename", "push"}, file : Files, val : SUBSET Servers]

NoPath == [dir |-> "none"]

-----------------------------------------------------------------------------
(* acked and calm are read by the properties only.                         *)
Unsettling == {"crash", "torn", "dup", "copy"}

Spend(kind) ==
  /\ kind \in FaultKinds /\ faults > 0 /\ faults' = faults - 1
  /\ calm' = (calm /\ kind \notin Unsettling)
Free == UNCHANGED <<faults, calm>>

HasRoom(q) == Len(q) < BufSz

(* Set of the database, and Remove when v is empty; an error is logged.    *)
Put(f, v) ==
  \/ Free /\ db' = [db EXCEPT ![f] = v]
  \/ Spend("db") /\ UNCHANGED db

(* initConnection: nothing to do for a local server.                       *)
initConnection(s) == [ok |-> net[s] \/ s \in Local, fails |-> 0]

(* The transfer stage counts an error; at the limit it goes into bad       *)
(* connection mode.  A success does not reset the count.                   *)
Failed(c) == [ok |-> c.fails + 1 < RetryLimit, fails |-> c.fails + 1]

Results == {"ok", "retryable", "final"}

(* What is found in a file: while it is being filled, a part of it.        *)
Reads(x) == IF x = "open" THEN "part" ELSE x

(* One attempt at file f, whose content in the requester's directory is x, *)
(* with the result for the requester.  Nothing tells a truncated file from *)
(* a short one.                                                            *)
Arrives(s, f, x, result) ==
  /\ x # "none" /\ net[s] /\ result = "ok"
  /\ dst' = [dst EXCEPT ![s][f] = Reads(x)]
  /\ acked' = [acked EXCEPT ![s] = @ \cup {f}]
  /\ UNCHANGED conn /\ Free

(* A local server is a directory: no error of copy() is worth a retry.     *)
copy(s, f, x, result) ==
  \/ Arrives(s, f, x, result)
  \/ /\ result = "final"
     /\ conn' = [conn EXCEPT ![s] = Failed(@)]
     /\ \/ (x = "none" \/ ~net[s]) /\ Free /\ UNCHANGED dst
        \/ /\ x # "none" /\ net[s] /\ Spend("tear")
           /\ dst' = [dst EXCEPT ![s][f] = "part"]
     /\ UNCHANGED acked

(* scp, uploadSFTP and uploadS3: only a missing source file is final.  An  *)
(* error may come before, within or after the last byte, and when the file *)
(* is not of the length that was announced.                                *)
upload(s, f, x, result) ==
  \/ Arrives(s, f, x, result)
  \/ /\ result = IF x = "none" THEN "final" ELSE "retryable"
     /\ conn' = [conn EXCEPT ![s] = Failed(@)]
     /\ \/ (x = "none" \/ ~net[s]) /\ Free /\ UNCHANGED dst
        \/ /\ x # "none" /\ net[s]
           /\ \/ Spend("cut") /\ UNCHANGED dst
              \/ Spend("cut") /\ dst' = [dst EXCEPT ![s][f] = Reads(x)]
              \/ Spend("tear") /\ dst' = [dst EXCEPT ![s][f] = "part"]
        \/ /\ x = "open" /\ net[s] /\ Free
           /\ UNCHANGED dst \/ dst' = [dst EXCEPT ![s][f] = "part"]
     /\ UNCHANGED acked

handleTransferRequest(s, f, x, result) ==
  /\ IF s \in Local THEN copy(s, f, x, result) ELSE upload(s, f, x, result)
  /\ UNCHANGED net

-----------------------------------------------------------------------------
(* A file appears; monitor() sees it and puts it into the send queue.      *)
NewFile(f) ==
  /\ f \in fresh
  /\ fresh' = fresh \ {f}
  /\ src' = [src EXCEPT ![f] = "whole"]
  /\ sendQ' = IF up THEN [sendQ EXCEPT ![f] = @ + 1] ELSE sendQ
  /\ Free
  /\ UNCHANGED <<err, db, remote, up, snd, retryQ, rt, clearQ, clr, refill, srt>>

(* Its writer closes it a second time.                                     *)
SecondEvent(f) ==
  /\ up /\ src[f] # "none"
  /\ Spend("dup")
  /\ sendQ' = [sendQ EXCEPT ![f] = @ + 1]
  /\ UNCHANGED <<disk, remote, up, snd, retryQ, rt, clearQ, clr, refill, srt>>

-----------------------------------------------------------------------------
(* Variant: the send thread does not wait for a file.                      *)
SendTakeAny(f) ==
  /\ up /\ snd.at = "idle" /\ src[f] # "none"
  /\ sendQ' = [sendQ EXCEPT ![f] = @ - 1]
  /\ snd' = [at |-> "next", file |-> f, todo |-> Servers, failed |-> FALSE,
             serv |-> CHOOSE s \in Servers : TRUE, retry |-> FALSE, val |-> {},
             data |-> "none"]
  /\ Free
  /\ UNCHANGED <<disk, remote, up, retryQ, rt, clearQ, clr, refill, srt>>

(* The send thread.  The new files buffer is a stack with a buffered       *)
(* output; the order in which files leave it, and the order of the         *)
(* servers, are left open.                                                 *)
SendTake(f) ==
  /\ up /\ snd.at = "idle" /\ sendQ[f] > 0
  /\ sendQ' = [sendQ EXCEPT ![f] = @ - 1]
  /\ snd' = [at |-> "next", file |-> f, todo |-> Servers, failed |-> FALSE,
             serv |-> CHOOSE s \in Servers : TRUE, retry |-> FALSE, val |-> {},
             data |-> "none"]
  /\ Free
  /\ UNCHANGED <<disk, remote, up, retryQ, rt, clearQ, clr, refill, srt>>

(* The next server; in bad connection mode the request is rejected.        *)
SendTransfer(s) ==
  /\ up /\ snd.at = "next" /\ s \in snd.todo
  /\ LET rest == [snd EXCEPT !.todo = @ \ {s}]
         failure(again) == [rest EXCEPT !.at = "get", !.serv = s, !.retry = again]
     IN \/ /\ ~conn[s].ok
           /\ snd' = failure(TRUE)
           /\ UNCHANGED remote /\ Free
        \/ /\ conn[s].ok
           /\ \E result \in Results :
                /\ handleTransferRequest(s, snd.file, src[snd.file], result)
                /\ snd' = IF result = "ok" THEN rest ELSE failure(result = "retryable")
  /\ UNCHANGED <<disk, up, sendQ, retryQ, rt, clearQ, clr, refill, srt>>

(* addFailure: Get, then Set.                                              *)
AddFailureGet ==
  /\ up /\ snd.at = "get"
  /\ snd' = [snd EXCEPT !.at = "set", !.val = db[snd.file]]
  /\ Free
  /\ UNCHANGED <<disk, remote, up, sendQ, retryQ, rt, clearQ, clr, refill, srt>>

AfterRecording(t) ==
  IF ~t.failed THEN "copy" ELSE IF t.retry THEN "queue" ELSE "next"

AddFailureSet ==
  /\ up /\ snd.at = "set"
  /\ Put(snd.file, snd.val \cup {snd.serv})
  /\ snd' = [snd EXCEPT !.at = AfterRecording(snd), !.val = {}]
  /\ UNCHANGED <<fresh, src, err, remote, up, sendQ, retryQ, rt, clearQ, clr,
                 refill, srt>>

(* The file is copied once; an error is only logged.  copy() opens the     *)
(* source file, creates or truncates the one in the error directory ...    *)
AfterCopy(t) ==
  [t EXCEPT !.at = IF t.retry THEN "queue" ELSE "next", !.failed = TRUE,
            !.data = "none"]

CopyToError ==
  /\ up /\ snd.at = "copy"
  /\ LET content == src[snd.file]
     IN \/ /\ content = "none" /\ Free
           /\ snd' = AfterCopy(snd)
           /\ UNCHANGED err
        \/ /\ content # "none" /\ Spend("copy")
           /\ snd' = AfterCopy(snd)
           /\ UNCHANGED err
        \/ /\ content # "none" /\ Free
           /\ snd' = [snd EXCEPT !.at = "fill", !.data = content]
           /\ err' = [err EXCEPT ![snd.file] = "open"]
  /\ UNCHANGED <<fresh, src, db, remote, up, sendQ, retryQ, rt, clearQ, clr,
                 refill, srt>>

(* ... and fills it, wherever it is by then: the retry thread may have had *)
(* it deleted, sortFailures may have moved it to the source directory.     *)
(* There, closing it is an event of its own for the watcher.               *)
FillErrorCopy ==
  /\ up /\ snd.at = "fill"
  /\ \E content \in {snd.data, "part"} :
       /\ IF content = snd.data THEN Free ELSE Spend("copy")
       /\ LET filled(place) ==
                [f \in Files |-> IF f = snd.file /\ place[f] = "open" THEN content
                                ELSE place[f]]
          IN src' = filled(src) /\ err' = filled(err)
  /\ sendQ' = IF src[snd.file] = "open" THEN [sendQ EXCEPT ![snd.file] = @ + 1]
              ELSE sendQ
  /\ snd' = AfterCopy(snd)
  /\ UNCHANGED <<fresh, db, remote, up, retryQ, rt, clearQ, clr, refill, srt>>

QueueRetry ==
  /\ up /\ snd.at = "queue" /\ HasRoom(retryQ[snd.serv])
  /\ retryQ' = [retryQ EXCEPT ![snd.serv] = Append(@, snd.file)]
  /\ snd' = [snd EXCEPT !.at = "next"]
  /\ Free
  /\ UNCHANGED <<disk, remote, up, sendQ, rt, clearQ, clr, refill, srt>>

(* Variant: the file is given up after the first failure.                  *)
QueueClearEarly ==
  /\ up /\ snd.at \in {"next", "get"} /\ HasRoom(clearQ)
  /\ snd.todo = {}
  /\ clearQ' = Append(clearQ, [dir |-> "src", file |-> snd.file])
  /\ snd' = SendIdle
  /\ Free
  /\ UNCHANGED <<disk, remote, up, sendQ, retryQ, rt, clr, refill, srt>>

(* Every server was tried: the source file is to be deleted.               *)
QueueClear ==
  /\ up /\ snd.at = "next" /\ snd.todo = {} /\ HasRoom(clearQ)
  /\ clearQ' = Append(clearQ, [dir |-> "src", file |-> snd.file])
  /\ snd' = SendIdle
  /\ Free
  /\ UNCHANGED <<disk, remote, up, sendQ, retryQ, rt, clr, refill, srt>>
-----------------------------------------------------------------------------
(* The retry thread of server s *)

RetryTake(s) ==
  /\ up /\ rt[s].at = "idle" /\ retryQ[s] # <<>>
  /\ rt' = [rt EXCEPT ![s] = [at |-> "transfer", file |-> Head(retryQ[s]), val |-> {}]]
  /\ retryQ' = [retryQ EXCEPT ![s] = Tail(@)]
  /\ Free
  /\ UNCHANGED <<disk, remote, up, sendQ, snd, clearQ, clr, refill, srt>>

(* Variants: a retryable error counts as a success; every error is tried   *)
(* again.                                                                  *)
AfterRetryIgnoringErrors(t, result) ==
  IF result = "final" THEN RetryIdle ELSE [t EXCEPT !.at = "get"]
AfterRetryAlwaysAgain(t, result) ==
  [t EXCEPT !.at = IF result = "ok" THEN "get" ELSE "again"]

(* In bad connection mode the request waits.                               *)
AfterRetry(t, result) ==
  CASE result = "ok" -> [t EXCEPT !.at = "get"]
    [] result = "retryable" -> [t EXCEPT !.at = "again"]
    [] result = "final" -> RetryIdle

RetryTransfer(s) ==
  /\ up /\ rt[s].at = "transfer" /\ conn[s].ok
  /\ \E result \in Results :
       /\ handleTransferRequest(s, rt[s].file, err[rt[s].file], result)
       /\ rt' = [rt EXCEPT ![s] = AfterRetry(@, result)]
  /\ UNCHANGED <<disk, up, sendQ, snd, retryQ, clearQ, clr, refill, srt>>

(* The thread puts the file back into the queue it alone empties.          *)
RetryAgain(s) ==
  /\ up /\ rt[s].at = "again" /\ HasRoom(retryQ[s])
  /\ retryQ' = [retryQ EXCEPT ![s] = Append(@, rt[s].file)]
  /\ rt' = [rt EXCEPT ![s] = RetryIdle]
  /\ Free
  /\ UNCHANGED <<disk, remote, up, sendQ, snd, clearQ, clr, refill, srt>>

(* removeFailure: Get, then Set or Remove.                                 *)
RemoveFailureGet(s) ==
  /\ up /\ rt[s].at = "get"
  /\ rt' = [rt EXCEPT ![s].at = IF db[rt[s].file] = {} THEN "clear" ELSE "put",
                      ![s].val = db[rt[s].file] \ {s}]
  /\ Free
  /\ UNCHANGED <<disk, remote, up, sendQ, snd, retryQ, clearQ, clr, refill, srt>>

RemoveFailurePut(s) ==
  /\ up /\ rt[s].at = "put"
  /\ Put(rt[s].file, rt[s].val)
  /\ rt' = [rt EXCEPT ![s] = IF @.val = {} THEN [@ EXCEPT !.at = "clear"]
                             ELSE RetryIdle]
  /\ UNCHANGED <<fresh, src, err, remote, up, sendQ, snd, retryQ, clearQ, clr,
                 refill, srt>>

RetryClear(s) ==
  /\ up /\ rt[s].at = "clear" /\ HasRoom(clearQ)
  /\ clearQ' = Append(clearQ, [dir |-> "error", file |-> rt[s].file])
  /\ rt' = [rt EXCEPT ![s] = RetryIdle]
  /\ Free
  /\ UNCHANGED <<disk, remote, up, sendQ, snd, retryQ, clr, refill, srt>>

-----------------------------------------------------------------------------
(* The clear thread.  A path that does not exist is dropped, any other     *)
(* failure goes back into the queue.                                       *)
Clear ==
  /\ up /\ clr = NoPath /\ clearQ # <<>>
  /\ LET p == Head(clearQ)
     IN \/ /\ Free
           /\ src' = IF p.dir = "src" THEN [src EXCEPT ![p.file] = "none"] ELSE src
           /\ err' = IF p.dir = "error" THEN [err EXCEPT ![p.file] = "none"] ELSE err
           /\ UNCHANGED clr
        \/ /\ Spend("rm")
           /\ clr' = p
           /\ UNCHANGED <<src, err>>
  /\ clearQ' = Tail(clearQ)
  /\ UNCHANGED <<fresh, db, remote, up, sendQ, snd, retryQ, rt, refill, srt>>

(* Variant: a path that could not be deleted is given up.                  *)
ClearAgainNever ==
  /\ up /\ clr # NoPath
  /\ clr' = NoPath
  /\ Free
  /\ UNCHANGED <<disk, remote, up, sendQ, snd, retryQ, rt, clearQ, refill, srt>>

ClearAgain ==
  /\ up /\ clr # NoPath /\ HasRoom(clearQ)
  /\ clearQ' = Append(clearQ, clr)
  /\ clr' = NoPath
  /\ Free
  /\ UNCHANGED <<disk, remote, up, sendQ, snd, retryQ, rt, refill, srt>>

-----------------------------------------------------------------------------
(* sortFailures: addFileToRetryFromError for each file that was in the     *)
(* error directory when the process started.                               *)
SortTake(f) ==
  /\ up /\ srt.at = "idle" /\ f \in refill
  /\ refill' = refill \ {f}
  /\ srt' = [at |-> IF db[f] = {} THEN "rename" ELSE "push",
             file |-> f, val |-> db[f]]
  /\ Free
  /\ UNCHANGED <<disk, remote, up, sendQ, snd, retryQ, rt, clearQ, clr>>

(* No entry: the file is moved back and, by the watcher, queued again.     *)
SortRename ==
  /\ up /\ srt.at = "rename"
  /\ IF err[srt.file] = "none" THEN UNCHANGED <<src, err, sendQ>>
     ELSE /\ src' = [src EXCEPT ![srt.file] = err[srt.file]]
          /\ err' = [err EXCEPT ![srt.file] = "none"]
          /\ sendQ' = [sendQ EXCEPT ![srt.file] = @ + 1]
  /\ srt' = SortIdle
  /\ Free
  /\ UNCHANGED <<fresh, db, remote, up, snd, retryQ, rt, clearQ, clr, refill>>

(* One queue after the other, in the order of a map: any.                  *)
SortPush(s) ==
  /\ up /\ srt.at = "push" /\ s \in srt.val /\ HasRoom(retryQ[s])
  /\ retryQ' = [retryQ EXCEPT ![s] = Append(@, srt.file)]
  /\ srt' = IF srt.val = {s} THEN SortIdle ELSE [srt EXCEPT !.val = @ \ {s}]
  /\ Free
  /\ UNCHANGED <<disk, remote, up, sendQ, snd, rt, clearQ, clr, refill>>

-----------------------------------------------------------------------------
(* Connections *)

(* asyncReestablishConnection succeeds.                                    *)
Reestablish(s) ==
  /\ up /\ ~conn[s].ok /\ net[s]
  /\ conn' = [conn EXCEPT ![s] = [ok |-> TRUE, fails |-> 0]]
  /\ Free
  /\ UNCHANGED <<disk, dst, acked, net, threads>>

(* A keep-alive of an idle SSH connection fails.                           *)
KeepAliveFails(s) ==
  /\ up /\ conn[s].ok /\ ~net[s] /\ s \notin Local
  /\ conn' = [conn EXCEPT ![s].ok = FALSE]
  /\ Free
  /\ UNCHANGED <<disk, dst, acked, net, threads>>

NetDown(s) ==
  /\ net[s]
  /\ Spend("net")
  /\ net' = [net EXCEPT ![s] = FALSE]
  /\ UNCHANGED <<disk, dst, acked, conn, threads>>

NetUp(s) ==
  /\ ~net[s]
  /\ net' = [net EXCEPT ![s] = TRUE]
  /\ Free
  /\ UNCHANGED <<disk, dst, acked, conn, threads>>

-----------------------------------------------------------------------------
(* The process *)

(* Everything but the disk is lost; a file that was being filled stays as  *)
(* it is.                                                                  *)
Ended ==
  /\ src' = [f \in Files |-> Reads(src[f])]
  /\ err' = [f \in Files |-> Reads(err[f])]
  /\ up' = FALSE
  /\ sendQ' = [f \in Files |-> 0]
  /\ snd' = SendIdle
  /\ retryQ' = [s \in Servers |-> <<>>]
  /\ rt' = [s \in Servers |-> RetryIdle]
  /\ clearQ' = <<>>
  /\ clr' = NoPath
  /\ refill' = {}
  /\ srt' = SortIdle
  /\ conn' = [s \in Servers |-> [ok |-> FALSE, fails |-> 0]]

Crash ==
  /\ up
  /\ Spend("crash")
  /\ Ended
  /\ UNCHANGED <<fresh, db, dst, acked, net>>

(* Files whose transfer to s may be under way.                             *)
InTransfer(s) ==
  {f \in Files :
     \/ snd.at = "next" /\ snd.file = f /\ s \in snd.todo /\ src[f] # "none"
     \/ rt[s].at = "transfer" /\ rt[s].file = f /\ err[f] # "none"}

CrashInTransfer(s) ==
  /\ up /\ conn[s].ok /\ net[s]
  /\ Spend("torn")
  /\ \E f \in InTransfer(s) : dst' = [dst EXCEPT ![s][f] = "part"]
  /\ Ended
  /\ UNCHANGED <<fresh, db, acked, net>>

(* Variant: sortFailures is not called.                                    *)
RestartWithoutFailures ==
  /\ ~up
  /\ up' = TRUE
  /\ sendQ' = [f \in Files |-> IF src[f] = "none" THEN 0 ELSE 1]
  /\ refill' = {}
  /\ conn' = [s \in Servers |-> initConnection(s)]
  /\ Free
  /\ UNCHANGED <<disk, dst, acked, net, snd, retryQ, rt, clearQ, clr, srt>>

(* main(), createClient and initConnection: what is in the source          *)
(* directory is queued, what is in the error directory is left to          *)
(* sortFailures.                                                           *)
Restart ==
  /\ ~up
  /\ up' = TRUE
  /\ sendQ' = [f \in Files |-> IF src[f] = "none" THEN 0 ELSE 1]
  /\ refill' = {f \in Files : err[f] # "none"}
  /\ conn' = [s \in Servers |-> initConnection(s)]
  /\ Free
  /\ UNCHANGED <<disk, dst, acked, net, snd, retryQ, rt, clearQ, clr, srt>>

-----------------------------------------------------------------------------
Init ==
  /\ fresh = Files
  /\ src = [f \in Files |-> "none"]
  /\ err = [f \in Files |-> "none"]
  /\ db = [f \in Files |-> {}]
  /\ dst = [s \in Servers |-> [f \in Files |-> "none"]]
  /\ acked = [s \in Servers |-> {}]
  /\ net = [s \in Servers |-> TRUE]
  /\ up = FALSE
  /\ sendQ = [f \in Files |-> 0]
  /\ snd = SendIdle
  /\ retryQ = [s \in Servers |-> <<>>]
  /\ rt = [s \in Servers |-> RetryIdle]
  /\ clearQ = <<>>
  /\ clr = NoPath
  /\ refill = {}
  /\ srt = SortIdle
  /\ conn = [s \in Servers |-> [ok |-> FALSE, fails |-> 0]]
  /\ faults = MaxFaults
  /\ calm = TRUE

SendStep ==
  \/ \E f \in Files : SendTake(f)
  \/ \E s \in Servers : SendTransfer(s)
  \/ AddFailureGet \/ AddFailureSet \/ CopyToError \/ FillErrorCopy
  \/ QueueRetry \/ QueueClear

RetryStep(s) ==
  \/ RetryTake(s) \/ RetryTransfer(s) \/ RetryAgain(s)
  \/ RemoveFailureGet(s) \/ RemoveFailurePut(s) \/ RetryClear(s)

ClearStep == Clear \/ ClearAgain

SortStep ==
  SortRename \/ (\E f \in Files : SortTake(f)) \/ (\E s \in Servers : SortPush(s))

ConnectionStep(s) == Reestablish(s) \/ KeepAliveFails(s)

Next ==
  \/ SendStep \/ ClearStep \/ SortStep \/ Crash \/ Restart
  \/ \E f \in Files : NewFile(f) \/ SecondEvent(f)
  \/ \E s \in Servers :
       \/ RetryStep(s) \/ ConnectionStep(s) \/ NetDown(s) \/ NetUp(s)
       \/ CrashInTransfer(s)

Spec == Init /\ [][Next]_vars

(* Every goroutine keeps running, a server that is down comes back, and    *)
(* systemd restarts the process (Restart=always).                          *)
Fairness ==
  /\ WF_vars(SendStep) /\ WF_vars(ClearStep) /\ WF_vars(SortStep)
  /\ WF_vars(Restart)
  /\ \A s \in Servers :
       WF_vars(RetryStep(s)) /\ WF_vars(Reestablish(s)) /\ WF_vars(NetUp(s))

FairSpec == Spec /\ Fairness

-----------------------------------------------------------------------------
(* The disk, the servers, the threads and their queues stay well formed    *)
(* (client.go, transfer.go, server.go, db.go).                             *)
TypeOK ==
  /\ fresh \subseteq Files
  /\ src \in [Files -> Content]
  /\ err \in [Files -> Content]
  /\ db \in [Files -> SUBSET Servers]
  /\ dst \in [Servers -> [Files -> Content]]
  /\ acked \in [Servers -> SUBSET Files]
  /\ net \in [Servers -> BOOLEAN]
  /\ up \in BOOLEAN
  /\ sendQ \in [Files -> Nat]
  /\ snd \in Sending \cup {SendIdle}
  /\ retryQ \in [Servers -> Seq(Files)]
  /\ rt \in [Servers -> Retrying \cup {RetryIdle}]
  /\ clearQ \in Seq(Path)
  /\ clr \in Path \cup {NoPath}
  /\ refill \subseteq Files
  /\ srt \in Sorting \cup {SortIdle}
  /\ conn \in [Servers -> [ok : BOOLEAN, fails : Nat]]
  /\ faults \in 0..MaxFaults
  /\ calm \in BOOLEAN

(* A file that a server does not have whole can still reach it: it is in   *)
(* the source directory, or in the error directory with the server         *)
(* recorded (or without any record, which sends it to all servers).        *)
Safe(f, s) ==
  \/ dst[s][f] = "whole"
  \/ src[f] = "whole"
  \/ err[f] = "whole" /\ (db[f] = {} \/ s \in db[f])

(* No file is lost, whatever the order of the threads and however often    *)
(* servers disappear, transfers break off, deletes and database writes     *)
(* fail (client.go: send, retry, clear).  It needs that the process did    *)
(* not die and no event was repeated: after either, the retry thread may   *)
(* upload the copy in the error directory while send() fills it anew, and  *)
(* a truncated upload counts as a success (client.go:214, transfer.go:273).*)
NoLoss == calm => \A f \in Files \ fresh, s \in Servers : Safe(f, s)

(* While the process runs, no file in the source directory is forgotten:   *)
(* it waits to be sent, is being sent, or is about to be deleted.  What    *)
(* monitor, send, clear and sortFailures hand to each other needs no       *)
(* restart to be found again (client.go: monitor, send, clear,             *)
(* addFileToRetryFromError).                                               *)
Clearing(p) == clr = p \/ \E i \in 1..Len(clearQ) : clearQ[i] = p

SourceInHand ==
  \A f \in Files :
    up /\ src[f] # "none" =>
      \/ sendQ[f] > 0
      \/ snd.at # "idle" /\ snd.file = f
      \/ Clearing([dir |-> "src", file |-> f])

(* Once faults stop, the program comes to rest: every thread idle, every   *)
(* queue and the source directory empty (no retry loop, no blocked queue). *)
AtRest ==
  /\ up /\ snd = SendIdle /\ clearQ = <<>> /\ clr = NoPath
  /\ srt = SortIdle /\ refill = {}
  /\ \A s \in Servers : rt[s] = RetryIdle /\ retryQ[s] = <<>>
  /\ \A f \in Files : src[f] = "none" /\ sendQ[f] = 0

ComesToRest == <>[]AtRest

(* A transfer of every file to every server succeeds in the end and the    *)
(* file leaves the source directory, whatever happened before; without a   *)
(* process death, a repeated event or a failing copy the server then has   *)
(* it whole and the error directory is empty as well (client.go: send,     *)
(* retry, clear, sortFailures).                                            *)
EverythingDelivered ==
  \A f \in Files :
    f \notin fresh ~>
      /\ src[f] = "none"
      /\ \A s \in Servers : f \in acked[s]
      /\ calm => err[f] = "none" /\ \A s \in Servers : dst[s][f] = "whole"

(* The threads, queues, directories and the database together implement a  *)
(* store that forwards files: a file that appeared is kept, in one of the  *)
(* two directories, until a transfer of it succeeded (client.go: send,     *)
(* retry, clear, sortFailures).                                            *)
In(place) == {f \in Files : place[f] # "none"}

Store == INSTANCE StoreForward WITH
  arrived <- Files \ fresh,
  kept <- In(src) \cup In(err),
  delivered <- acked

ImplementsStore == Store!Spec
=============================================================================
