----------------------------- MODULE EssActions -----------------------------
(* The automated maintenance actions of an energy storage asset of         *)
(* site_controller (Action.cpp, Asset.cpp, Asset_ESS.cpp). An operator     *)
(* starts, stops and clears the configured actions while the asset is in   *)
(* maintenance mode; every iteration of the control loop moves the action  *)
(* that is running one call further. An action may name a shutdown action, *)
(* which runs after it whatever way it ends. Operator messages and         *)
(* iterations are handled by one thread and alternate.                     *)
(*                                                                         *)
(* The asset remembers the running action twice: by its name               *)
(* (action_status.current_sequence_name) and by a pointer to it            *)
(* (quick_action_access), which is looked up when it is null.              *)
EXTENDS SequenceEngine

CONSTANTS
  Actions,      \* the actions an operator can start
  Shutdowns,    \* the actions configured with is_shutdown_sequence
  ShutdownOf,   \* the shutdown_sequence of an action, NoAction for none
  Paths,        \* the configured paths of every action
  LeavesMaint,  \* {<<action, path, step>>} whose entry ends maintenance mode
  MaxExits,     \* no step has more exit conditions
  MaintHeld,    \* TRUE: the operator does not end maintenance mode under an action
                \* with a shutdown action, and after ending it under another action
                \* starts that one again before any other
  NoAction,     \* the empty name, the null pointer
  Wild          \* the pointer as the constructor leaves it

All == Actions \cup Shutdowns

(* An action without a shutdown action.                                    *)
Plain(a) == a \in Actions /\ ShutdownOf[a] = NoAction

ASSUME ConfigAssumption ==
  /\ Actions \cap Shutdowns = {}
  /\ NoAction \notin All /\ Wild \notin All /\ Wild # NoAction
  /\ ShutdownOf \in [All -> Shutdowns \cup {NoAction}]
  /\ \A s \in Shutdowns : ShutdownOf[s] = NoAction
  /\ DOMAIN Paths = All
  /\ \A a \in All : IsConfig(Paths[a])
  /\ \A a \in All : \A p \in DOMAIN Paths[a] : \A i \in DOMAIN Paths[a][p].steps :
       Len(Paths[a][p].steps[i].exits) <= MaxExits
  /\ \A e \in LeavesMaint : MaintHeld => Plain(e[1])
  /\ MaintHeld \in BOOLEAN /\ MaxExits \in Nat

VARIABLES
  sequence,     \* the sequence record of every action
  status,       \* ACTION_STATUS_STATE of every action
  status_swap,  \* the status an exiting action takes when its shutdown ends
  current,      \* action_status.current_sequence_name
  quick,        \* quick_action_access
  timer,        \* action_status.exit_target_time
  maint,        \* inMaintenance
  lockdown,     \* inLockdown
  faulted,      \* get_num_active_faults() # 0
  clearing,     \* clear_fault_registers_flag
  alive         \* FALSE once the process has died

vars == <<sequence, status, status_swap, current, quick, timer, maint,
          lockdown, faulted, clearing, alive>>

Statuses == {"INACTIVE", "IN_PROGRESS", "COMPLETED", "FAILED", "ABORTED", "EXITING"}

Typed ==
  /\ DOMAIN sequence = All
  /\ \A a \in All : sequence[a] \in Sequence(Paths[a])
  /\ status \in [All -> Statuses]
  /\ status_swap \in [All -> Statuses]
  /\ current \in All \cup {NoAction}
  /\ quick \in All \cup {NoAction, Wild}
  /\ timer \in Nat
  /\ maint \in BOOLEAN /\ lockdown \in BOOLEAN
  /\ faulted \in BOOLEAN /\ clearing \in BOOLEAN /\ alive \in BOOLEAN

(* An action that the name or the pointer leads to stands at a step.       *)
Placed == \A a \in All : a \in {current, quick} => AtStep(Paths[a], sequence[a])

(* The state is well formed, and the step an iteration reads exists,       *)
(* wherever the last run of the action was left (Action::enter_automation, *)
(* Sequence::call_sequence).                                               *)
TypeOK == Typed /\ Placed

(* No constructor initialises quick_action_access or inLockdown.           *)
Init ==
  /\ sequence = [a \in All |-> NewSequence(Paths[a])]
  /\ status = [a \in All |-> "INACTIVE"]
  /\ status_swap = [a \in All |-> "INACTIVE"]
  /\ current = NoAction
  /\ quick \in {NoAction, Wild}
  /\ timer = 0
  /\ maint = FALSE /\ lockdown \in BOOLEAN
  /\ faulted = FALSE /\ clearing = FALSE
  /\ alive = TRUE

-----------------------------------------------------------------------------
(* Operations of class Action.                                             *)

(* Variant: the steps are not reset.                                       *)
enter_automationWhereItWas(q) == q

enter_automation(q) == reset_sequence(q)

(* Variant: the pointer stays on the action that exits.                    *)
exit_automationKeepsPointer(a, st, seqs) ==
  LET sd == ShutdownOf[a]
  IN  \/ /\ sd = NoAction
         /\ sequence' = seqs
         /\ status' = [x \in All |->
              IF x = a THEN st
              ELSE IF a \in Shutdowns /\ x \in Actions /\ status[x] = "EXITING"
                THEN status_swap[x] ELSE status[x]]
         /\ current' = NoAction
         /\ quick' = NoAction
         /\ UNCHANGED status_swap
      \/ /\ sd # NoAction
         /\ sequence' = [seqs EXCEPT ![sd] = enter_automation(@)]
         /\ status' = [status EXCEPT ![a] = "EXITING", ![sd] = "IN_PROGRESS"]
         /\ status_swap' = [status_swap EXCEPT ![a] = st]
         /\ current' = sd
         /\ quick' = a

(* Leaves action a with status st; seqs are the sequences so far. With a   *)
(* shutdown action, a is exiting until that one ends; a shutdown action    *)
(* settles whatever action is exiting.                                     *)
exit_automation(a, st, seqs) ==
  LET sd == ShutdownOf[a]
  IN  \/ /\ sd = NoAction
         /\ sequence' = seqs
         /\ status' = [x \in All |->
              IF x = a THEN st
              ELSE IF a \in Shutdowns /\ x \in Actions /\ status[x] = "EXITING"
                THEN status_swap[x] ELSE status[x]]
         /\ current' = NoAction
         /\ quick' = NoAction
         /\ UNCHANGED status_swap
      \/ /\ sd # NoAction
         /\ sequence' = [seqs EXCEPT ![sd] = enter_automation(@)]
         /\ status' = [status EXCEPT ![a] = "EXITING", ![sd] = "IN_PROGRESS"]
         /\ status_swap' = [status_swap EXCEPT ![a] = st]
         /\ current' = sd
         /\ quick' = sd

clear_action(a, seqs) ==
  /\ sequence' = [seqs EXCEPT ![a] = reset_sequence(@)]
  /\ status' = [status EXCEPT ![a] = "INACTIVE"]

-----------------------------------------------------------------------------
(* The operator's messages.                                                *)

(* Variant: an action is started beside the one running.                   *)
StartActionBeside(a) ==
  /\ alive /\ maint
  /\ sequence' = [sequence EXCEPT ![a] = enter_automation(@)]
  /\ status' = [status EXCEPT ![a] = "IN_PROGRESS"]
  /\ current' = a
  /\ UNCHANGED <<status_swap, quick, timer, maint, lockdown, faulted, clearing, alive>>

StartAction(a) ==
  /\ alive /\ current = NoAction /\ maint
  /\ MaintHeld => quick \notin All \ {a}
  /\ sequence' = [sequence EXCEPT ![a] = enter_automation(@)]
  /\ status' = [status EXCEPT ![a] = "IN_PROGRESS"]
  /\ current' = a
  /\ UNCHANGED <<status_swap, quick, timer, maint, lockdown, faulted, clearing, alive>>

ClearAction(a) ==
  /\ alive /\ status[a] \notin {"IN_PROGRESS", "EXITING"}
  /\ clear_action(a, sequence)
  /\ UNCHANGED <<status_swap, current, quick, timer, maint, lockdown, faulted, clearing, alive>>

StopAction(a) ==
  /\ alive /\ current = a /\ status[a] = "IN_PROGRESS"
  /\ exit_automation(a, "ABORTED", sequence)
  /\ UNCHANGED <<timer, maint, lockdown, faulted, clearing, alive>>

EnterMaint ==
  /\ alive /\ ~maint
  /\ maint' = TRUE /\ lockdown' = FALSE
  /\ UNCHANGED <<sequence, status, status_swap, current, quick, timer, faulted, clearing, alive>>

LeaveMaint ==
  /\ alive /\ maint /\ ~lockdown
  /\ MaintHeld => current = NoAction \/ Plain(current)
  /\ maint' = FALSE /\ lockdown' = FALSE
  /\ UNCHANGED <<sequence, status, status_swap, current, quick, timer, faulted, clearing, alive>>

(* Lockdown is accepted in maintenance mode only; outside of it a          *)
(* lockdown left over is dropped whatever the message says.                *)
SetLockdown(on) ==
  /\ alive /\ lockdown # (on /\ maint)
  /\ lockdown' = (on /\ maint)
  /\ UNCHANGED <<sequence, status, status_swap, current, quick, timer, maint, faulted, clearing, alive>>

clear_alerts ==
  /\ alive /\ ~clearing
  /\ clearing' = TRUE
  /\ UNCHANGED <<sequence, status, status_swap, current, quick, timer, maint, lockdown, faulted, alive>>

-----------------------------------------------------------------------------
(* One iteration: process_asset with the alerts of the asset, then         *)
(* process_asset_actions, then update_asset, which reads the clock.        *)

(* f: a fault is active once the requested clearing, if its second has     *)
(* passed, and the components' reports have been processed.                *)
Alerts(f) ==
  /\ f \/ ~faulted \/ clearing
  /\ clearing' \in IF clearing /\ (~faulted \/ f) THEN BOOLEAN ELSE {FALSE}

Ticked == [a \in All |-> TickSequence(sequence[a])]

(* The pointer wins over the name; it is looked up only when null.         *)
Target == IF quick = NoAction THEN current ELSE quick

NoCurrent ==
  /\ current = NoAction
  /\ sequence' = Ticked
  /\ timer' = Tick(timer)
  /\ UNCHANGED <<status, status_swap, current, quick, maint, alive>>

(* A call through a pointer nobody set: taken to end the process.          *)
WildPointer ==
  /\ current # NoAction /\ Target = Wild
  /\ alive' = FALSE
  /\ UNCHANGED <<sequence, status, status_swap, current, quick, timer, maint>>

(* Maintenance mode has ended: the action is cleared and its name, but not *)
(* the pointer.                                                            *)
Abandon ==
  /\ current # NoAction /\ Target \in All /\ ~maint
  /\ clear_action(Target, Ticked)
  /\ current' = NoAction
  /\ quick' = Target
  /\ timer' = Tick(timer)
  /\ UNCHANGED <<status_swap, maint, alive>>

(* Variant: the action fails at once, without its shutdown.                *)
FailOnFaultAtOnce ==
  /\ current # NoAction /\ Target \in Actions /\ maint
  /\ sequence' = Ticked
  /\ status' = [status EXCEPT ![Target] = "FAILED"]
  /\ current' = NoAction /\ quick' = NoAction
  /\ timer' = Tick(timer)
  /\ UNCHANGED <<status_swap, maint, alive>>

(* A fault ends every action but a shutdown action.                        *)
FailOnFault ==
  /\ current # NoAction /\ Target \in Actions /\ maint
  /\ exit_automation(Target, "FAILED", Ticked)
  /\ timer' = Tick(timer)
  /\ UNCHANGED <<maint, alive>>

(* Action::call_sequence. An action that completes in the iteration in     *)
(* which its step times out leaves twice, and the second status stays; the *)
(* message about the timeout then reads a step past the last one.          *)
CallSequence(ok, res, f) ==
  LET a  == Target
      s  == TickSequence(sequence[a])
      q0 == StartStep(s)
      t0 == StartTimer(Paths[a], s, Tick(timer))
      q  == Attempt(Paths[a], q0, ok, res)
      done == Done(Paths[a], q)
      late == Late(Paths[a], q, t0)
      seqs == [Ticked EXCEPT ![a] = q]
  IN  /\ timer' = LateTimer(Paths[a], q, t0)
      /\ faulted' = (f \/ late)
      /\ maint' = (maint /\ ~(q0.check = q0.step /\ <<a, q0.path, q0.step>> \in LeavesMaint))
      /\ IF done \/ late
           THEN exit_automation(a, IF late THEN "FAILED" ELSE "COMPLETED", seqs)
           ELSE /\ sequence' = seqs
                /\ quick' = a
                /\ UNCHANGED <<status, status_swap, current>>
      /\ alive' \in IF done /\ late THEN BOOLEAN ELSE {TRUE}

Results == [1 .. MaxExits -> BOOLEAN]

Step ==
  /\ current # NoAction /\ Target \in All /\ maint
  /\ \E ok \in BOOLEAN, res \in Results, f \in BOOLEAN :
        /\ Target \in Actions => ~f
        /\ Alerts(f)
        /\ CallSequence(ok, res, f)

Iterate ==
  /\ alive
  /\ UNCHANGED lockdown
  /\ \/ \E f \in BOOLEAN : Alerts(f) /\ faulted' = f /\ (NoCurrent \/ WildPointer \/ Abandon)
     \/ Alerts(TRUE) /\ faulted' = TRUE /\ FailOnFault
     \/ Step

Next ==
  \/ \E a \in Actions : StartAction(a) \/ ClearAction(a) \/ StopAction(a)
  \/ EnterMaint
  \/ LeaveMaint
  \/ \E on \in BOOLEAN : SetLockdown(on)
  \/ clear_alerts
  \/ Iterate

Spec == Init /\ [][Next]_vars

(* The control loop runs every 10 ms whatever messages arrive.             *)
FairSpec == Spec /\ WF_vars(Iterate)

-----------------------------------------------------------------------------
(* Properties.                                                             *)

Active(a) == status[a] \in {"IN_PROGRESS", "EXITING"}

(* "Only one active action is currently supported" (Action.cpp:248): at    *)
(* most one action is in progress. Starting tests the name, running uses   *)
(* the pointer, and an action of either kind is ended by one of two others *)
(* (its own steps, a message, a fault, the end of maintenance mode).       *)
OneActiveAction ==
  \A a, b \in All : status[a] = "IN_PROGRESS" /\ status[b] = "IN_PROGRESS" => a = b

(* What is shown to the operator is what runs: the action in progress is   *)
(* the named one and the one the pointer leads to, and an action is        *)
(* exiting only while its own shutdown action is in progress.              *)
StatusIsTrue ==
  /\ \A a \in All : status[a] = "IN_PROGRESS" <=> current = a
  /\ current # NoAction => Target \in {current, Wild}
  /\ \A a \in Actions : status[a] = "EXITING" => ~Plain(a) /\ current = ShutdownOf[a]

(* A started action does not stay in progress or exiting for ever: it      *)
(* completes, times out, fails or is aborted, and so does its shutdown     *)
(* action (unless the process dies of the out-of-range read).              *)
ActionEnds == \A a \in Actions : Active(a) ~> (~Active(a) \/ ~alive)

(* Whatever ends an action with a shutdown action (completion, a timeout,  *)
(* a fault, the operator), its final status is not shown before the        *)
(* shutdown action has run to its own end.                                 *)
ShutdownAlwaysRuns ==
  [][\A a \in Actions :
       ~Plain(a) /\ Active(a) /\ ~Active(a)' =>
         /\ status[a] = "EXITING" /\ current = ShutdownOf[a]
         /\ status'[ShutdownOf[a]] \in {"COMPLETED", "FAILED"}]_vars
=============================================================================
