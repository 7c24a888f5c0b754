----------------------------- MODULE SiteManager -----------------------------
(* The site state machine of site_controller: Site_Manager::process_state  *)
(* and what it calls, the sequences of the site states (SequenceEngine),   *)
(* latching and clearing of site faults, the operator's commands and their *)
(* persistence in DBI (Data_Endpoint.cpp).                                 *)
(*                                                                         *)
(* The main thread alternates between FIMS messages and iterations; pc     *)
(* walks through process_state: get_values, check_state, call_sequence,    *)
(* the function of the state, set_values. After a restart detached threads *)
(* replay the stored start and stop commands while the main thread runs,   *)
(* without a lock, so they fall between any two of these steps.            *)
EXTENDS SequenceEngine

CONSTANTS
  Paths,        \* the configured sequence of every state
  Bypass,       \* the states whose steps use the route "/bypass" only
  MaxExits,     \* no step has more exit conditions
  MaxRestarts   \* bound on restarts of the process

States == {"Init", "Ready", "Startup", "RunMode1", "RunMode2", "Standby", "Shutdown"}
Running == {"RunMode1", "RunMode2", "Standby"}

ASSUME ConfigAssumption ==
  /\ DOMAIN Paths = States
  /\ \A s \in States : IsConfig(Paths[s])
  /\ \A s \in States : \A p \in DOMAIN Paths[s] :
       /\ Paths[s][p].ret \in States
       /\ \A i \in DOMAIN Paths[s][p].steps : Len(Paths[s][p].steps[i].exits) <= MaxExits
  /\ Bypass \subseteq States
  /\ MaxExits \in Nat /\ MaxRestarts \in Nat

(* Where a sequence may return in the repository's configurations: to its  *)
(* own state, but Startup to a run mode and Shutdown to Ready. Sites that  *)
(* can run without the grid also start and stop by sequence.               *)
Returns(s) == CASE s = "Startup" -> {"RunMode1", "RunMode2", "Shutdown"}
                [] s = "Shutdown" -> {"Ready"}
                [] s = "Ready" -> {"Ready", "Startup"}
                [] s \in {"RunMode1", "RunMode2"} -> {s, "Shutdown"}
                [] OTHER -> {s}

ASSUME ReturnAssumption ==
  \A s \in States : \A p \in DOMAIN Paths[s] : Paths[s][p].ret \in Returns(s)

(* The site starts, and stops, otherwise than by sequence.                 *)
ManualStart == \A p \in DOMAIN Paths["Ready"] : Paths["Ready"][p].ret # "Startup"

ManualStop == \A s \in States : \A p \in DOMAIN Paths[s] : Paths[s][p].ret # "Shutdown"

VARIABLES
  pc,             \* position of the main thread
  state,          \* sequences_status.current_state
  checked,        \* sequences_status.check_current_state
  sequence_reset, \* sequences_status.sequence_reset
  sequence,       \* the sequence record of every state
  timer,          \* sequences_status.exit_target_time
  faulted,        \* get_faults(): some active_fault_array entry
  clear_flag,     \* clear_faults_flag
  clearIn,        \* time_to_clear_fault_status_flags, NoClear when not pending
  enable, disable, standby, \* the operator's flags
  power,          \* power commands to the assets may be other than zero
  dbi,            \* enable_flag and disable_flag as stored in DBI
  replay,         \* commands the delayed_set threads still have to replay
  restarts,
  alive,          \* FALSE between the death of the process and its restart
  stopped         \* history: shut down, and no start command since

control == <<state, checked, sequence_reset, sequence, timer>>
commands == <<enable, disable, standby, clear_flag>>
outside == <<dbi, replay, restarts, stopped>>
vars == <<pc, control, commands, faulted, clearIn, power, outside, alive>>

Points == {"idle", "check", "sequence", "state", "set"}
Flags == {"enable", "disable"}
NoClear == -1

Typed ==
  /\ pc \in Points
  /\ state \in States /\ checked \in States
  /\ sequence_reset \in BOOLEAN
  /\ DOMAIN sequence = States
  /\ \A s \in States : sequence[s] \in Sequence(Paths[s])
  /\ timer \in Nat
  /\ faulted \in BOOLEAN /\ clear_flag \in BOOLEAN
  /\ clearIn \in Nat \cup {NoClear}
  /\ enable \in BOOLEAN /\ disable \in BOOLEAN /\ standby \in BOOLEAN
  /\ power \in BOOLEAN
  /\ dbi \in [Flags -> BOOLEAN]
  /\ replay \in SUBSET (Flags \X BOOLEAN)
  /\ restarts \in Nat
  /\ alive \in BOOLEAN
  /\ stopped \in BOOLEAN

(* A sequence that is called without a reset is done or stands at a step.  *)
Placed ==
  ~sequence_reset => sequence[checked].bypass \/ AtStep(Paths[checked], sequence[checked])

(* The state is well formed, and the step an iteration reads exists,       *)
(* however the sequence was left the last time (check_state,               *)
(* Sequence::call_sequence).                                               *)
TypeOK == Typed /\ Placed

Booted ==
  /\ pc = "idle"
  /\ state = "Init" /\ checked = "Init" /\ sequence_reset = FALSE
  /\ sequence = [s \in States |-> NewSequence(Paths[s])]
  /\ timer = 0
  /\ faulted = FALSE /\ clear_flag = FALSE /\ clearIn = NoClear
  /\ enable = FALSE /\ disable = FALSE /\ standby = FALSE
  /\ power = FALSE
  /\ alive = TRUE

Init ==
  /\ Booted
  /\ dbi = [f \in Flags |-> FALSE]
  /\ replay = {}
  /\ restarts = 0
  /\ stopped = TRUE

-----------------------------------------------------------------------------
(* Messages, handled by the main thread between iterations.                *)

(* A command is echoed to DBI; a true one also revokes its opposite there. *)
setpoint_writeout(flag, value) ==
  [f \in Flags |-> IF f = flag THEN value ELSE dbi[f] /\ ~value]

SetEnable(b) ==
  /\ alive /\ pc = "idle"
  /\ enable' = b
  /\ dbi' = setpoint_writeout("enable", b)
  /\ stopped' = (stopped /\ ~b)
  /\ UNCHANGED <<pc, control, disable, standby, clear_flag, faulted, clearIn, power,
                 replay, restarts, alive>>

SetDisable(b) ==
  /\ alive /\ pc = "idle"
  /\ disable' = b
  /\ dbi' = setpoint_writeout("disable", b)
  /\ UNCHANGED <<pc, control, enable, standby, clear_flag, faulted, clearIn, power,
                 replay, restarts, alive, stopped>>

SetStandby(b) ==
  /\ alive /\ pc = "idle" /\ standby # b
  /\ standby' = b
  /\ UNCHANGED <<pc, control, enable, disable, clear_flag, faulted, clearIn, power,
                 outside, alive>>

PressClear ==
  /\ alive /\ pc = "idle" /\ ~clear_flag
  /\ clear_flag' = TRUE
  /\ UNCHANGED <<pc, control, enable, disable, standby, faulted, clearIn, power,
                 outside, alive>>

(* clear_faults: the registers are cleared a second later.                 *)
ClearDelay == 2

DebugFault(b) ==
  /\ alive /\ pc = "idle"
  /\ IF b THEN faulted' = TRUE /\ UNCHANGED clearIn
          ELSE clearIn' = ClearDelay /\ UNCHANGED faulted
  /\ UNCHANGED <<pc, control, commands, power, outside, alive>>

-----------------------------------------------------------------------------
(* One iteration of process_state.                                         *)

(* Variant: the faults are cleared at once.                                *)
GetValuesClearingAtOnce ==
  /\ alive /\ pc = "idle"
  /\ pc' = "check"
  /\ timer' = Tick(timer)
  /\ sequence' = [s \in States |-> TickSequence(sequence[s])]
  /\ faulted' = (faulted /\ ~clear_flag)
  /\ clear_flag' = FALSE
  /\ UNCHANGED <<state, checked, sequence_reset, clearIn, enable, disable, standby,
                 power, outside, alive>>

(* get_values reads the clock; then a requested clearing is scheduled.     *)
GetValues ==
  /\ alive /\ pc = "idle"
  /\ pc' = "check"
  /\ timer' = Tick(timer)
  /\ sequence' = [s \in States |-> TickSequence(sequence[s])]
  /\ clearIn' = IF clear_flag THEN ClearDelay
                ELSE IF clearIn > 0 THEN clearIn - 1 ELSE clearIn
  /\ clear_flag' = FALSE
  /\ UNCHANGED <<state, checked, sequence_reset, faulted, enable, disable, standby,
                 power, outside, alive>>

(* Variant: only the stop command shuts down.                              *)
check_stateStopOnly(raise) ==
  LET s == IF state # "Init" /\ disable THEN "Shutdown" ELSE state
  IN  /\ alive /\ pc = "check"
      /\ pc' = "sequence"
      /\ faulted' = (faulted \/ (raise /\ state # "Init"))
      /\ state' = s
      /\ checked' = s
      /\ sequence_reset' = (sequence_reset \/ checked # s)
      /\ sequence' = IF checked # s THEN [sequence EXCEPT ![checked].bypass = FALSE]
                                    ELSE sequence
      /\ UNCHANGED <<timer, commands, clearIn, power, outside, alive>>

(* Variant: a change of state does not reset its sequence.                 *)
check_stateWithoutReset(raise) ==
  LET f == faulted \/ (raise /\ state # "Init")
      s == IF state # "Init" /\ (f \/ disable) THEN "Shutdown" ELSE state
  IN  /\ alive /\ pc = "check"
      /\ pc' = "sequence"
      /\ faulted' = f
      /\ state' = s
      /\ checked' = s
      /\ sequence' = IF checked # s THEN [sequence EXCEPT ![checked].bypass = FALSE]
                                    ELSE sequence
      /\ UNCHANGED <<sequence_reset, timer, commands, clearIn, power, outside, alive>>

(* raise: a fault configured for the path of the present state is found.   *)
(* Nothing is looked at in Init.                                           *)
check_state(raise) ==
  LET f == faulted \/ (raise /\ state # "Init")
      s == IF state # "Init" /\ (f \/ disable) THEN "Shutdown" ELSE state
  IN  /\ alive /\ pc = "check"
      /\ pc' = "sequence"
      /\ faulted' = f
      /\ state' = s
      /\ checked' = s
      /\ sequence_reset' = (sequence_reset \/ checked # s)
      /\ sequence' = IF checked # s THEN [sequence EXCEPT ![checked].bypass = FALSE]
                                    ELSE sequence
      /\ UNCHANGED <<timer, commands, clearIn, power, outside, alive>>

Results == [1 .. MaxExits -> BOOLEAN]

(* Sequence::call_sequence of the present state. A sequence that completes *)
(* in the iteration in which its step times out reads a step past the last *)
(* one for the message about the timeout.                                  *)
call_sequence(ok, res) ==
  LET P  == Paths[state]
      q0 == IF sequence_reset THEN reset_sequence(sequence[state]) ELSE sequence[state]
      q1 == StartStep(q0)
      t1 == StartTimer(P, q0, timer)
      q2 == Attempt(P, q1, ok, res)
      done == Done(P, q2)
      late == Late(P, q2, t1)
  IN  /\ alive /\ pc = "sequence"
      /\ state \in Bypass => ok /\ \A c \in DOMAIN res : res[c]
      /\ pc' = "state"
      /\ sequence_reset' = FALSE
      /\ \/ /\ q1.bypass
            /\ sequence' = [sequence EXCEPT ![state] = q1]
            /\ timer' = t1
            /\ UNCHANGED <<state, faulted, alive>>
         \/ /\ ~q1.bypass
            /\ sequence' = [sequence EXCEPT ![state] =
                              [q2 EXCEPT !.bypass = done]]
            /\ state' = IF done THEN P[q2.path].ret ELSE state
            /\ timer' = LateTimer(P, q2, t1)
            /\ faulted' = (faulted \/ late)
            /\ alive' \in IF done /\ late THEN BOOLEAN ELSE {TRUE}
      /\ UNCHANGED <<checked, commands, clearIn, power, outside>>

(* The function of the state the sequence has left the site in.            *)
init_state ==
  /\ state = "Init"
  /\ state' = "Ready" /\ power' = FALSE
  /\ UNCHANGED dbi

ready_state ==
  /\ state = "Ready"
  /\ state' = IF enable /\ ~disable THEN "Startup" ELSE state
  /\ UNCHANGED <<power, dbi>>

startup_state == state = "Startup" /\ UNCHANGED <<state, power, dbi>>

runmode1_state ==
  /\ state = "RunMode1"
  /\ power' = TRUE
  /\ state' = IF standby THEN "Standby" ELSE state
  /\ UNCHANGED dbi

runmode2_state == state = "RunMode2" /\ power' = TRUE /\ UNCHANGED <<state, dbi>>

(* The active power commands drop to zero, the reactive ones are slewed.   *)
standby_state ==
  /\ state = "Standby"
  /\ power' \in {power, FALSE}
  /\ state' = IF standby THEN state ELSE "RunMode1"
  /\ UNCHANGED dbi

(* Variant: the power commands are not reset.                              *)
shutdown_stateKeepsPower ==
  /\ state = "Shutdown"
  /\ UNCHANGED power
  /\ dbi' = IF enable THEN [dbi EXCEPT !["enable"] = FALSE] ELSE dbi
  /\ state' = IF sequence["Shutdown"].bypass THEN "Ready" ELSE state

(* turn_off_start_cmd tells DBI to forget the start command.               *)
shutdown_state ==
  /\ state = "Shutdown"
  /\ power' = FALSE
  /\ dbi' = IF enable THEN [dbi EXCEPT !["enable"] = FALSE] ELSE dbi
  /\ state' = IF sequence["Shutdown"].bypass THEN "Ready" ELSE state

StateFunction ==
  /\ alive /\ pc = "state"
  /\ pc' = "set"
  /\ \/ init_state \/ ready_state \/ startup_state \/ runmode1_state
     \/ runmode2_state \/ standby_state \/ shutdown_state
  /\ clear_flag' = (clear_flag /\ state # "Shutdown")
  /\ UNCHANGED <<checked, sequence_reset, sequence, timer, enable, disable, standby,
                 faulted, clearIn, replay, restarts, alive, stopped>>

(* Variant: the start command is kept.                                     *)
ui_configurationKeepsEnable == enable' = (enable /\ ~disable)

(* ui_configuration drops the start command in every state but Init.       *)
ui_configuration == enable' = (enable /\ ~disable /\ state = "Init")

set_values ==
  /\ alive /\ pc = "set"
  /\ pc' = "idle"
  /\ faulted' = (faulted /\ clearIn # 0)
  /\ clearIn' = IF clearIn = 0 THEN NoClear ELSE clearIn
  /\ ui_configuration
  /\ stopped' = (stopped \/ (checked = "Shutdown" /\ state \in {"Shutdown", "Ready"}))
  /\ UNCHANGED <<control, disable, standby, clear_flag, power, dbi, replay, restarts,
                 alive>>

-----------------------------------------------------------------------------
(* The process dies and is started again: setpoint_readin hands the stored *)
(* commands to delayed_set threads, and restores standby, which is stored  *)
(* whenever it is set, at once.                                            *)
Restart ==
  /\ restarts < MaxRestarts
  /\ restarts' = restarts + 1
  /\ pc' = "idle"
  /\ state' = "Init" /\ checked' = "Init" /\ sequence_reset' = FALSE
  /\ sequence' = [s \in States |-> NewSequence(Paths[s])]
  /\ timer' = 0
  /\ faulted' = FALSE /\ clear_flag' = FALSE /\ clearIn' = NoClear
  /\ enable' = FALSE /\ disable' = FALSE
  /\ power' = FALSE
  /\ alive' = TRUE
  /\ replay' = {<<f, dbi[f]>> : f \in Flags}
  /\ UNCHANGED <<standby, dbi, stopped>>

delayed_set(m) ==
  /\ alive
  /\ replay' = replay \ {m}
  /\ enable' = IF m[1] = "enable" THEN m[2] ELSE enable
  /\ disable' = IF m[1] = "disable" THEN m[2] ELSE disable
  /\ dbi' = setpoint_writeout(m[1], m[2])
  /\ UNCHANGED <<pc, control, standby, clear_flag, faulted, clearIn, power, restarts,
                 alive, stopped>>

-----------------------------------------------------------------------------
process_state ==
  \/ GetValues
  \/ \E raise \in BOOLEAN : check_state(raise)
  \/ \E ok \in BOOLEAN, res \in Results : call_sequence(ok, res)
  \/ StateFunction
  \/ set_values

Next ==
  \/ process_state
  \/ \E b \in BOOLEAN : SetEnable(b) \/ SetDisable(b) \/ SetStandby(b) \/ DebugFault(b)
  \/ PressClear
  \/ Restart
  \/ \E m \in replay : delayed_set(m)

Spec == Init /\ [][Next]_vars

(* The loop of main.cpp runs an iteration every 10 ms whatever messages    *)
(* arrive.                                                                 *)
FairSpec == Spec /\ WF_vars(process_state)

-----------------------------------------------------------------------------
(* Properties.                                                             *)

(* The site starts on command: until the process is restarted, it is in    *)
(* Startup only if an operator's start command came after the last time it *)
(* was shut down. (The command is wiped at the end of every iteration, but *)
(* a shutdown that completes in one iteration passes through Ready with a  *)
(* command received meanwhile still set. It needs ManualStart.)            *)
CommandedUntilRestart ==
  restarts = 0 /\ pc = "idle" /\ state = "Startup" => ~stopped

(* "tell dbi not to execute start cmd if restart / power cycle happens"    *)
(* (shutdown_state, Site_Manager.cpp:2943): once the site has been shut    *)
(* down, a restart does not replay the start command from before.          *)
RestartForgetsStart ==
  [][stopped /\ restarts' # restarts => <<"enable", TRUE>> \notin replay']_vars

(* No power command is left standing while the site waits for a start or   *)
(* starts up. shutdown_state zeroes the commands, and it is skipped in an  *)
(* iteration in which the sequence of Shutdown completes.                  *)
PowerOffWhenReady == pc = "idle" /\ state \in {"Ready", "Startup"} => ~power

(* A step all of whose exit conditions are debounced is not left by the    *)
(* call that enters it: a debounce timer that ran out during an earlier    *)
(* step or an earlier execution of the sequence does not count. (It holds  *)
(* for steps with one condition: debounce_reset re-arms one timer only.)   *)
EnteredRecord(s) == IF sequence_reset THEN reset_sequence(sequence[s]) ELSE sequence[s]

EntersDebounced(s) ==
  LET q == EnteredRecord(s)
  IN  /\ ~q.bypass /\ q.check = q.step
      /\ \A c \in DOMAIN CurrentStep(Paths[s], q).exits :
            Debounced(CurrentStep(Paths[s], q).exits, c)

DebounceRestarts ==
  [][pc = "sequence" /\ pc' = "state" /\ EntersDebounced(state)
     => sequence'[state].step <= EnteredRecord(state).step]_vars

(* Startup ends: its steps succeed or time out, and a timeout shuts the    *)
(* site down, once the operator has stopped pressing clear.                *)
StartupEnds == <>[](clearIn = NoClear) =>
  (state = "Startup" ~> state # "Startup" \/ ~alive)

(* "any site lvl fault will place you in shutdown" (Site_Manager.cpp:2552) *)
(* when no clearing is pending at the time of the fault, however soon the  *)
(* operator then asks for one. (A timeout raised after check_state in the  *)
(* very iteration that ends with a delayed clearing is never acted on.)    *)
FaultShutsDown ==
  faulted /\ clearIn = NoClear ~> checked = "Shutdown" \/ state = "Init" \/ ~alive

(* The state machine implements the site's life cycle, given ManualStop. A *)
(* dead process is on its way to a reboot.                                 *)
Phase ==
  IF ~alive \/ state = "Init" THEN "booting"
  ELSE CASE state = "Ready" -> "off"
         [] state = "Startup" -> "starting"
         [] state \in Running -> "running"
         [] state = "Shutdown" -> "stopping"

Lifecycle == INSTANCE SiteLifecycle WITH phase <- Phase, fault <- faulted, stop <- disable

ImplementsLifecycle == Lifecycle!Spec
=============================================================================
