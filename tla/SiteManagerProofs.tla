-------------------------- MODULE SiteManagerProofs --------------------------
(* Proofs about the site state machine, for all configured sequences.      *)
EXTENDS SiteManager, SequenceEngineProofs

(* The records of all sequences are well formed.                           *)
Formed(f) == DOMAIN f = States /\ \A s \in States : f[s] \in Sequence(Paths[s])

(* check_state leaves a fault unanswered in Init only.                     *)
Checked ==
  pc = "sequence" => /\ state = checked
                     /\ faulted => state \in {"Init", "Shutdown"}

TypeInv == Typed /\ Placed /\ Checked

(* Every state has a configured sequence.                                  *)
LEMMA Configured ==
  ASSUME NEW s \in States
  PROVE  IsConfig(Paths[s]) /\ \A p \in DOMAIN Paths[s] : Paths[s][p].ret \in States
BY ConfigAssumption

(* New sequences are well formed and stand at their first step.            *)
LEMMA NewFormed ==
  LET f == [s \in States |-> NewSequence(Paths[s])]
  IN  Formed(f) /\ \A s \in States : AtStep(Paths[s], f[s])
BY Configured, NewSequenceType DEF Formed

(* The clock keeps all records well formed and in place.                   *)
LEMMA TickedFormed ==
  ASSUME Formed(sequence)
  PROVE  LET f == [s \in States |-> TickSequence(sequence[s])]
         IN  /\ Formed(f)
             /\ \A s \in States : f[s].bypass = sequence[s].bypass
             /\ \A s \in States : AtStep(Paths[s], sequence[s]) => AtStep(Paths[s], f[s])
BY TickSequenceType DEF Formed, AtStep

(* Messages, restarts and replayed commands.                               *)
LEMMA MessageTyped ==
  ASSUME TypeInv,
         \/ \E b \in BOOLEAN : SetEnable(b) \/ SetDisable(b) \/ SetStandby(b) \/ DebugFault(b)
         \/ PressClear \/ Restart \/ \E m \in replay : delayed_set(m)
  PROVE  TypeInv'
<1>1. \A f \in Flags, v \in BOOLEAN : setpoint_writeout(f, v) \in [Flags -> BOOLEAN]
  BY DEF setpoint_writeout, TypeInv, Typed
<1>2. ASSUME NEW b \in BOOLEAN, SetEnable(b)
      PROVE  TypeInv'
  BY <1>1, <1>2 DEF SetEnable, control, TypeInv, Typed, Placed, Checked, Flags
<1>3. ASSUME NEW b \in BOOLEAN, SetDisable(b)
      PROVE  TypeInv'
  BY <1>1, <1>3 DEF SetDisable, control, TypeInv, Typed, Placed, Checked, Flags
<1>4. ASSUME NEW b \in BOOLEAN, SetStandby(b)
      PROVE  TypeInv'
  BY <1>4 DEF SetStandby, control, outside, TypeInv, Typed, Placed, Checked
<1>5. ASSUME NEW b \in BOOLEAN, DebugFault(b)
      PROVE  TypeInv'
  <2>1. faulted' \in BOOLEAN /\ clearIn' \in Nat \cup {NoClear}
    <3>1. CASE b
      BY <1>5, <3>1 DEF DebugFault, TypeInv, Typed
    <3>2. CASE ~b
      BY <1>5, <3>2 DEF DebugFault, ClearDelay, TypeInv, Typed
    <3>3. QED
      BY <3>1, <3>2
  <2>2. QED
    BY <1>5, <2>1 DEF DebugFault, control, commands, outside, TypeInv, Typed, Placed, Checked
<1>6. CASE PressClear
  BY <1>6 DEF PressClear, control, outside, TypeInv, Typed, Placed, Checked
<1>7. CASE Restart
  <2>1. Formed(sequence') /\ \A s \in States : AtStep(Paths[s], sequence'[s])
    BY <1>7, NewFormed DEF Restart
  <2>2. replay' \in SUBSET (Flags \X BOOLEAN)
    BY <1>7 DEF Restart, TypeInv, Typed
  <2>3. Placed' /\ Checked'
    BY <1>7, <2>1 DEF Restart, Placed, Checked, States
  <2>4. /\ pc' \in Points /\ state' \in States /\ checked' \in States
    BY <1>7 DEF Restart, Points, States
  <2>5. /\ faulted' \in BOOLEAN /\ clear_flag' \in BOOLEAN /\ enable' \in BOOLEAN
        /\ disable' \in BOOLEAN /\ standby' \in BOOLEAN /\ power' \in BOOLEAN
        /\ alive' \in BOOLEAN /\ stopped' \in BOOLEAN /\ dbi' \in [Flags -> BOOLEAN]
    BY <1>7 DEF Restart, TypeInv, Typed
  <2>6. clearIn' \in Nat \cup {NoClear} /\ timer' \in Nat /\ sequence_reset' \in BOOLEAN
    BY <1>7 DEF Restart
  <2>7. restarts' \in Nat
    BY <1>7 DEF Restart, TypeInv, Typed
  <2>8. QED
    BY <2>1, <2>2, <2>3, <2>4, <2>5, <2>6, <2>7 DEF TypeInv, Typed, Formed
<1>8. ASSUME NEW m \in replay, delayed_set(m)
      PROVE  TypeInv'
  <2>1. m[1] \in Flags /\ m[2] \in BOOLEAN
    BY DEF TypeInv, Typed
  <2>2. /\ enable' \in BOOLEAN /\ disable' \in BOOLEAN
        /\ dbi' \in [Flags -> BOOLEAN] /\ replay' \in SUBSET (Flags \X BOOLEAN)
    BY <1>1, <1>8, <2>1 DEF delayed_set, TypeInv, Typed
  <2>3. QED
    BY <1>8, <2>2 DEF delayed_set, control, TypeInv, Typed, Placed, Checked
<1>9. QED
  BY <1>2, <1>3, <1>4, <1>5, <1>6, <1>7, <1>8

(* The record and the timer call_sequence starts from.                     *)
Entered == IF sequence_reset THEN reset_sequence(sequence[state]) ELSE sequence[state]
Started == StartStep(Entered)
StartedTimer == StartTimer(Paths[state], Entered, timer)
Called(ok, res) == Attempt(Paths[state], Started, ok, res)

(* They are well formed, and a call that does anything is made at a step.  *)
LEMMA CalledTyped ==
  ASSUME TypeInv, pc = "sequence", NEW ok \in BOOLEAN, NEW res
  PROVE  /\ Started \in Sequence(Paths[state]) /\ StartedTimer \in Nat
         /\ Started.bypass \/ AtStep(Paths[state], Started)
         /\ ~Started.bypass =>
              /\ Called(ok, res) \in Sequence(Paths[state])
              /\ LateTimer(Paths[state], Called(ok, res), StartedTimer) \in Nat
              /\ Done(Paths[state], Called(ok, res)) \/ AtStep(Paths[state], Called(ok, res))
<1>1. /\ state \in States /\ state = checked /\ IsConfig(Paths[state])
      /\ sequence[state] \in Sequence(Paths[state]) /\ timer \in Nat
  BY Configured DEF TypeInv, Typed, Checked
<1>2. /\ Entered \in Sequence(Paths[state])
      /\ Entered.bypass \/ AtStep(Paths[state], Entered)
  BY <1>1, ResetType DEF Entered, TypeInv, Placed
<1>3. /\ Started \in Sequence(Paths[state])
      /\ Started.bypass \/ AtStep(Paths[state], Started)
  BY <1>2, StartStepType DEF Started, AtStep
<1>4. StartedTimer \in Nat
  BY <1>1, <1>2, StartTimerType DEF StartedTimer
<1>5. ASSUME ~Started.bypass
      PROVE  /\ Called(ok, res) \in Sequence(Paths[state])
             /\ Done(Paths[state], Called(ok, res)) \/ AtStep(Paths[state], Called(ok, res))
  BY <1>1, <1>3, <1>5, AttemptType DEF Called
<1>6. ASSUME ~Started.bypass
      PROVE  LateTimer(Paths[state], Called(ok, res), StartedTimer) \in Nat
  BY <1>1, <1>4, <1>5, <1>6, LateTimerType
<1>7. QED
  BY <1>3, <1>4, <1>5, <1>6

(* What a call does to the state, without its local abbreviations.         *)
LEMMA CallEffect ==
  ASSUME TypeInv, NEW ok \in BOOLEAN, NEW res, call_sequence(ok, res)
  PROVE  /\ pc = "sequence" /\ pc' = "state" /\ sequence_reset' = FALSE
         /\ UNCHANGED <<checked, commands, clearIn, power, outside>>
         /\ faulted' \in BOOLEAN /\ alive' \in BOOLEAN /\ timer' \in Nat
         /\ \E r \in Sequence(Paths[state]) :
              /\ r.bypass \/ AtStep(Paths[state], r)
              /\ sequence' = [sequence EXCEPT ![state] = r]
         /\ state' \in {state} \cup {Paths[state][p].ret : p \in DOMAIN Paths[state]}
<1> DEFINE q1 == Started
           q2 == Called(ok, res)
           done == Done(Paths[state], q2)
           late == Late(Paths[state], q2, StartedTimer)
<1>1. /\ pc = "sequence" /\ pc' = "state" /\ sequence_reset' = FALSE
      /\ UNCHANGED <<checked, commands, clearIn, power, outside>>
  BY DEF call_sequence
<1>2. \/ /\ q1.bypass
         /\ sequence' = [sequence EXCEPT ![state] = q1]
         /\ timer' = StartedTimer
         /\ UNCHANGED <<state, faulted, alive>>
      \/ /\ ~q1.bypass
         /\ sequence' = [sequence EXCEPT ![state] = [q2 EXCEPT !.bypass = done]]
         /\ state' = IF done THEN Paths[state][q2.path].ret ELSE state
         /\ timer' = LateTimer(Paths[state], q2, StartedTimer)
         /\ faulted' = (faulted \/ late)
         /\ alive' \in IF done /\ late THEN BOOLEAN ELSE {TRUE}
  BY DEF call_sequence, Called, Started, Entered, StartedTimer
<1>3. done \in BOOLEAN /\ late \in BOOLEAN
  BY DEF Done, Late
<1>4. /\ q1 \in Sequence(Paths[state]) /\ StartedTimer \in Nat
      /\ ~q1.bypass => /\ q2 \in Sequence(Paths[state])
                       /\ LateTimer(Paths[state], q2, StartedTimer) \in Nat
                       /\ done \/ AtStep(Paths[state], q2)
  BY <1>1, CalledTyped
<1> HIDE DEF q1, q2, done, late
<1>5. CASE q1.bypass
  <2>1. /\ sequence' = [sequence EXCEPT ![state] = q1]
        /\ timer' = StartedTimer /\ UNCHANGED <<state, faulted, alive>>
    BY <1>2, <1>5
  <2>2. QED
    BY <1>1, <1>4, <1>5, <2>1 DEF TypeInv, Typed
<1>6. CASE ~q1.bypass
  <2>1. /\ sequence' = [sequence EXCEPT ![state] = [q2 EXCEPT !.bypass = done]]
        /\ state' = IF done THEN Paths[state][q2.path].ret ELSE state
        /\ timer' = LateTimer(Paths[state], q2, StartedTimer)
        /\ faulted' = (faulted \/ late)
        /\ alive' \in IF done /\ late THEN BOOLEAN ELSE {TRUE}
    BY <1>2, <1>6
  <2>2. /\ [q2 EXCEPT !.bypass = done] \in Sequence(Paths[state])
        /\ [q2 EXCEPT !.bypass = done].bypass = done
        /\ [q2 EXCEPT !.bypass = done].path = q2.path
        /\ [q2 EXCEPT !.bypass = done].step = q2.step
        /\ q2.path \in DOMAIN Paths[state]
    BY <1>3, <1>4, <1>6 DEF Sequence
  <2>3. [q2 EXCEPT !.bypass = done].bypass \/ AtStep(Paths[state], [q2 EXCEPT !.bypass = done])
    BY <1>4, <1>6, <2>2 DEF AtStep
  <2>4. faulted' \in BOOLEAN /\ alive' \in BOOLEAN
    BY <1>3, <2>1 DEF TypeInv, Typed
  <2>5. state' \in {state} \cup {Paths[state][p].ret : p \in DOMAIN Paths[state]}
    BY <2>1, <2>2
  <2>6. timer' \in Nat
    BY <1>4, <1>6, <2>1
  <2>7. \E r \in Sequence(Paths[state]) :
              /\ r.bypass \/ AtStep(Paths[state], r)
              /\ sequence' = [sequence EXCEPT ![state] = r]
    BY <2>1, <2>2, <2>3
  <2>8. QED
    BY <1>1, <2>4, <2>5, <2>6, <2>7
<1>7. QED
  BY <1>5, <1>6

(* Each part of an iteration keeps the state well typed.                   *)
LEMMA GetValuesTyped ==
  ASSUME TypeInv, GetValues
  PROVE  TypeInv'
<1>1. sequence' = [s \in States |-> TickSequence(sequence[s])] /\ Formed(sequence)
  BY DEF GetValues, TypeInv, Typed, Formed
<1>2. /\ Formed(sequence')
      /\ \A s \in States : sequence'[s].bypass = sequence[s].bypass
      /\ \A s \in States : AtStep(Paths[s], sequence[s]) => AtStep(Paths[s], sequence'[s])
  BY <1>1, TickedFormed
<1>3. clearIn' \in Nat \cup {NoClear}
  <2>1. clearIn \in Nat \cup {-1}
    BY DEF TypeInv, Typed, NoClear
  <2>2. QED
    BY <2>1 DEF GetValues, ClearDelay, NoClear
<1>4. timer' \in Nat
  BY TickType DEF GetValues, TypeInv, Typed
<1>5. Placed' /\ Checked'
  BY <1>2 DEF GetValues, TypeInv, Typed, Placed, Checked
<1>6. pc' \in Points
  BY DEF GetValues, Points
<1>7. QED
  BY <1>2, <1>3, <1>4, <1>5, <1>6 DEF GetValues, outside, TypeInv, Typed, Formed

(* Site_Manager::check_state keeps the types. *)
LEMMA CheckStateTyped ==
  ASSUME TypeInv, NEW raise \in BOOLEAN, check_state(raise)
  PROVE  TypeInv'
<1> DEFINE f == faulted \/ (raise /\ state # "Init")
           s == IF state # "Init" /\ (f \/ disable) THEN "Shutdown" ELSE state
<1>1. /\ pc' = "sequence" /\ faulted' = f /\ state' = s /\ checked' = s
      /\ sequence_reset' = (sequence_reset \/ checked # s)
      /\ sequence' = IF checked # s THEN [sequence EXCEPT ![checked].bypass = FALSE]
                                    ELSE sequence
      /\ UNCHANGED <<timer, commands, clearIn, power, outside, alive>>
  BY DEF check_state
<1>2. f \in BOOLEAN /\ s \in States
  BY DEF TypeInv, Typed, States
<1>3. f => s \in {"Init", "Shutdown"}
  OBVIOUS
<1> HIDE DEF f, s
<1>4. Formed(sequence')
  <2>1. [sequence[checked] EXCEPT !.bypass = FALSE] \in Sequence(Paths[checked])
    BY DEF TypeInv, Typed, Sequence
  <2>2. QED
    BY <1>1, <2>1 DEF TypeInv, Typed, Formed
<1>5. Placed'
  BY <1>1 DEF TypeInv, Placed
<1>6. Checked'
  BY <1>1, <1>3 DEF Checked
<1>7. pc' \in Points /\ sequence_reset' \in BOOLEAN
  BY <1>1 DEF Points, TypeInv, Typed
<1>8. QED
  BY <1>1, <1>2, <1>4, <1>5, <1>6, <1>7 DEF commands, outside, TypeInv, Typed, Formed

(* The state's sequence, called or left, keeps the types. *)
LEMMA CallSequenceTyped ==
  ASSUME TypeInv, NEW ok \in BOOLEAN, NEW res, call_sequence(ok, res)
  PROVE  TypeInv'
<1>1. /\ pc = "sequence" /\ pc' = "state" /\ sequence_reset' = FALSE
      /\ UNCHANGED <<checked, commands, clearIn, power, outside>>
      /\ faulted' \in BOOLEAN /\ alive' \in BOOLEAN /\ timer' \in Nat
      /\ state' \in {state} \cup {Paths[state][p].ret : p \in DOMAIN Paths[state]}
  BY CallEffect
<1>2. PICK r \in Sequence(Paths[state]) :
              /\ r.bypass \/ AtStep(Paths[state], r)
              /\ sequence' = [sequence EXCEPT ![state] = r]
  BY CallEffect
<1>3. state \in States /\ state = checked
  BY <1>1 DEF TypeInv, Typed, Checked
<1>4. Formed(sequence') /\ sequence'[state] = r
  BY <1>2, <1>3 DEF TypeInv, Typed, Formed
<1>5. state' \in States
  BY <1>1, <1>3, Configured
<1>6. Placed' /\ Checked'
  BY <1>1, <1>2, <1>3, <1>4 DEF Placed, Checked
<1>7. pc' \in Points
  BY <1>1 DEF Points
<1>8. QED
  BY <1>1, <1>4, <1>5, <1>6, <1>7 DEF commands, outside, TypeInv, Typed, Formed

(* Each state function keeps the types. *)
LEMMA StateFunctionTyped ==
  ASSUME TypeInv, StateFunction
  PROVE  TypeInv'
<1>1. state' \in States
  BY DEF StateFunction, init_state, ready_state, startup_state, runmode1_state,
         runmode2_state, standby_state, shutdown_state, States
<1>2. power' \in BOOLEAN /\ dbi' \in [Flags -> BOOLEAN]
  BY DEF StateFunction, init_state, ready_state, startup_state, runmode1_state,
         runmode2_state, standby_state, shutdown_state, TypeInv, Typed
<1>3. clear_flag' \in BOOLEAN
  BY DEF StateFunction, TypeInv, Typed
<1>4. pc' \in Points /\ Checked' /\ Placed'
  BY DEF StateFunction, Points, Checked, Placed, TypeInv
<1>5. QED
  BY <1>1, <1>2, <1>3, <1>4 DEF StateFunction, TypeInv, Typed

(* The end of an iteration keeps the types. *)
LEMMA SetValuesTyped ==
  ASSUME TypeInv, set_values
  PROVE  TypeInv'
<1>1. faulted' \in BOOLEAN /\ enable' \in BOOLEAN /\ stopped' \in BOOLEAN
  BY DEF set_values, ui_configuration, TypeInv, Typed
<1>2. clearIn' \in Nat \cup {NoClear}
  BY DEF set_values, TypeInv, Typed
<1>3. pc' \in Points /\ Checked' /\ Placed'
  BY DEF set_values, control, Points, Checked, Placed, TypeInv
<1>4. QED
  BY <1>1, <1>2, <1>3 DEF set_values, control, TypeInv, Typed

(* TypeInv is inductive.                                                   *)
LEMMA TypeInvInitially == Init => TypeInv
<1> SUFFICES ASSUME Init PROVE TypeInv
  OBVIOUS
<1>1. Formed(sequence) /\ \A s \in States : AtStep(Paths[s], sequence[s])
  BY NewFormed DEF Init, Booted
<1>2. Placed /\ Checked
  BY <1>1 DEF Init, Booted, Placed, Checked, States
<1>3. /\ pc \in Points /\ state \in States /\ checked \in States
      /\ dbi \in [Flags -> BOOLEAN] /\ replay \in SUBSET (Flags \X BOOLEAN)
  BY DEF Init, Booted, Points, States
<1>4. QED
  BY <1>1, <1>2, <1>3 DEF Init, Booted, TypeInv, Typed, Formed

(* Every step keeps the type invariant. *)
LEMMA TypeInvNext == TypeInv /\ [Next]_vars => TypeInv'
<1> SUFFICES ASSUME TypeInv, [Next]_vars PROVE TypeInv'
  OBVIOUS
<1>1. CASE UNCHANGED vars
  BY <1>1 DEF vars, control, commands, outside, TypeInv, Typed, Placed, Checked
<1>2. CASE process_state
  BY <1>2, GetValuesTyped, CheckStateTyped, CallSequenceTyped, StateFunctionTyped,
     SetValuesTyped DEF process_state
<1>3. CASE Next /\ ~process_state
  BY <1>3, MessageTyped DEF Next
<1>4. QED
  BY <1>1, <1>2, <1>3

(* The records of all sequences stay well formed and the interpreter is    *)
(* called at a step that exists (Sequence::call_sequence), whatever is     *)
(* configured, raised, commanded and restarted; a fault is unanswered at   *)
(* the call in Init only.                                                  *)
THEOREM SiteTyped == Spec => [](TypeOK /\ Checked)
<1>1. TypeInv => TypeOK /\ Checked
  BY DEF TypeInv, TypeOK
<1>2. QED
  BY <1>1, TypeInvInitially, TypeInvNext, PTL DEF Spec

-----------------------------------------------------------------------------
(* The state machine implements the life cycle.                            *)

(* Where a sequence may lead its state.                                    *)
LEMMA ReturnsFrom ==
  ASSUME NEW s \in States, NEW p \in DOMAIN Paths[s]
  PROVE  \/ Paths[s][p].ret = s
         \/ s = "Startup" /\ Paths[s][p].ret \in {"RunMode1", "RunMode2"}
         \/ s = "Shutdown" /\ Paths[s][p].ret = "Ready"
         \/ s = "Ready" /\ Paths[s][p].ret = "Startup"
         \/ s \in {"Startup", "RunMode1", "RunMode2"} /\ Paths[s][p].ret = "Shutdown"
BY ReturnAssumption DEF Returns

(* The life cycle's signals, and what a step of each kind needs.           *)
LEMMA SignalStep ==
  ASSUME TypeInv', Phase' = Phase \/ Phase' = "booting"
  PROVE  Lifecycle!Next
BY DEF TypeInv, Typed, Lifecycle!Next, Lifecycle!Signal, Lifecycle!Reboot, Lifecycle!Anything

(* Commands, the replay and a restart are signals or reboots of the life cycle. *)
LEMMA MessagesImplement ==
  ASSUME TypeInv, TypeInv',
         \/ \E b \in BOOLEAN : SetEnable(b) \/ SetDisable(b) \/ SetStandby(b) \/ DebugFault(b)
         \/ PressClear \/ Restart \/ \E m \in replay : delayed_set(m)
  PROVE  Lifecycle!Next
<1>1. CASE Restart
  <2>1. Phase' = "booting"
    BY <1>1 DEF Restart, Phase
  <2>2. QED
    BY <2>1, SignalStep
<1>2. CASE ~Restart
  <2>1. UNCHANGED <<state, alive>>
    BY <1>2 DEF SetEnable, SetDisable, SetStandby, DebugFault, PressClear, delayed_set, control
  <2>2. Phase' = Phase
    BY <2>1 DEF Phase
  <2>3. QED
    BY <2>2, SignalStep
<1>3. QED
  BY <1>1, <1>2

(* check_state moves to Shutdown only with a fault or the stop command. *)
LEMMA CheckStateImplements ==
  ASSUME TypeInv, TypeInv', NEW raise \in BOOLEAN, check_state(raise)
  PROVE  Lifecycle!Next
<1>1. alive /\ alive' /\ UNCHANGED disable
  BY DEF check_state, commands
<1>2. CASE state' = state
  <2>1. Phase' = Phase
    BY <1>1, <1>2 DEF Phase
  <2>2. QED
    BY <2>1, SignalStep
<1>3. CASE state' # state
  <2>1. state' = "Shutdown" /\ state \notin {"Init", "Shutdown"} /\ (faulted' \/ disable')
    BY <1>1, <1>3 DEF check_state
  <2>2. Phase' = "stopping" /\ Phase \in {"off", "starting", "running"}
    BY <1>1, <2>1 DEF Phase, TypeInv, Typed, States, Running
  <2>3. QED
    BY <2>1, <2>2 DEF TypeInv, Typed, Lifecycle!Next, Lifecycle!Stop, Lifecycle!Anything
<1>4. QED
  BY <1>2, <1>3

(* A Startup that was entered into the call without a fault may lead to a  *)
(* run mode; check_state has seen to the faults.                           *)
LEMMA CallSequenceImplements ==
  ASSUME ManualStop, TypeInv, TypeInv', NEW ok \in BOOLEAN, NEW res, call_sequence(ok, res)
  PROVE  Lifecycle!Next
<1>1. /\ pc = "sequence" /\ alive /\ state \in States
      /\ state' \in {state} \cup {Paths[state][p].ret : p \in DOMAIN Paths[state]}
  BY CallEffect DEF call_sequence, TypeInv, Typed
<1>2. CASE state' = state \/ ~alive'
  <2>1. ~alive' => Phase' = "booting"
    BY DEF Phase
  <2>2. alive' /\ state' = state => Phase' = Phase
    BY <1>1 DEF Phase
  <2>3. Phase' = Phase \/ Phase' = "booting"
    BY <1>2, <2>1, <2>2
  <2>4. QED
    BY <2>3, SignalStep
<1>3. CASE state' # state /\ alive'
  <2>1. \/ state = "Startup" /\ state' \in {"RunMode1", "RunMode2"}
        \/ state = "Shutdown" /\ state' = "Ready"
        \/ state = "Ready" /\ state' = "Startup"
    BY <1>1, <1>3, ReturnsFrom DEF ManualStop
  <2>2. state = "Startup" => ~faulted
    BY <1>1 DEF TypeInv, Checked
  <2>3. CASE state = "Startup"
    <3>1. Phase = "starting" /\ Phase' = "running"
      BY <1>1, <1>3, <2>1, <2>3 DEF Phase, Running
    <3>2. QED
      BY <2>2, <2>3, <3>1
      DEF TypeInv, Typed, Lifecycle!Next, Lifecycle!Run, Lifecycle!Move, Lifecycle!Anything
  <2>4. CASE state = "Shutdown"
    <3>1. Phase = "stopping" /\ Phase' = "off"
      BY <1>1, <1>3, <2>1, <2>4 DEF Phase, Running
    <3>2. QED
      BY <3>1 DEF TypeInv, Typed, Lifecycle!Next, Lifecycle!Rest, Lifecycle!Move, Lifecycle!Anything
  <2>5. CASE state = "Ready"
    <3>1. Phase = "off" /\ Phase' = "starting"
      BY <1>1, <1>3, <2>1, <2>5 DEF Phase, Running
    <3>2. QED
      BY <3>1 DEF TypeInv, Typed, Lifecycle!Next, Lifecycle!Start, Lifecycle!Move, Lifecycle!Anything
  <2>6. QED
    BY <2>1, <2>3, <2>4, <2>5
<1>4. QED
  BY <1>2, <1>3

(* What a state function leads to is a move of the life cycle. *)
LEMMA StateFunctionImplements ==
  ASSUME TypeInv, TypeInv', StateFunction
  PROVE  Lifecycle!Next
<1>1. alive /\ alive'
  BY DEF StateFunction
<1>2. \/ state' = state
      \/ state = "Init" /\ state' = "Ready"
      \/ state = "Ready" /\ state' = "Startup"
      \/ state = "RunMode1" /\ state' = "Standby"
      \/ state = "Standby" /\ state' = "RunMode1"
      \/ state = "Shutdown" /\ state' = "Ready"
  BY DEF StateFunction, init_state, ready_state, startup_state, runmode1_state,
         runmode2_state, standby_state, shutdown_state
<1>3. \/ Phase' = Phase
      \/ Phase = "booting" /\ Phase' = "off"
      \/ Phase = "off" /\ Phase' = "starting"
      \/ Phase = "stopping" /\ Phase' = "off"
  <2>1. CASE state' = state
    BY <1>1, <2>1 DEF Phase
  <2>2. CASE state = "Init" /\ state' = "Ready"
    BY <1>1, <2>2 DEF Phase, Running
  <2>3. CASE state = "Ready" /\ state' = "Startup"
    BY <1>1, <2>3 DEF Phase, Running
  <2>4. CASE state \in {"RunMode1", "Standby"} /\ state' \in {"RunMode1", "Standby"}
    BY <1>1, <2>4 DEF Phase, Running
  <2>5. CASE state = "Shutdown" /\ state' = "Ready"
    BY <1>1, <2>5 DEF Phase, Running
  <2>6. QED
    BY <1>2, <2>1, <2>2, <2>3, <2>4, <2>5
<1>4. QED
  BY <1>3, SignalStep DEF TypeInv, Typed, Lifecycle!Next, Lifecycle!Boot, Lifecycle!Start,
     Lifecycle!Rest, Lifecycle!Move, Lifecycle!Anything

(* Every step of the state machine is a step of the life cycle.            *)
LEMMA StepImplements ==
  ManualStop /\ TypeInv /\ TypeInv' /\ [Next]_vars => [Lifecycle!Next]_(Lifecycle!vars)
<1> SUFFICES ASSUME ManualStop, TypeInv, TypeInv', [Next]_vars
             PROVE  Lifecycle!Next \/ UNCHANGED Lifecycle!vars
  OBVIOUS
<1>1. CASE UNCHANGED vars
  BY <1>1 DEF vars, control, commands, outside, Phase, Lifecycle!vars
<1>2. CASE GetValues \/ set_values
  <2>1. UNCHANGED <<state, alive>>
    BY <1>2 DEF GetValues, set_values, control
  <2>2. Phase' = Phase
    BY <2>1 DEF Phase
  <2>3. QED
    BY <2>2, SignalStep
<1>3. CASE process_state /\ ~(GetValues \/ set_values)
  BY <1>3, CheckStateImplements, CallSequenceImplements, StateFunctionImplements
  DEF process_state
<1>4. CASE Next /\ ~process_state
  BY <1>4, MessagesImplement DEF Next
<1>5. QED
  BY <1>1, <1>2, <1>3, <1>4

(* The site's life is booting, off, starting, running, stopping, off: it   *)
(* never runs without having started, no start with a latched fault gets   *)
(* to running, and only a fault or the stop command leads to stopping      *)
(* (Site_Manager::process_state). For all configured sequences that do not *)
(* lead to Shutdown themselves.                                            *)
THEOREM LifecycleTheorem == ManualStop /\ Spec => ImplementsLifecycle
<1>1. Init => Lifecycle!Init
  BY DEF Init, Booted, Phase, Lifecycle!Init
<1>2. CASE ManualStop
  <2>1. TypeInv /\ TypeInv' /\ [Next]_vars => [Lifecycle!Next]_(Lifecycle!vars)
    BY <1>2, StepImplements
  <2>2. QED
    BY <1>1, <2>1, TypeInvInitially, TypeInvNext, PTL
    DEF Spec, ImplementsLifecycle, Lifecycle!Spec
<1>3. QED
  BY <1>2

-----------------------------------------------------------------------------
(* The site starts on command.                                             *)

(* Before a restart nothing is replayed, and a start command that stands,  *)
(* like a Startup, is younger than the last shutdown.                      *)
CommandInv ==
  restarts = 0 => /\ replay = {}
                  /\ enable => ~stopped
                  /\ state = "Startup" => ~stopped

(* Every step keeps the command invariant. *)
LEMMA CommandInvNext == ManualStart /\ TypeInv /\ CommandInv /\ [Next]_vars => CommandInv'
<1> SUFFICES ASSUME ManualStart, TypeInv, CommandInv, [Next]_vars, restarts' = 0 PROVE CommandInv'
  BY DEF CommandInv
<1>1. CASE UNCHANGED vars
  BY <1>1 DEF vars, control, commands, outside, CommandInv
<1>2. CASE GetValues
  BY <1>2 DEF GetValues, outside, CommandInv
<1>3. ASSUME NEW raise \in BOOLEAN, check_state(raise)
      PROVE  CommandInv'
  BY <1>3 DEF check_state, commands, outside, CommandInv
<1>4. ASSUME NEW ok \in BOOLEAN, NEW res, call_sequence(ok, res)
      PROVE  CommandInv'
  <2>1. /\ UNCHANGED <<enable, replay, restarts, stopped>>
        /\ state' \in {state} \cup {Paths[state][p].ret : p \in DOMAIN Paths[state]}
    BY <1>4, CallEffect DEF commands, outside
  <2>2. state' = "Startup" => state = "Startup"
    BY <2>1, ReturnsFrom DEF ManualStart, TypeInv, Typed
  <2>3. QED
    BY <2>1, <2>2 DEF CommandInv
<1>5. CASE StateFunction
  <2>1. state' = "Startup" => state = "Startup" \/ enable
    BY <1>5 DEF StateFunction, init_state, ready_state, startup_state, runmode1_state,
       runmode2_state, standby_state, shutdown_state
  <2>2. UNCHANGED <<enable, replay, restarts, stopped>>
    BY <1>5 DEF StateFunction
  <2>3. QED
    BY <2>1, <2>2 DEF CommandInv
<1>6. CASE set_values
  BY <1>6 DEF set_values, ui_configuration, control, CommandInv
<1>7. ASSUME NEW b \in BOOLEAN, SetEnable(b) \/ SetDisable(b) \/ SetStandby(b) \/ DebugFault(b)
      PROVE  CommandInv'
  BY <1>7 DEF SetEnable, SetDisable, SetStandby, DebugFault, control, commands, outside,
     CommandInv, TypeInv, Typed
<1>8. CASE PressClear
  BY <1>8 DEF PressClear, control, outside, CommandInv
<1>9. CASE Restart
  BY <1>9 DEF Restart, TypeInv, Typed
<1>10. ASSUME NEW m \in replay, delayed_set(m)
       PROVE  CommandInv'
  BY <1>10 DEF delayed_set, CommandInv
<1>11. QED
  BY <1>1, <1>2, <1>3, <1>4, <1>5, <1>6, <1>7, <1>8, <1>9, <1>10 DEF Next, process_state

(* Until the process is restarted, the site is in Startup only if an       *)
(* operator's start command came after the last shutdown (ready_state,     *)
(* ui_configuration): for all configured sequences, also those that        *)
(* complete in one iteration, if that of Ready does not start the site.    *)
THEOREM CommandTheorem == ManualStart /\ Spec => []CommandedUntilRestart
<1>1. Init => CommandInv
  BY DEF Init, Booted, CommandInv
<1>2. CommandInv => CommandedUntilRestart
  BY DEF CommandInv, CommandedUntilRestart
<1>3. CASE ManualStart
  <2>1. TypeInv /\ CommandInv /\ [Next]_vars => CommandInv'
    BY <1>3, CommandInvNext
  <2>2. QED
    BY <1>1, <1>2, <2>1, TypeInvInitially, TypeInvNext, PTL DEF Spec
<1>4. QED
  BY <1>3
-----------------------------------------------------------------------------
(* No power is commanded while the site is off.                            *)

(* The first call of Shutdown does not complete it: it has a second step,  *)
(* as in all configurations of the repository, or it waits for a debounced *)
(* condition. Otherwise shutdown_state would not run at all.               *)
SlowShutdown ==
  LET steps == Paths["Shutdown"][1].steps
  IN  \/ Len(steps) > 1
      \/ \A c \in DOMAIN steps[1].exits : c = 1 /\ Debounced(steps[1].exits, c)

(* A debounced condition does not let a step pass in the call that re-arms *)
(* its timer.                                                              *)
LEMMA RearmedWaits ==
  ASSUME NEW paths, IsConfig(paths), NEW q \in Sequence(paths), AtStep(paths, q), NEW res,
         q.debounce_reset,
         \A c \in DOMAIN CurrentStep(paths, q).exits :
            c = 1 /\ Debounced(CurrentStep(paths, q).exits, c)
  PROVE  ~Passes(q, CurrentStep(paths, q).exits, res)
<1> DEFINE exits == CurrentStep(paths, q).exits
<1>1. exits \in Seq(Nat)
  BY DEF IsConfig, IsStep, CurrentStep, AtStep, Sequence
<1> HIDE DEF exits
<1>2. SUFFICES ASSUME NEW c \in DOMAIN exits, res[c] PROVE Waiting(q, exits, res, c)
  BY DEF Passes, exits
<1>3. c = 1 /\ Debounced(exits, c)
  BY DEF exits
<1>4. Rearmed(q, exits, res, c)
  BY <1>3 DEF Rearmed
<1>5. exits[c] \div 1000 \in Nat
  BY <1>1, SecondsType
<1>6. DebounceTimer(q, exits, res, c) > 0
  BY <1>4, <1>5 DEF DebounceTimer
<1>7. QED
  BY <1>2, <1>3, <1>6 DEF Waiting

(* A call at the first step of the first path, just reset, leaves the      *)
(* sequence there, at the second step, or at the first step of a path.     *)
LEMMA ResetCallStays ==
  ASSUME NEW paths, IsConfig(paths), NEW q \in Sequence(paths), q.path = 1, q.step = 1,
         q.check = 1, NEW ok, NEW res,
         \/ Len(paths[1].steps) > 1
         \/ \A c \in DOMAIN paths[1].steps[1].exits :
               c = 1 /\ Debounced(paths[1].steps[1].exits, c)
  PROVE  ~Done(paths, Attempt(paths, q, ok, res))
<1> DEFINE e == call_sequence_entry(q, ok)
           r == Attempt(paths, q, ok, res)
           st == CurrentStep(paths, e)
           h == handle_exit_action(e, st.exits, res)
<1>1. \A p \in DOMAIN paths : Len(paths[p].steps) \in Nat \ {0}
  BY DEF IsConfig
<1>2. 1 \in DOMAIN paths /\ 1 \in DOMAIN paths[1].steps
  BY DEF IsConfig
<1>3. e \in Sequence(paths) /\ e.path = 1 /\ e.step = 1 /\ e.debounce_reset
  BY EntryType DEF call_sequence_entry, Sequence
<1>4. AtStep(paths, e) /\ st = paths[1].steps[1]
  BY <1>2, <1>3 DEF AtStep, CurrentStep
<1>5. r = e \/ r = call_sequence_exit(paths, e, res)
  BY DEF Attempt
<1>6. h \in Sequence(paths) /\ h.path = 1 /\ h.step = 1
  BY <1>3, <1>4, ExitActionType
<1>7. Passes(e, st.exits, res) => Len(paths[1].steps) > 1
  BY <1>3, <1>4, RearmedWaits
<1>8. Switches(e, st, res) => st.next \in DOMAIN paths
  BY <1>2, <1>4 DEF Switches, IsConfig, IsStep
<1>9. call_sequence_exit(paths, e, res) =
        IF Passes(e, st.exits, res)
          THEN [h EXCEPT !.step = h.step + 1, !.step_reset = TRUE, !.initial_exit = TRUE]
        ELSE IF Switches(e, st, res)
          THEN [h EXCEPT !.path = st.next, !.step = 1, !.check = 1,
                         !.step_reset = TRUE, !.initial_exit = FALSE]
        ELSE [h EXCEPT !.initial_exit = FALSE]
  BY DEF call_sequence_exit
<1> HIDE DEF e, r, st, h
<1>10. \/ r.path = 1 /\ r.step = 1
       \/ r.path = 1 /\ r.step = 2 /\ Len(paths[1].steps) > 1
       \/ r.path \in DOMAIN paths /\ r.step = 1
  <2>1. CASE r = e
    BY <1>3, <2>1
  <2>2. CASE r = call_sequence_exit(paths, e, res)
    <3>1. CASE Passes(e, st.exits, res)
      BY <1>6, <1>7, <1>9, <2>2, <3>1 DEF Sequence
    <3>2. CASE ~Passes(e, st.exits, res) /\ Switches(e, st, res)
      BY <1>6, <1>8, <1>9, <2>2, <3>2 DEF Sequence
    <3>3. CASE ~Passes(e, st.exits, res) /\ ~Switches(e, st, res)
      BY <1>6, <1>9, <2>2, <3>3 DEF Sequence
    <3>4. QED
      BY <3>1, <3>2, <3>3
  <2>3. QED
    BY <1>5, <2>1, <2>2
<1>11. ~Done(paths, r)
  BY <1>1, <1>2, <1>10 DEF Done
<1>12. QED
  BY <1>11 DEF r

(* The call that begins a shutdown leaves the site in Shutdown.            *)
LEMMA ShutdownBegins ==
  ASSUME SlowShutdown, TypeInv, NEW ok \in BOOLEAN, NEW res, call_sequence(ok, res),
         state = "Shutdown", sequence_reset
  PROVE  state' = "Shutdown"
<1> DEFINE P == Paths[state]
           q1 == Started
           q2 == Called(ok, res)
           done == Done(P, q2)
<1>1. state \in States /\ sequence[state] \in Sequence(P) /\ IsConfig(P)
  BY Configured DEF TypeInv, Typed
<1>2. Started = StartStep(reset_sequence(sequence[state]))
  BY DEF Started, Entered
<1>3. /\ reset_sequence(sequence[state]) \in Sequence(P)
      /\ reset_sequence(sequence[state]).path = 1
      /\ reset_sequence(sequence[state]).step = 1
      /\ reset_sequence(sequence[state]).check = 1
  BY <1>1, ResetType DEF reset_sequence, Sequence
<1>4. q1 \in Sequence(P) /\ q1.path = 1 /\ q1.step = 1
  BY <1>2, <1>3, StartStepType
<1>5. q1.check = 1
  BY <1>2, <1>3 DEF StartStep, reset_step, Sequence
<1>6. ~done
  BY <1>1, <1>4, <1>5, ResetCallStays DEF SlowShutdown, Called
<1>7. UNCHANGED state \/ state' = IF done THEN P[q2.path].ret ELSE state
  BY DEF call_sequence, Called, Started, Entered
<1>8. QED
  BY <1>6, <1>7

(* Power is commanded in the running states only, and in Shutdown up to    *)
(* its first shutdown_state; a running state was not Shutdown when it was  *)
(* last checked, so a shutdown from it resets the sequence.                *)
PowerInv ==
  /\ state \in {"Init", "Ready", "Startup"} => ~power
  /\ state \in Running => checked \in {"Startup"} \cup Running
  /\ state = "Shutdown" /\ power => pc = "state" \/ (pc = "sequence" /\ sequence_reset)

(* Every step keeps the power invariant.                                   *)
LEMMA PowerInvNext == SlowShutdown /\ TypeInv /\ PowerInv /\ [Next]_vars => PowerInv'
<1> SUFFICES ASSUME SlowShutdown, TypeInv, PowerInv, [Next]_vars PROVE PowerInv'
  OBVIOUS
<1>1. CASE UNCHANGED vars
  BY <1>1 DEF vars, control, PowerInv
<1>2. CASE GetValues
  BY <1>2 DEF GetValues, PowerInv
<1>3. ASSUME NEW raise \in BOOLEAN, check_state(raise)
      PROVE  PowerInv'
  <2>1. /\ pc = "check" /\ pc' = "sequence" /\ UNCHANGED power
        /\ state' = state \/ (state' = "Shutdown" /\ state # "Init")
        /\ checked' = state'
        /\ checked # state' => sequence_reset'
    BY <1>3 DEF check_state
  <2>2. CASE state' = state
    BY <2>1, <2>2 DEF PowerInv
  <2>3. CASE state' = "Shutdown" /\ state # "Shutdown" /\ state # "Init"
    <3>1. power => state \in Running
      BY <2>3 DEF PowerInv, TypeInv, Typed, States, Running
    <3>2. power => checked # "Shutdown"
      BY <3>1 DEF PowerInv, Running
    <3>3. QED
      BY <2>1, <2>3, <3>2 DEF PowerInv, Running
  <2>4. QED
    BY <2>1, <2>2, <2>3
<1>4. ASSUME NEW ok \in BOOLEAN, NEW res, call_sequence(ok, res)
      PROVE  PowerInv'
  <2>1. /\ pc = "sequence" /\ pc' = "state" /\ UNCHANGED <<checked, power>>
        /\ state' \in {state} \cup {Paths[state][p].ret : p \in DOMAIN Paths[state]}
    BY <1>4, CallEffect
  <2>2. state = checked /\ state \in States
    BY <2>1 DEF TypeInv, Typed, Checked
  <2>3. \/ state' = state
        \/ state = "Startup" /\ state' \in {"RunMode1", "RunMode2"}
        \/ state = "Shutdown" /\ state' = "Ready"
        \/ state = "Ready" /\ state' = "Startup"
        \/ state' = "Shutdown"
    BY <2>1, <2>2, ReturnsFrom
  <2>4. state = "Shutdown" /\ power => state' = "Shutdown"
    BY <1>4, <2>1, ShutdownBegins DEF PowerInv
  <2>5. QED
    BY <2>1, <2>2, <2>3, <2>4 DEF PowerInv, Running
<1>5. CASE StateFunction
  <2>1. pc = "state" /\ UNCHANGED checked
    BY <1>5 DEF StateFunction
  <2>2. \/ state' \in {"Ready", "Shutdown"} /\ ~power'
        \/ state \in {"Ready", "Startup"} /\ state' \in {"Ready", "Startup"} /\ power' = power
        \/ state \in Running /\ state' \in Running
    BY <1>5 DEF StateFunction, init_state, ready_state, startup_state, runmode1_state,
       runmode2_state, standby_state, shutdown_state, Running
  <2>3. QED
    BY <2>1, <2>2 DEF PowerInv, Running
<1>6. CASE set_values
  BY <1>6 DEF set_values, control, PowerInv
<1>7. ASSUME NEW b \in BOOLEAN, SetEnable(b) \/ SetDisable(b) \/ SetStandby(b) \/ DebugFault(b)
      PROVE  PowerInv'
  BY <1>7 DEF SetEnable, SetDisable, SetStandby, DebugFault, control, PowerInv
<1>8. CASE PressClear
  BY <1>8 DEF PressClear, control, PowerInv
<1>9. CASE Restart
  BY <1>9 DEF Restart, PowerInv, Running
<1>10. ASSUME NEW m \in replay, delayed_set(m)
       PROVE  PowerInv'
  BY <1>10 DEF delayed_set, control, PowerInv
<1>11. QED
  BY <1>1, <1>2, <1>3, <1>4, <1>5, <1>6, <1>7, <1>8, <1>9, <1>10 DEF Next, process_state

(* No power command stands in Ready or Startup, however the running states *)
(* were left (shutdown_state, Site_Manager.cpp:2913), when the first call  *)
(* of Shutdown does not complete it.                                       *)
THEOREM PowerTheorem == SlowShutdown /\ Spec => []PowerOffWhenReady
<1>1. Init => PowerInv
  BY DEF Init, Booted, PowerInv, Running
<1>2. PowerInv => PowerOffWhenReady
  BY DEF PowerInv, PowerOffWhenReady
<1>3. QED
  <2>1. CASE SlowShutdown
    <3>1. TypeInv /\ PowerInv /\ [Next]_vars => PowerInv'
      BY <2>1, PowerInvNext
    <3>2. QED
      BY <1>1, <1>2, <3>1, TypeInvInitially, TypeInvNext, PTL DEF Spec
  <2>2. QED
    BY <2>1
-----------------------------------------------------------------------------
(* A debounce starts anew with the step.                                   *)

(* No step has several debounced conditions, as in all configurations of   *)
(* the repository: debounce_reset re-arms one timer of a step only.        *)
OneDebounced ==
  \A s \in States : \A p \in DOMAIN Paths[s] : \A i \in DOMAIN Paths[s][p].steps :
     LET exits == Paths[s][p].steps[i].exits
     IN  \A c, d \in DOMAIN exits : Debounced(exits, c) /\ Debounced(exits, d) => c = d

(* The call that enters a debounced step does not go on to the next one.   *)
LEMMA DebouncedStays ==
  ASSUME NEW paths, IsConfig(paths), NEW q \in Sequence(paths), AtStep(paths, q),
         q.check = q.step, NEW ok, NEW res,
         \A c \in DOMAIN CurrentStep(paths, q).exits :
            c = 1 /\ Debounced(CurrentStep(paths, q).exits, c)
  PROVE  Attempt(paths, q, ok, res).step <= q.step
<1> DEFINE e == call_sequence_entry(q, ok)
           r == Attempt(paths, q, ok, res)
           st == CurrentStep(paths, e)
           h == handle_exit_action(e, st.exits, res)
<1>1. e \in Sequence(paths) /\ e.path = q.path /\ e.step = q.step /\ e.debounce_reset
  BY EntryType DEF call_sequence_entry, Sequence
<1>2. AtStep(paths, e) /\ st = CurrentStep(paths, q)
  BY <1>1 DEF AtStep, CurrentStep
<1>3. r = e \/ r = call_sequence_exit(paths, e, res)
  BY DEF Attempt
<1>4. h \in Sequence(paths) /\ h.step = q.step
  BY <1>1, <1>2, ExitActionType
<1>5. ~Passes(e, st.exits, res)
  BY <1>1, <1>2, RearmedWaits
<1>6. call_sequence_exit(paths, e, res) =
        IF Switches(e, st, res)
          THEN [h EXCEPT !.path = st.next, !.step = 1, !.check = 1,
                         !.step_reset = TRUE, !.initial_exit = FALSE]
        ELSE [h EXCEPT !.initial_exit = FALSE]
  BY <1>5 DEF call_sequence_exit
<1>7. q.step \in Nat \ {0}
  BY DEF Sequence
<1> HIDE DEF e, r, st, h
<1>8. call_sequence_exit(paths, e, res).step \in {1, q.step}
  BY <1>4, <1>6 DEF Sequence
<1>9. r.step <= q.step
  BY <1>1, <1>3, <1>7, <1>8
<1>10. QED
  BY <1>9 DEF r

(* The same of the site's call, which may begin with a reset.              *)
LEMMA DebouncedCall ==
  ASSUME OneDebounced, TypeInv, NEW ok \in BOOLEAN, NEW res, call_sequence(ok, res),
         EntersDebounced(state)
  PROVE  sequence'[state].step <= EnteredRecord(state).step
<1> DEFINE P == Paths[state]
           q0 == EnteredRecord(state)
           q1 == Started
           q2 == Called(ok, res)
<1>1. state \in States /\ DOMAIN sequence = States /\ IsConfig(P) /\ pc = "sequence"
  BY Configured DEF TypeInv, Typed, call_sequence
<1>2. /\ ~q0.bypass /\ q0.check = q0.step
      /\ \A c \in DOMAIN CurrentStep(P, q0).exits : Debounced(CurrentStep(P, q0).exits, c)
  BY DEF EntersDebounced
<1>3. q0 = Entered
  BY DEF EnteredRecord, Entered
<1>4. q0 \in Sequence(P)
  BY <1>1, ResetType DEF EnteredRecord, TypeInv, Typed
<1>5. q1.path = q0.path /\ q1.step = q0.step /\ q1.bypass = q0.bypass
  BY <1>3, <1>4, StartStepType DEF Started
<1>6. q1.check = q0.check
  BY <1>3, <1>4 DEF Started, StartStep, reset_step, Sequence
<1>7. q1 \in Sequence(P) /\ AtStep(P, q1) /\ q2 \in Sequence(P)
  BY <1>1, <1>2, <1>5, CalledTyped
<1>8. CurrentStep(P, q1) = CurrentStep(P, q0)
  BY <1>5 DEF CurrentStep
<1>9. \A c \in DOMAIN CurrentStep(P, q1).exits : c = 1
  <2>1. CurrentStep(P, q1).exits \in Seq(Nat)
    BY <1>1, <1>7 DEF IsConfig, IsStep, CurrentStep, AtStep, Sequence
  <2>2. ASSUME NEW c \in DOMAIN CurrentStep(P, q1).exits
        PROVE  1 \in DOMAIN CurrentStep(P, q1).exits
    BY <2>1
  <2>3. \A c, d \in DOMAIN CurrentStep(P, q1).exits :
           /\ Debounced(CurrentStep(P, q1).exits, c)
           /\ Debounced(CurrentStep(P, q1).exits, d)
           => c = d
    BY <1>1, <1>7 DEF OneDebounced, CurrentStep, AtStep, Sequence
  <2>4. QED
    BY <1>2, <1>8, <2>2, <2>3
<1>10. q2.step <= q0.step
  BY <1>1, <1>2, <1>5, <1>6, <1>7, <1>8, <1>9, DebouncedStays DEF Called
<1>11. sequence' = [sequence EXCEPT ![state] = [q2 EXCEPT !.bypass = Done(P, q2)]]
  <2>1. ~q1.bypass
    BY <1>2, <1>5
  <2>2. QED
    BY <2>1 DEF call_sequence, Called, Started, Entered
<1> HIDE DEF q0, q1, q2
<1>12. sequence'[state].step = q2.step
  BY <1>1, <1>7, <1>11 DEF Sequence
<1>13. QED
  BY <1>10, <1>12 DEF q0

(* A step with a debounced condition is not left by the call that enters   *)
(* it (handle_exit_action, Sequence.cpp:243), however the sequence was     *)
(* interrupted before, when no step has several debounced conditions.      *)
THEOREM DebounceTheorem == OneDebounced /\ Spec => DebounceRestarts
<1>1. ASSUME OneDebounced, TypeInv, [Next]_vars, pc = "sequence", pc' = "state",
             EntersDebounced(state)
      PROVE  sequence'[state].step <= EnteredRecord(state).step
  <2>1. \E ok \in BOOLEAN, res \in Results : call_sequence(ok, res)
    <3>1. pc' # pc
      BY <1>1
    <3>2. ~UNCHANGED vars
      BY <3>1 DEF vars
    <3>3. QED
      BY <1>1, <3>1, <3>2
      DEF Next, process_state, GetValues, check_state, StateFunction, set_values, SetEnable,
          SetDisable, SetStandby, DebugFault, PressClear, Restart, delayed_set
  <2>2. QED
    BY <1>1, <2>1, DebouncedCall
<1>2. QED
  <2>1. CASE OneDebounced
    <3>1. TypeInv /\ [Next]_vars =>
            [pc = "sequence" /\ pc' = "state" /\ EntersDebounced(state)
               => sequence'[state].step <= EnteredRecord(state).step]_vars
      BY <1>1, <2>1
    <3>2. QED
      BY <3>1, TypeInvInitially, TypeInvNext, PTL DEF Spec, DebounceRestarts
  <2>2. QED
    BY <2>1
=============================================================================
