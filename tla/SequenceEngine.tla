--------------------------- MODULE SequenceEngine ---------------------------
(* The sequence interpreter of site_controller (Sequence.cpp, Step.cpp,    *)
(* Path.cpp), which runs both the sequence of each site state and the      *)
(* automated actions of an energy storage asset (class Action derives from *)
(* class Sequence). One call per iteration of the control loop moves a     *)
(* sequence through its steps: the entry actions of a step are tried until *)
(* one succeeds, then its exit conditions until one holds, debounced if so *)
(* configured; the first failed attempt may switch to another path; a step *)
(* that lasts longer than the path's timeout is reported.                  *)
(*                                                                         *)
(* The module has no variables: it operates on the record q of a sequence  *)
(* and on the exit timer t that all sequences of an owner share. Timers    *)
(* count the iterations left, one second being one iteration: they are     *)
(* armed with clock_gettime inside an iteration and compared with the time *)
(* read at the start of a later one, so a timer of n seconds is armed with *)
(* n + 1 and has expired at 0. Indices start at 1.                         *)
EXTENDS Integers, Sequences

(* A configured sequence is a sequence of paths                            *)
(*   [timeout |-> seconds or -1, ret |-> state, steps |-> Seq(step)]       *)
(* and a step is                                                           *)
(*   [exits |-> debounce_timer_ms of each exit condition,                  *)
(*    next  |-> path to switch to, 0 when path_switch is false].           *)
IsStep(st, paths) ==
  /\ st.exits \in Seq(Nat)
  /\ st.next \in {0} \cup DOMAIN paths

IsConfig(paths) ==
  /\ Len(paths) \in Nat \ {0}
  /\ DOMAIN paths = 1 .. Len(paths)
  /\ \A p \in DOMAIN paths :
       /\ paths[p].timeout \in Nat \cup {-1}
       /\ DOMAIN paths[p].steps = 1 .. Len(paths[p].steps)
       /\ Len(paths[p].steps) \in Nat \ {0}
       /\ \A i \in DOMAIN paths[p].steps : IsStep(paths[p].steps[i], paths)

(* Every exit condition owns a debounce timer.                             *)
StepConditions(paths, p, i) == {<<p, i, c>> : c \in DOMAIN paths[p].steps[i].exits}

Conditions(paths) ==
  UNION {UNION {StepConditions(paths, p, i) : i \in DOMAIN paths[p].steps} :
            p \in DOMAIN paths}

Sequence(paths) ==
  [path : DOMAIN paths, step : Nat \ {0}, check : Nat \ {0},
   step_reset : BOOLEAN, debounce_reset : BOOLEAN, bypass : BOOLEAN,
   initial_exit : BOOLEAN, debounce : [Conditions(paths) -> Nat]]

(* The step the interpreter is about to read exists.                       *)
AtStep(paths, q) == q.step \in DOMAIN paths[q.path].steps

Tick(n) == IF n = 0 THEN 0 ELSE n - 1

TickSequence(q) == [q EXCEPT !.debounce = [c \in DOMAIN q.debounce |-> Tick(q.debounce[c])]]

NewSequence(paths) ==
  [path |-> 1, step |-> 1, check |-> 1, step_reset |-> TRUE,
   debounce_reset |-> TRUE, bypass |-> FALSE, initial_exit |-> TRUE,
   debounce |-> [c \in Conditions(paths) |-> 0]]

reset_sequence(q) ==
  [q EXCEPT !.path = 1, !.step = 1, !.check = 1, !.step_reset = TRUE,
            !.debounce_reset = TRUE, !.bypass = FALSE, !.initial_exit = TRUE]

reset_step(q) == [q EXCEPT !.step_reset = FALSE, !.initial_exit = TRUE]

(* Without a timeout the target is the present time.                       *)
ExitTimer(path) == IF path.timeout = -1 THEN 1 ELSE path.timeout + 1

StartStep(q) == IF q.step_reset THEN reset_step(q) ELSE q

(* Variant: the timer is armed by every call, not by the                   *)
(* first one of a step.                                                    *)
StartTimerAtEveryCall(paths, q, t) == ExitTimer(paths[q.path])

StartTimer(paths, q, t) == IF q.step_reset THEN ExitTimer(paths[q.path]) ELSE t

CurrentStep(paths, q) == paths[q.path].steps[q.step]

(* Variant: debounce_reset is not raised.                                  *)
call_sequence_entryNoDebounce(q, ok) == [q EXCEPT !.check = IF ok THEN @ + 1 ELSE @]

(* ok: some entry action succeeded.                                        *)
call_sequence_entry(q, ok) ==
  [q EXCEPT !.debounce_reset = TRUE, !.check = IF ok THEN @ + 1 ELSE @]

-----------------------------------------------------------------------------
(* The exit conditions of a step, evaluated in order; res[c]: condition c  *)
(* has its value. debounce_reset is one flag for the whole step, so it     *)
(* re-arms only the first of the debounced conditions; the others are      *)
(* re-armed only by a wrong value.                                         *)
Debounced(exits, c) == exits[c] > 0

Rearmed(q, exits, res, c) ==
  /\ Debounced(exits, c)
  /\ \/ ~res[c]
     \/ q.debounce_reset /\ \A d \in 1 .. c - 1 : ~Debounced(exits, d)

(* The milliseconds are cut to whole seconds.                              *)
DebounceTimer(q, exits, res, c) ==
  IF Rearmed(q, exits, res, c) THEN exits[c] \div 1000 + 1
                               ELSE q.debounce[<<q.path, q.step, c>>]

Waiting(q, exits, res, c) ==
  Debounced(exits, c) /\ res[c] /\ DebounceTimer(q, exits, res, c) > 0

handle_exit_action(q, exits, res) ==
  [q EXCEPT
     !.debounce_reset = @ /\ \A c \in DOMAIN exits : ~Debounced(exits, c),
     !.debounce = [k \in DOMAIN @ |->
        IF k[1] = q.path /\ k[2] = q.step
          THEN DebounceTimer(q, exits, res, k[3]) ELSE @[k]]]

Passes(q, exits, res) ==
  \E c \in DOMAIN exits : res[c] /\ ~Waiting(q, exits, res, c)

(* A condition that failed otherwise than by its debounce timer moves the  *)
(* sequence to the next path, on the first attempt only.                   *)
Switches(q, st, res) ==
  /\ q.initial_exit
  /\ st.next # 0
  /\ \E c \in DOMAIN st.exits : ~Waiting(q, st.exits, res, c)

call_sequence_exit(paths, q, res) ==
  LET st == CurrentStep(paths, q)
      h  == handle_exit_action(q, st.exits, res)
  IN  IF Passes(q, st.exits, res)
        THEN [h EXCEPT !.step = @ + 1, !.step_reset = TRUE, !.initial_exit = TRUE]
      ELSE IF Switches(q, st, res)
        THEN [h EXCEPT !.path = st.next, !.step = 1, !.check = 1,
                       !.step_reset = TRUE, !.initial_exit = FALSE]
      ELSE [h EXCEPT !.initial_exit = FALSE]

(* Entry and exit may both happen in one call.                             *)
Attempt(paths, q, ok, res) ==
  LET e == IF q.check = q.step THEN call_sequence_entry(q, ok) ELSE q
  IN  IF e.check > e.step THEN call_sequence_exit(paths, e, res) ELSE e

Done(paths, q) == q.step > Len(paths[q.path].steps)

(* The timeout is that of the path the sequence is in after the attempt,   *)
(* the timer the one of the step it was in before.                         *)
Late(paths, q, t) == paths[q.path].timeout # -1 /\ t = 0

LateTimer(paths, q, t) == IF Late(paths, q, t) THEN ExitTimer(paths[q.path]) ELSE t
=============================================================================
