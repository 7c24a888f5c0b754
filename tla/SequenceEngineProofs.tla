------------------------ MODULE SequenceEngineProofs ------------------------
(* What the operations of the sequence interpreter return, for every       *)
(* configured sequence: they keep the record of a sequence well formed,    *)
(* and a sequence that is not done stands at one of its path's steps.      *)
EXTENDS SequenceEngine, TLAPS

(* Whole seconds of a debounce time.                                       *)
LEMMA SecondsType ==
  ASSUME NEW n \in Nat
  PROVE  n \div 1000 \in Nat
OBVIOUS

(* Counting down keeps a timer a natural number.                           *)
LEMMA TickType ==
  ASSUME NEW n \in Nat
  PROVE  Tick(n) \in Nat
BY DEF Tick

(* A path's timer is a natural number.                                     *)
LEMMA ExitTimerType ==
  ASSUME NEW paths, IsConfig(paths), NEW p \in DOMAIN paths
  PROVE  ExitTimer(paths[p]) \in Nat
BY DEF IsConfig, ExitTimer

(* The constructor's record is well formed and stands at the first step.   *)
LEMMA NewSequenceType ==
  ASSUME NEW paths, IsConfig(paths)
  PROVE  NewSequence(paths) \in Sequence(paths) /\ AtStep(paths, NewSequence(paths))
<1>1. 1 \in DOMAIN paths /\ 1 \in DOMAIN paths[1].steps
  BY DEF IsConfig
<1>2. QED
  BY <1>1 DEF NewSequence, Sequence, AtStep

(* The first step of any path is a place for a sequence.                   *)
LEMMA FirstStepType ==
  ASSUME NEW paths, NEW q \in Sequence(paths), NEW p \in DOMAIN paths
  PROVE  [q EXCEPT !.path = p, !.step = 1, !.check = 1] \in Sequence(paths)
<1> DEFINE r == [q EXCEPT !.path = p]
           t == [r EXCEPT !.step = 1]
<1>1. r \in Sequence(paths)
  BY DEF Sequence
<1>2. t \in Sequence(paths)
  <2> HIDE DEF r
  <2>1. QED
    BY <1>1 DEF Sequence
<1>3. [t EXCEPT !.check = 1] \in Sequence(paths)
  <2> HIDE DEF t
  <2>1. QED
    BY <1>2 DEF Sequence
<1>4. QED
  BY <1>3

(* reset_sequence keeps the record well formed and leads to the first step.*)
LEMMA ResetType ==
  ASSUME NEW paths, IsConfig(paths), NEW q \in Sequence(paths)
  PROVE  /\ reset_sequence(q) \in Sequence(paths)
         /\ AtStep(paths, reset_sequence(q))
         /\ ~reset_sequence(q).bypass
<1>1. 1 \in DOMAIN paths /\ 1 \in DOMAIN paths[1].steps
  BY DEF IsConfig
<1>2. reset_sequence(q) \in Sequence(paths)
  <2> DEFINE r == [q EXCEPT !.path = 1, !.step = 1, !.check = 1]
  <2>1. r \in Sequence(paths)
    BY <1>1, FirstStepType
  <2>2. reset_sequence(q) = [r EXCEPT !.step_reset = TRUE, !.debounce_reset = TRUE,
                                     !.bypass = FALSE, !.initial_exit = TRUE]
    BY DEF reset_sequence
  <2> HIDE DEF r
  <2>3. QED
    BY <2>1, <2>2 DEF Sequence
<1>3. reset_sequence(q).path = 1 /\ reset_sequence(q).step = 1 /\ ~reset_sequence(q).bypass
  BY DEF reset_sequence, Sequence
<1>4. QED
  BY <1>1, <1>2, <1>3 DEF AtStep

(* The clock moves nothing but the debounce timers.                        *)
LEMMA TickSequenceType ==
  ASSUME NEW paths, NEW q \in Sequence(paths)
  PROVE  /\ TickSequence(q) \in Sequence(paths)
         /\ TickSequence(q).path = q.path
         /\ TickSequence(q).step = q.step
         /\ TickSequence(q).bypass = q.bypass
<1>1. [c \in DOMAIN q.debounce |-> Tick(q.debounce[c])] \in [Conditions(paths) -> Nat]
  BY TickType DEF Sequence
<1>2. QED
  BY <1>1 DEF TickSequence, Sequence

(* The first call of a step keeps the record well formed and its place.    *)
LEMMA StartStepType ==
  ASSUME NEW paths, NEW q \in Sequence(paths)
  PROVE  /\ StartStep(q) \in Sequence(paths)
         /\ StartStep(q).path = q.path
         /\ StartStep(q).step = q.step
         /\ StartStep(q).bypass = q.bypass
BY DEF StartStep, reset_step, Sequence

(* The timer of a step is a natural number.                                *)
LEMMA StartTimerType ==
  ASSUME NEW paths, IsConfig(paths), NEW q \in Sequence(paths), NEW t \in Nat
  PROVE  StartTimer(paths, q, t) \in Nat
BY ExitTimerType DEF StartTimer, Sequence

(* The timer after a timeout is a natural number.                          *)
LEMMA LateTimerType ==
  ASSUME NEW paths, IsConfig(paths), NEW q \in Sequence(paths), NEW t \in Nat
  PROVE  LateTimer(paths, q, t) \in Nat
BY ExitTimerType DEF LateTimer, Sequence

(* An entry attempt keeps the record well formed and its place.            *)
LEMMA EntryType ==
  ASSUME NEW paths, NEW q \in Sequence(paths), NEW ok
  PROVE  /\ call_sequence_entry(q, ok) \in Sequence(paths)
         /\ call_sequence_entry(q, ok).path = q.path
         /\ call_sequence_entry(q, ok).step = q.step
<1>1. (IF ok THEN q.check + 1 ELSE q.check) \in Nat \ {0}
  BY DEF Sequence
<1>2. QED
  BY <1>1 DEF call_sequence_entry, Sequence

(* Evaluating the exit conditions of the present step changes nothing but  *)
(* its debounce timers and the flag that re-arms them.                     *)
LEMMA ExitActionType ==
  ASSUME NEW paths, IsConfig(paths), NEW q \in Sequence(paths), AtStep(paths, q), NEW res
  PROVE  LET h == handle_exit_action(q, CurrentStep(paths, q).exits, res)
         IN  h \in Sequence(paths) /\ h.path = q.path /\ h.step = q.step
<1> DEFINE exits == CurrentStep(paths, q).exits
           timers == [k \in DOMAIN q.debounce |->
                        IF k[1] = q.path /\ k[2] = q.step
                          THEN DebounceTimer(q, exits, res, k[3]) ELSE q.debounce[k]]
           flag == q.debounce_reset /\ \A c \in DOMAIN exits : ~Debounced(exits, c)
<1>1. exits \in Seq(Nat)
  BY DEF IsConfig, IsStep, CurrentStep, AtStep, Sequence
<1>2. timers \in [Conditions(paths) -> Nat]
  <2>1. DOMAIN q.debounce = Conditions(paths)
    BY DEF Sequence
  <2>2. ASSUME NEW k \in Conditions(paths)
        PROVE  timers[k] \in Nat
    <3>1. q.debounce[k] \in Nat
      BY DEF Sequence
    <3>2. CASE k[1] = q.path /\ k[2] = q.step
      <4>1. PICK p \in DOMAIN paths : \E i \in DOMAIN paths[p].steps :
                   k \in StepConditions(paths, p, i)
        BY DEF Conditions
      <4>2. PICK i \in DOMAIN paths[p].steps : k \in StepConditions(paths, p, i)
        BY <4>1
      <4>3. PICK c \in DOMAIN paths[p].steps[i].exits : k = <<p, i, c>>
        BY <4>2 DEF StepConditions
      <4>4. p = q.path /\ i = q.step /\ k[3] = c
        BY <3>2, <4>3
      <4>5. k = <<q.path, q.step, k[3]>> /\ k[3] \in DOMAIN exits
        BY <4>3, <4>4 DEF CurrentStep
      <4>6. exits[k[3]] \div 1000 + 1 \in Nat
        BY <1>1, <4>5, SecondsType
      <4>7. DebounceTimer(q, exits, res, k[3]) \in Nat
        BY <3>1, <4>5, <4>6 DEF DebounceTimer
      <4>8. QED
        BY <2>1, <3>2, <4>7
    <3>3. CASE ~(k[1] = q.path /\ k[2] = q.step)
      BY <2>1, <3>1, <3>3
    <3>4. QED
      BY <3>2, <3>3
  <2>3. QED
    BY <2>1, <2>2
<1>3. flag \in BOOLEAN
  BY DEF Sequence
<1>4. handle_exit_action(q, exits, res) = [q EXCEPT !.debounce_reset = flag, !.debounce = timers]
  BY DEF handle_exit_action
<1> HIDE DEF exits, timers, flag
<1>5. QED
  <2>1. handle_exit_action(q, exits, res) \in Sequence(paths)
    BY <1>2, <1>3, <1>4 DEF Sequence
  <2>2. /\ handle_exit_action(q, exits, res).path = q.path
        /\ handle_exit_action(q, exits, res).step = q.step
    BY <1>4 DEF Sequence
  <2>3. QED
    BY <2>1, <2>2 DEF exits

(* An exit attempt keeps the record well formed.                           *)
LEMMA ExitType ==
  ASSUME NEW paths, IsConfig(paths), NEW q \in Sequence(paths), AtStep(paths, q), NEW res
  PROVE  call_sequence_exit(paths, q, res) \in Sequence(paths)
<1> DEFINE st == CurrentStep(paths, q)
           h == handle_exit_action(q, st.exits, res)
<1>1. h \in Sequence(paths) /\ h.path = q.path /\ h.step = q.step
  BY ExitActionType
<1>2. st.next \in {0} \cup DOMAIN paths
  BY DEF IsConfig, IsStep, CurrentStep, AtStep, Sequence
<1>3. h.step + 1 \in Nat \ {0}
  BY <1>1 DEF Sequence
<1>4. Switches(q, st, res) => st.next \in DOMAIN paths
  BY <1>2 DEF Switches
<1>5. call_sequence_exit(paths, q, res) =
        IF Passes(q, st.exits, res)
          THEN [h EXCEPT !.step = h.step + 1, !.step_reset = TRUE, !.initial_exit = TRUE]
        ELSE IF Switches(q, st, res)
          THEN [h EXCEPT !.path = st.next, !.step = 1, !.check = 1,
                         !.step_reset = TRUE, !.initial_exit = FALSE]
        ELSE [h EXCEPT !.initial_exit = FALSE]
  BY DEF call_sequence_exit
<1> HIDE DEF st, h
<1>6. [h EXCEPT !.step = h.step + 1, !.step_reset = TRUE, !.initial_exit = TRUE]
        \in Sequence(paths)
  BY <1>1, <1>3 DEF Sequence
<1>7. [h EXCEPT !.initial_exit = FALSE] \in Sequence(paths)
  BY <1>1 DEF Sequence
<1>8. ASSUME st.next \in DOMAIN paths
      PROVE  [h EXCEPT !.path = st.next, !.step = 1, !.check = 1,
                       !.step_reset = TRUE, !.initial_exit = FALSE] \in Sequence(paths)
  <2> DEFINE r == [h EXCEPT !.path = st.next, !.step = 1, !.check = 1]
  <2>1. r \in Sequence(paths)
    BY <1>1, <1>8, FirstStepType
  <2>2. [r EXCEPT !.step_reset = TRUE, !.initial_exit = FALSE] \in Sequence(paths)
    <3> HIDE DEF r
    <3>1. QED
      BY <2>1 DEF Sequence
  <2>3. QED
    BY <2>2
<1>9. QED
  BY <1>4, <1>5, <1>6, <1>7, <1>8

(* A call of the interpreter at one of the path's steps keeps the record   *)
(* well formed; unless the sequence is done it stands at a step again.     *)
LEMMA AttemptType ==
  ASSUME NEW paths, IsConfig(paths), NEW q \in Sequence(paths), AtStep(paths, q),
         NEW ok, NEW res
  PROVE  /\ Attempt(paths, q, ok, res) \in Sequence(paths)
         /\ ~Done(paths, Attempt(paths, q, ok, res)) => AtStep(paths, Attempt(paths, q, ok, res))
<1> DEFINE e == IF q.check = q.step THEN call_sequence_entry(q, ok) ELSE q
           r == Attempt(paths, q, ok, res)
<1>1. e \in Sequence(paths) /\ AtStep(paths, e)
  BY EntryType DEF AtStep
<1>2. r = IF e.check > e.step THEN call_sequence_exit(paths, e, res) ELSE e
  BY DEF Attempt
<1> HIDE DEF e, r
<1>3. r \in Sequence(paths)
  BY <1>1, <1>2, ExitType
<1>4. ~Done(paths, r) => AtStep(paths, r)
  <2>1. r.path \in DOMAIN paths /\ r.step \in Nat \ {0}
    BY <1>3 DEF Sequence
  <2>2. /\ DOMAIN paths[r.path].steps = 1 .. Len(paths[r.path].steps)
        /\ Len(paths[r.path].steps) \in Nat
    BY <2>1 DEF IsConfig
  <2>3. QED
    BY <2>1, <2>2 DEF Done, AtStep
<1>5. QED
  BY <1>3, <1>4 DEF r
=============================================================================
