-------------------------- MODULE EssActionsProofs --------------------------
(* Proofs about the automated actions, for all actions and configurations. *)
EXTENDS EssActions, SequenceEngineProofs

(* The records of all actions are well formed.                             *)
Formed(f) == DOMAIN f = All /\ \A a \in All : f[a] \in Sequence(Paths[a])

(* Every action is configured.                                             *)
LEMMA Configured ==
  ASSUME NEW a \in All
  PROVE  IsConfig(Paths[a])
BY ConfigAssumption

(* The clock keeps the records well formed and every sequence in place.    *)
LEMMA TickedFormed ==
  ASSUME Formed(sequence)
  PROVE  /\ Formed(Ticked)
         /\ \A a \in All : AtStep(Paths[a], sequence[a]) => AtStep(Paths[a], Ticked[a])
BY TickSequenceType DEF Formed, Ticked, AtStep

(* Leaving an action keeps the state well typed, whatever was left behind  *)
(* in its record.                                                          *)
LEMMA ExitTyped ==
  ASSUME TypeOK, NEW a \in All, NEW st \in Statuses, NEW seqs, Formed(seqs),
         exit_automation(a, st, seqs)
  PROVE  /\ Formed(sequence')
         /\ status' \in [All -> Statuses] /\ status_swap' \in [All -> Statuses]
         /\ current' \in All \cup {NoAction}
         /\ quick' \in All \cup {NoAction, Wild}
         /\ Placed'
<1> DEFINE sd == ShutdownOf[a]
<1>1. sd \in Shutdowns \cup {NoAction}
  BY ConfigAssumption
<1>2. CASE sd = NoAction
  <2>1. /\ sequence' = seqs /\ current' = NoAction /\ quick' = NoAction
        /\ UNCHANGED status_swap
        /\ status' = [x \in All |->
              IF x = a THEN st
              ELSE IF a \in Shutdowns /\ x \in Actions /\ status[x] = "EXITING"
                THEN status_swap[x] ELSE status[x]]
    BY <1>2 DEF exit_automation
  <2>2. Placed'
    BY <2>1, ConfigAssumption DEF Placed
  <2>3. QED
    BY <2>1, <2>2 DEF TypeOK, Typed
<1>3. CASE sd # NoAction
  <2>1. /\ sequence' = [seqs EXCEPT ![sd] = enter_automation(seqs[sd])]
        /\ status' = [status EXCEPT ![a] = "EXITING", ![sd] = "IN_PROGRESS"]
        /\ status_swap' = [status_swap EXCEPT ![a] = st]
        /\ current' = sd /\ quick' = sd
    BY <1>3 DEF exit_automation
  <2>2. sd \in All
    BY <1>1, <1>3 DEF All
  <2>3. /\ enter_automation(seqs[sd]) \in Sequence(Paths[sd])
        /\ AtStep(Paths[sd], enter_automation(seqs[sd]))
    BY <2>2, Configured, ResetType DEF Formed, enter_automation
  <2>4. Formed(sequence') /\ sequence'[sd] = enter_automation(seqs[sd])
    BY <2>1, <2>2, <2>3 DEF Formed
  <2>5. Placed'
    BY <2>1, <2>2, <2>3, <2>4 DEF Placed
  <2>6. /\ status' \in [All -> Statuses] /\ status_swap' \in [All -> Statuses]
    BY <2>1, <2>2 DEF TypeOK, Typed, Statuses
  <2>7. QED
    BY <2>1, <2>2, <2>4, <2>5, <2>6
<1>4. QED
  BY <1>2, <1>3

(* Clearing an action keeps the records well formed and leaves it at its   *)
(* first step.                                                             *)
LEMMA ClearTyped ==
  ASSUME NEW a \in All, NEW seqs, Formed(seqs), status \in [All -> Statuses],
         clear_action(a, seqs)
  PROVE  /\ Formed(sequence') /\ status' \in [All -> Statuses]
         /\ AtStep(Paths[a], sequence'[a])
         /\ \A x \in All \ {a} : sequence'[x] = seqs[x]
<1>1. /\ reset_sequence(seqs[a]) \in Sequence(Paths[a])
      /\ AtStep(Paths[a], reset_sequence(seqs[a]))
  BY Configured, ResetType DEF Formed
<1>2. /\ sequence' = [seqs EXCEPT ![a] = reset_sequence(seqs[a])]
      /\ status' = [status EXCEPT ![a] = "INACTIVE"]
  BY DEF clear_action
<1>3. QED
  BY <1>1, <1>2 DEF Formed, Statuses

(* The record an action has after the call of this iteration.              *)
Called(ok, res) ==
  Attempt(Paths[Target], StartStep(TickSequence(sequence[Target])), ok, res)

(* A call keeps the record well formed; unless the action is done it       *)
(* stands at a step.                                                       *)
LEMMA CalledTyped ==
  ASSUME TypeOK, Target \in All, NEW ok \in BOOLEAN, NEW res, current # NoAction
  PROVE  /\ Called(ok, res) \in Sequence(Paths[Target])
         /\ ~Done(Paths[Target], Called(ok, res)) => AtStep(Paths[Target], Called(ok, res))
         /\ TickSequence(sequence[Target]) \in Sequence(Paths[Target])
<1> DEFINE a == Target
           s == TickSequence(sequence[a])
<1>1. sequence[a] \in Sequence(Paths[a]) /\ AtStep(Paths[a], sequence[a])
  BY DEF TypeOK, Typed, Placed, Target
<1>2. IsConfig(Paths[a])
  BY Configured
<1> HIDE DEF a
<1>3. s \in Sequence(Paths[a]) /\ AtStep(Paths[a], s)
  BY <1>1, TickSequenceType DEF AtStep
<1> HIDE DEF s
<1>4. StartStep(s) \in Sequence(Paths[a]) /\ AtStep(Paths[a], StartStep(s))
  BY <1>3, StartStepType DEF AtStep
<1>5. QED
  BY <1>2, <1>3, <1>4, AttemptType DEF Called, a, s

(* What a call does to the state, without its local abbreviations.         *)
LEMMA CallSequenceEffect ==
  ASSUME TypeOK, Target \in All, current # NoAction, maint \in BOOLEAN,
         NEW ok \in BOOLEAN, NEW res, NEW f \in BOOLEAN, CallSequence(ok, res, f)
  PROVE  /\ timer' \in Nat
         /\ faulted' \in BOOLEAN /\ maint' \in BOOLEAN /\ alive' \in BOOLEAN
         /\ \E e \in BOOLEAN : /\ maint' = (maint /\ ~e)
                               /\ e => \E p, i : <<Target, p, i>> \in LeavesMaint
         /\ \/ \E st \in {"FAILED", "COMPLETED"} :
                 exit_automation(Target, st, [Ticked EXCEPT ![Target] = Called(ok, res)])
            \/ /\ ~Done(Paths[Target], Called(ok, res))
               /\ sequence' = [Ticked EXCEPT ![Target] = Called(ok, res)]
               /\ quick' = Target
               /\ UNCHANGED <<status, status_swap, current>>
<1> DEFINE a == Target
           s == TickSequence(sequence[a])
           q0 == StartStep(s)
           t0 == StartTimer(Paths[a], s, Tick(timer))
           q == Called(ok, res)
           done == Done(Paths[a], q)
           late == Late(Paths[a], q, t0)
           ends == q0.check = q0.step /\ <<a, q0.path, q0.step>> \in LeavesMaint
<1>1. IsConfig(Paths[a]) /\ s \in Sequence(Paths[a]) /\ q \in Sequence(Paths[a])
  BY Configured, CalledTyped
<1>2. t0 \in Nat
  BY <1>1, StartTimerType, TickType DEF TypeOK, Typed
<1>3. LateTimer(Paths[a], q, t0) \in Nat
  <2> HIDE DEF a, q, t0
  <2>1. QED
    BY <1>1, <1>2, LateTimerType
<1>4. /\ timer' = LateTimer(Paths[a], q, t0)
      /\ faulted' = (f \/ late)
      /\ maint' = (maint /\ ~ends)
      /\ IF done \/ late
           THEN exit_automation(a, IF late THEN "FAILED" ELSE "COMPLETED",
                                [Ticked EXCEPT ![a] = q])
           ELSE /\ sequence' = [Ticked EXCEPT ![a] = q]
                /\ quick' = a
                /\ UNCHANGED <<status, status_swap, current>>
      /\ alive' \in IF done /\ late THEN BOOLEAN ELSE {TRUE}
  BY DEF CallSequence, Called
<1>5. late \in BOOLEAN /\ ends \in BOOLEAN
  BY DEF Late
<1>6. \E e \in BOOLEAN : maint' = (maint /\ ~e) /\ (e => \E p, i : <<a, p, i>> \in LeavesMaint)
  BY <1>4, <1>5
<1>7. \/ \E st \in {"FAILED", "COMPLETED"} :
           exit_automation(a, st, [Ticked EXCEPT ![a] = q])
      \/ /\ ~done
         /\ sequence' = [Ticked EXCEPT ![a] = q]
         /\ quick' = a
         /\ UNCHANGED <<status, status_swap, current>>
  <2> HIDE DEF a, q, done, late
  <2>1. QED
    BY <1>4
<1>8. faulted' \in BOOLEAN /\ maint' \in BOOLEAN /\ alive' \in BOOLEAN
  BY <1>4, <1>5
<1>9. QED
  BY <1>3, <1>4, <1>6, <1>7, <1>8

(* One iteration of the control loop keeps the state well typed.           *)
LEMMA IterateTyped ==
  ASSUME TypeOK, Iterate
  PROVE  TypeOK'
<1>1. Formed(sequence) /\ Formed(Ticked) /\ maint \in BOOLEAN
  BY TickedFormed DEF TypeOK, Typed, Formed
<1>2. lockdown' \in BOOLEAN
  BY DEF Iterate, TypeOK, Typed
<1>3. ASSUME NEW f \in BOOLEAN, Alerts(f)
      PROVE  clearing' \in BOOLEAN
  BY <1>3 DEF Alerts
<1>4. ASSUME NEW f \in BOOLEAN, Alerts(f), faulted' = f, NoCurrent
      PROVE  TypeOK'
  <2>1. timer' \in Nat
    BY <1>4, TickType DEF NoCurrent, TypeOK, Typed
  <2>2. Placed'
    BY <1>1, <1>4, TickedFormed DEF NoCurrent, TypeOK, Placed
  <2>3. QED
    BY <1>1, <1>2, <1>3, <1>4, <2>1, <2>2 DEF NoCurrent, TypeOK, Typed, Formed
<1>5. ASSUME NEW f \in BOOLEAN, Alerts(f), faulted' = f, WildPointer
      PROVE  TypeOK'
  BY <1>2, <1>3, <1>5 DEF WildPointer, TypeOK, Typed, Placed
<1>6. ASSUME NEW f \in BOOLEAN, Alerts(f), faulted' = f, Abandon
      PROVE  TypeOK'
  <2>1. Target \in All /\ clear_action(Target, Ticked)
    BY <1>6 DEF Abandon
  <2>2. /\ Formed(sequence') /\ status' \in [All -> Statuses]
        /\ AtStep(Paths[Target], sequence'[Target])
    BY <1>1, <2>1, ClearTyped DEF TypeOK, Typed
  <2>3. timer' \in Nat
    BY <1>6, TickType DEF Abandon, TypeOK, Typed
  <2>4. Placed'
    BY <1>6, <2>2, ConfigAssumption DEF Abandon, Placed
  <2>5. QED
    BY <1>2, <1>3, <1>6, <2>1, <2>2, <2>3, <2>4 DEF Abandon, TypeOK, Typed, Formed
<1>7. ASSUME Alerts(TRUE), faulted' = TRUE, FailOnFault
      PROVE  TypeOK'
  <2>1. Target \in All /\ exit_automation(Target, "FAILED", Ticked)
    BY <1>7 DEF FailOnFault, All
  <2>2. timer' \in Nat
    BY <1>7, TickType DEF FailOnFault, TypeOK, Typed
  <2>3. QED
    BY <1>1, <1>2, <1>3, <1>7, <2>1, <2>2, ExitTyped
    DEF FailOnFault, TypeOK, Typed, Formed, Statuses
<1>8. ASSUME Step
      PROVE  TypeOK'
  <2>1. PICK ok \in BOOLEAN, res \in Results, f \in BOOLEAN :
          Alerts(f) /\ CallSequence(ok, res, f)
    BY <1>8 DEF Step
  <2>2. Target \in All /\ current # NoAction
    BY <1>8 DEF Step
  <2> DEFINE seqs == [Ticked EXCEPT ![Target] = Called(ok, res)]
  <2>3. /\ Called(ok, res) \in Sequence(Paths[Target])
        /\ ~Done(Paths[Target], Called(ok, res)) => AtStep(Paths[Target], Called(ok, res))
    BY <2>2, CalledTyped
  <2>4. Formed(seqs) /\ seqs[Target] = Called(ok, res)
    BY <1>1, <2>2, <2>3 DEF Formed
  <2>5. /\ timer' \in Nat
        /\ faulted' \in BOOLEAN /\ maint' \in BOOLEAN /\ alive' \in BOOLEAN
        /\ \/ \E st \in {"FAILED", "COMPLETED"} : exit_automation(Target, st, seqs)
           \/ /\ ~Done(Paths[Target], Called(ok, res))
              /\ sequence' = seqs
              /\ quick' = Target
              /\ UNCHANGED <<status, status_swap, current>>
    BY <1>1, <2>1, <2>2, CallSequenceEffect
  <2>6. clearing' \in BOOLEAN
    BY <1>3, <2>1
  <2>7. CASE \E st \in {"FAILED", "COMPLETED"} : exit_automation(Target, st, seqs)
    <3> HIDE DEF seqs
    <3>1. PICK st \in {"FAILED", "COMPLETED"} : exit_automation(Target, st, seqs)
      BY <2>7
    <3>2. st \in Statuses
      BY DEF Statuses
    <3>3. QED
      BY <1>2, <2>2, <2>4, <2>5, <2>6, <3>1, <3>2, ExitTyped DEF TypeOK, Typed, Formed
  <2>8. CASE /\ ~Done(Paths[Target], Called(ok, res))
             /\ sequence' = seqs
             /\ quick' = Target
             /\ UNCHANGED <<status, status_swap, current>>
    <3>1. \A x \in All \ {Target} : seqs[x] = Ticked[x]
      BY <1>1, <2>2 DEF Formed
    <3> HIDE DEF seqs
    <3>2. Placed'
      <4> SUFFICES ASSUME NEW x \in All, x \in {current, Target}
                   PROVE  AtStep(Paths[x], seqs[x])
        BY <2>8 DEF Placed
      <4>1. CASE x = Target
        BY <2>3, <2>4, <2>8, <4>1
      <4>2. CASE x # Target
        BY <1>1, <3>1, <4>2, TickedFormed DEF TypeOK, Placed
      <4>3. QED
        BY <4>1, <4>2
    <3>3. QED
      BY <1>2, <2>2, <2>4, <2>5, <2>6, <2>8, <3>2 DEF TypeOK, Typed, Formed
  <2>9. QED
    BY <2>5, <2>7, <2>8
<1>9. QED
  BY <1>4, <1>5, <1>6, <1>7, <1>8 DEF Iterate

(* Every message keeps the state well typed.                               *)
LEMMA MessageTyped ==
  ASSUME TypeOK,
         \/ \E a \in Actions : StartAction(a) \/ ClearAction(a) \/ StopAction(a)
         \/ EnterMaint \/ LeaveMaint \/ clear_alerts
         \/ \E on \in BOOLEAN : SetLockdown(on)
  PROVE  TypeOK'
<1>1. Formed(sequence) /\ status \in [All -> Statuses]
  BY DEF TypeOK, Typed, Formed
<1>2. ASSUME NEW a \in Actions, StartAction(a)
      PROVE  TypeOK'
  <2>1. a \in All
    BY DEF All
  <2>2. /\ reset_sequence(sequence[a]) \in Sequence(Paths[a])
        /\ AtStep(Paths[a], reset_sequence(sequence[a]))
    BY <1>1, <2>1, Configured, ResetType DEF Formed
  <2>3. /\ sequence' = [sequence EXCEPT ![a] = reset_sequence(sequence[a])]
        /\ status' = [status EXCEPT ![a] = "IN_PROGRESS"]
        /\ current' = a
        /\ UNCHANGED <<status_swap, quick, timer, maint, lockdown, faulted, clearing, alive>>
    BY <1>2 DEF StartAction, enter_automation
  <2>4. Formed(sequence') /\ status' \in [All -> Statuses]
    BY <1>1, <2>1, <2>2, <2>3 DEF Formed, Statuses
  <2>5. Placed'
    BY <1>1, <2>1, <2>2, <2>3 DEF TypeOK, Placed, Formed
  <2>6. QED
    BY <2>1, <2>3, <2>4, <2>5 DEF TypeOK, Typed, Formed
<1>3. ASSUME NEW a \in Actions, ClearAction(a)
      PROVE  TypeOK'
  <2>1. a \in All /\ clear_action(a, sequence)
    BY <1>3 DEF ClearAction, All
  <2>2. /\ Formed(sequence') /\ status' \in [All -> Statuses]
        /\ AtStep(Paths[a], sequence'[a])
        /\ \A x \in All \ {a} : sequence'[x] = sequence[x]
    BY <1>1, <2>1, ClearTyped
  <2>3. Placed'
    BY <1>3, <2>2 DEF ClearAction, TypeOK, Placed
  <2>4. QED
    BY <1>3, <2>2, <2>3 DEF ClearAction, TypeOK, Typed, Formed
<1>4. ASSUME NEW a \in Actions, StopAction(a)
      PROVE  TypeOK'
  <2>1. a \in All /\ exit_automation(a, "ABORTED", sequence)
    BY <1>4 DEF StopAction, All
  <2>2. QED
    BY <1>1, <1>4, <2>1, ExitTyped DEF StopAction, TypeOK, Typed, Formed, Statuses
<1>5. CASE EnterMaint
  BY <1>5 DEF EnterMaint, TypeOK, Typed, Placed
<1>6. CASE LeaveMaint
  BY <1>6 DEF LeaveMaint, TypeOK, Typed, Placed
<1>7. CASE clear_alerts
  BY <1>7 DEF clear_alerts, TypeOK, Typed, Placed
<1>8. ASSUME NEW on \in BOOLEAN, SetLockdown(on)
      PROVE  TypeOK'
  BY <1>8 DEF SetLockdown, TypeOK, Typed, Placed
<1>9. QED
  BY <1>2, <1>3, <1>4, <1>5, <1>6, <1>7, <1>8

(* TypeOK is inductive.                                                   *)
LEMMA TypeOKInitially == Init => TypeOK
<1> SUFFICES ASSUME Init PROVE TypeOK
  OBVIOUS
<1>1. \A a \in All : NewSequence(Paths[a]) \in Sequence(Paths[a])
  BY Configured, NewSequenceType
<1>2. QED
  BY <1>1, ConfigAssumption DEF Init, TypeOK, Typed, Placed, Statuses

(* Its steps.                                                              *)
LEMMA TypeOKNext == TypeOK /\ [Next]_vars => TypeOK'
<1> SUFFICES ASSUME TypeOK, [Next]_vars PROVE TypeOK'
  OBVIOUS
<1>1. CASE UNCHANGED vars
  BY <1>1 DEF vars, TypeOK, Typed, Placed
<1>2. CASE Next
  BY <1>2, IterateTyped, MessageTyped DEF Next
<1>3. QED
  BY <1>1, <1>2

(* The records of all actions stay well formed, the name and the pointer   *)
(* lead to actions, and the step at which the interpreter is called exists *)
(* (Action::call_sequence, Asset::process_asset_actions), for all actions, *)
(* paths and operators.                                                    *)
THEOREM ActionsTyped == Spec => []TypeOK
BY TypeOKInitially, TypeOKNext, PTL DEF Spec

-----------------------------------------------------------------------------
(* One action at a time, with an operator who keeps maintenance mode.      *)

Over == {"INACTIVE", "COMPLETED", "FAILED", "ABORTED"}

(* StatusIsTrue is not inductive: an exiting action becomes what           *)
(* status_swap says, and the end of maintenance mode would drop a shutdown *)
(* action.                                                                 *)
ActionInv ==
  /\ quick \in All /\ current # NoAction => quick = current
  /\ \A a \in All : status[a] = "IN_PROGRESS" <=> current = a
  /\ \A a \in Actions : status[a] = "EXITING" => ~Plain(a) /\ current = ShutdownOf[a]
  /\ \A a \in All : status_swap[a] \in Over
  /\ current # NoAction /\ ~maint => Plain(current)

(* The action an iteration calls is the named one.                         *)
LEMMA TargetIsCurrent ==
  ASSUME TypeOK, ActionInv, current # NoAction, Target \in All
  PROVE  Target = current /\ current \in All
BY DEF ActionInv, TypeOK, Typed, Target

(* Leaving the current action keeps the invariant if maintenance mode is   *)
(* on for the shutdown action; a final status of an action with a shutdown *)
(* action comes from the end of that one.                                  *)
LEMMA ExitSafe ==
  ASSUME TypeOK, ActionInv, NEW a \in All, a = current, NEW st \in Over, NEW seqs,
         exit_automation(a, st, seqs), ~Plain(a) => maint'
  PROVE  /\ ActionInv'
         /\ \A x \in Actions : ~Plain(x) /\ Active(x) /\ ~Active(x)' =>
              /\ status[x] = "EXITING" /\ current = ShutdownOf[x]
              /\ status'[ShutdownOf[x]] = st
<1> DEFINE sd == ShutdownOf[a]
<1>1. /\ sd \in Shutdowns \cup {NoAction} /\ NoAction \notin All
      /\ Actions \cap Shutdowns = {} /\ (a \in Shutdowns => sd = NoAction)
      /\ \A x \in Actions : ShutdownOf[x] \in Shutdowns \cup {NoAction}
  BY ConfigAssumption DEF All
<1>2. CASE sd = NoAction
  <2>1. /\ current' = NoAction /\ quick' = NoAction /\ UNCHANGED status_swap
        /\ status' = [x \in All |->
              IF x = a THEN st
              ELSE IF a \in Shutdowns /\ x \in Actions /\ status[x] = "EXITING"
                THEN status_swap[x] ELSE status[x]]
    BY <1>2 DEF exit_automation
  <2>2. \A x \in All : status'[x] # "IN_PROGRESS"
    BY <2>1 DEF ActionInv, Over
  <2>3. \A x \in Actions : status'[x] # "EXITING"
    BY <1>1, <2>1 DEF ActionInv, Over, All, Plain
  <2>4. ActionInv'
    BY <1>1, <2>1, <2>2, <2>3 DEF ActionInv
  <2>5. ASSUME NEW x \in Actions, ~Plain(x), Active(x), ~Active(x)'
        PROVE  /\ status[x] = "EXITING" /\ current = ShutdownOf[x]
               /\ status'[ShutdownOf[x]] = st
    <3>1. x # a
      BY <1>2, <2>5 DEF Plain
    <3>2. status[x] # "IN_PROGRESS"
      BY <3>1 DEF ActionInv, All
    <3>3. status[x] = "EXITING" /\ current = ShutdownOf[x]
      BY <2>5, <3>2 DEF Active, ActionInv
    <3>4. QED
      BY <2>1, <3>3
  <2>6. QED
    BY <2>4, <2>5
<1>3. CASE sd # NoAction
  <2>1. /\ status' = [status EXCEPT ![a] = "EXITING", ![sd] = "IN_PROGRESS"]
        /\ status_swap' = [status_swap EXCEPT ![a] = st]
        /\ current' = sd /\ quick' = sd
    BY <1>3 DEF exit_automation
  <2>2. sd \in Shutdowns /\ sd \in All /\ a \in Actions /\ a # sd /\ ~Plain(a)
    BY <1>1, <1>3 DEF All, Plain
  <2>3. \A x \in Actions : status[x] # "EXITING"
    BY <1>1, <2>2 DEF ActionInv, Plain
  <2>4. \A x \in All : status'[x] = IF x = sd THEN "IN_PROGRESS"
                                    ELSE IF x = a THEN "EXITING" ELSE status[x]
    BY <2>1, <2>2 DEF TypeOK, Typed
  <2>5. \A x \in All : status'[x] = "IN_PROGRESS" <=> x = sd
    BY <2>4 DEF ActionInv
  <2>6. \A x \in Actions : status'[x] = "EXITING" => x = a
    BY <2>3, <2>4 DEF All
  <2>7. \A x \in All : status_swap'[x] \in Over
    BY <2>1, <2>2 DEF TypeOK, Typed, ActionInv
  <2>8. ActionInv'
    BY <1>3, <2>1, <2>2, <2>5, <2>6, <2>7 DEF ActionInv
  <2>9. \A x \in Actions : Active(x) => Active(x)'
    BY <1>1, <2>2, <2>4 DEF Active, All
  <2>10. QED
    BY <2>8, <2>9
<1>4. QED
  BY <1>2, <1>3

(* What ShutdownAlwaysRuns asks of a step.                                 *)
EndsProperly ==
  \A a \in Actions :
    ~Plain(a) /\ Active(a) /\ ~Active(a)' =>
      /\ status[a] = "EXITING" /\ current = ShutdownOf[a]
      /\ status'[ShutdownOf[a]] \in {"COMPLETED", "FAILED"}

(* One iteration of the control loop keeps the invariant.                  *)
LEMMA IterateSafe ==
  ASSUME MaintHeld, TypeOK, ActionInv, Iterate
  PROVE  ActionInv' /\ EndsProperly
<1>1. CASE NoCurrent \/ WildPointer
  BY <1>1 DEF NoCurrent, WildPointer, ActionInv, EndsProperly, Active
<1>2. CASE Abandon
  <2>1. Target = current /\ current \in All /\ Plain(current)
    BY <1>2, TargetIsCurrent DEF Abandon, ActionInv
  <2>2. /\ status' = [status EXCEPT ![current] = "INACTIVE"]
        /\ current' = NoAction /\ UNCHANGED <<status_swap, maint>>
    BY <1>2, <2>1 DEF Abandon, clear_action
  <2>3. \A x \in Actions : status[x] # "EXITING"
    BY <2>1, ConfigAssumption DEF ActionInv, Plain, All
  <2>4. ActionInv'
    BY <2>1, <2>2, <2>3, ConfigAssumption DEF ActionInv, TypeOK, Typed, All
  <2>5. EndsProperly
    BY <2>1, <2>2 DEF EndsProperly, Active, TypeOK, Typed, All
  <2>6. QED
    BY <2>4, <2>5
<1>3. CASE FailOnFault
  <2>1. Target = current /\ current \in All
    BY <1>3, TargetIsCurrent DEF FailOnFault, All
  <2>2. /\ exit_automation(current, "FAILED", Ticked) /\ maint'
    BY <1>3, <2>1 DEF FailOnFault
  <2>3. QED
    BY <2>1, <2>2, ExitSafe DEF EndsProperly, Over
<1>4. CASE Step
  <2>1. PICK ok \in BOOLEAN, res \in Results, f \in BOOLEAN : CallSequence(ok, res, f)
    BY <1>4 DEF Step
  <2>2. Target = current /\ current \in All /\ maint
    BY <1>4, TargetIsCurrent DEF Step
  <2> DEFINE seqs == [Ticked EXCEPT ![Target] = Called(ok, res)]
  <2>3. /\ \E e \in BOOLEAN : /\ maint' = (maint /\ ~e)
                              /\ e => \E p, i : <<current, p, i>> \in LeavesMaint
        /\ \/ \E st \in {"FAILED", "COMPLETED"} : exit_automation(current, st, seqs)
           \/ /\ quick' = current
              /\ UNCHANGED <<status, status_swap, current>>
    BY <1>4, <2>1, <2>2, CallSequenceEffect DEF Step, TypeOK, Typed
  <2> HIDE DEF seqs
  <2>4. maint' \/ Plain(current)
    <3>1. \A p, i : <<current, p, i>> \in LeavesMaint => Plain(current)
      BY ConfigAssumption
    <3>2. QED
      BY <2>2, <2>3, <3>1
  <2>5. CASE \E st \in {"FAILED", "COMPLETED"} : exit_automation(current, st, seqs)
    <3>1. PICK st \in {"FAILED", "COMPLETED"} : exit_automation(current, st, seqs)
      BY <2>5
    <3>2. QED
      BY <2>2, <2>4, <3>1, ExitSafe DEF EndsProperly, Over
  <2>6. CASE quick' = current /\ UNCHANGED <<status, status_swap, current>>
    BY <2>4, <2>6 DEF ActionInv, EndsProperly, Active
  <2>7. QED
    BY <2>3, <2>5, <2>6
<1>5. QED
  BY <1>1, <1>2, <1>3, <1>4 DEF Iterate

(* So does every message.                                                  *)
LEMMA MessageSafe ==
  ASSUME MaintHeld, TypeOK, ActionInv,
         \/ \E a \in Actions : StartAction(a) \/ ClearAction(a) \/ StopAction(a)
         \/ EnterMaint \/ LeaveMaint \/ clear_alerts
         \/ \E on \in BOOLEAN : SetLockdown(on)
  PROVE  ActionInv' /\ EndsProperly
<1>1. ASSUME NEW a \in Actions, StartAction(a)
      PROVE  ActionInv' /\ EndsProperly
  <2>1. a \in All /\ a # NoAction
    BY ConfigAssumption DEF All
  <2>2. /\ current = NoAction /\ maint' = TRUE /\ quick \notin All \ {a}
        /\ status' = [status EXCEPT ![a] = "IN_PROGRESS"]
        /\ current' = a /\ UNCHANGED <<status_swap, quick>>
    BY <1>1 DEF StartAction, TypeOK, Typed
  <2>3. \A x \in Actions : status[x] # "EXITING"
    BY <2>2 DEF ActionInv, Plain
  <2>4. \A x \in All : status'[x] = IF x = a THEN "IN_PROGRESS" ELSE status[x]
    BY <2>1, <2>2 DEF TypeOK, Typed
  <2>5. ActionInv'
    BY <2>1, <2>2, <2>3, <2>4, ConfigAssumption DEF ActionInv, All
  <2>6. EndsProperly
    BY <2>4 DEF EndsProperly, Active, All
  <2>7. QED
    BY <2>5, <2>6
<1>2. ASSUME NEW a \in Actions, ClearAction(a)
      PROVE  ActionInv' /\ EndsProperly
  <2>1. /\ status[a] \notin {"IN_PROGRESS", "EXITING"}
        /\ status' = [status EXCEPT ![a] = "INACTIVE"]
        /\ UNCHANGED <<status_swap, current, quick, maint>>
    BY <1>2 DEF ClearAction, clear_action
  <2>2. \A x \in All : status'[x] = IF x = a THEN "INACTIVE" ELSE status[x]
    BY <2>1 DEF TypeOK, Typed, All
  <2>3. ActionInv'
    BY <2>1, <2>2 DEF ActionInv, All
  <2>4. EndsProperly
    BY <2>1, <2>2 DEF EndsProperly, Active, All
  <2>5. QED
    BY <2>3, <2>4
<1>3. ASSUME NEW a \in Actions, StopAction(a)
      PROVE  ActionInv' /\ EndsProperly
  <2>1. /\ a \in All /\ current = a /\ a # NoAction /\ exit_automation(a, "ABORTED", sequence)
        /\ maint' = maint
    BY <1>3, ConfigAssumption DEF StopAction, All
  <2>2. ~Plain(a) => maint'
    BY <2>1 DEF ActionInv
  <2>3. \A x \in Actions : ~Plain(x) => ShutdownOf[x] # a
    BY ConfigAssumption DEF All, Plain
  <2>4. QED
    BY <2>1, <2>2, <2>3, ExitSafe DEF EndsProperly, Over
<1>4. CASE EnterMaint
  BY <1>4 DEF EnterMaint, ActionInv, EndsProperly, Active
<1>5. CASE LeaveMaint
  BY <1>5 DEF LeaveMaint, ActionInv, EndsProperly, Active
<1>6. CASE clear_alerts
  BY <1>6 DEF clear_alerts, ActionInv, EndsProperly, Active
<1>7. ASSUME NEW on \in BOOLEAN, SetLockdown(on)
      PROVE  ActionInv' /\ EndsProperly
  BY <1>7 DEF SetLockdown, ActionInv, EndsProperly, Active
<1>8. QED
  BY <1>1, <1>2, <1>3, <1>4, <1>5, <1>6, <1>7

(* ActionInv is inductive with TypeOK and that operator.                  *)
LEMMA ActionInvInitially == Init => ActionInv
BY ConfigAssumption DEF Init, ActionInv, Over, All

(* Every step keeps it and ends actions as ShutdownAlwaysRuns asks.        *)
LEMMA ActionInvNext ==
  ASSUME MaintHeld
  PROVE  TypeOK /\ ActionInv /\ [Next]_vars => ActionInv' /\ (EndsProperly \/ UNCHANGED vars)
<1> SUFFICES ASSUME TypeOK, ActionInv, [Next]_vars
             PROVE  ActionInv' /\ (EndsProperly \/ UNCHANGED vars)
  OBVIOUS
<1>1. CASE UNCHANGED vars
  BY <1>1 DEF vars, ActionInv
<1>2. CASE Next
  BY <1>2, IterateSafe, MessageSafe DEF Next
<1>3. QED
  BY <1>1, <1>2

(* The action in progress is the one that runs, and an action is exiting   *)
(* only while its shutdown action runs: for any number of actions, with an *)
(* operator who keeps maintenance mode under actions with a shutdown       *)
(* action (Action.cpp:284-310, Asset.cpp:1906-1943).                       *)
THEOREM StatusTheorem == MaintHeld /\ Spec => []StatusIsTrue
<1> SUFFICES ASSUME MaintHeld PROVE Spec => []StatusIsTrue
  OBVIOUS
<1>1. TypeOK /\ ActionInv => StatusIsTrue
  BY DEF TypeOK, Typed, ActionInv, StatusIsTrue, Target
<1>2. QED
  BY <1>1, TypeOKInitially, TypeOKNext, ActionInvInitially, ActionInvNext, PTL DEF Spec

(* "Only one active action is currently supported" (Action.cpp:248) is     *)
(* kept, for any number of actions and shutdown actions, by that operator. *)
THEOREM OneActiveTheorem == MaintHeld /\ Spec => []OneActiveAction
<1>1. StatusIsTrue => OneActiveAction
  BY DEF StatusIsTrue, OneActiveAction
<1>2. QED
  BY <1>1, StatusTheorem, PTL

(* With the same operator, every action that has a shutdown action is over *)
(* only when that one has completed or failed (Action::exit_automation).   *)
THEOREM ShutdownTheorem == MaintHeld /\ Spec => ShutdownAlwaysRuns
<1> SUFFICES ASSUME MaintHeld PROVE Spec => ShutdownAlwaysRuns
  OBVIOUS
<1>1. TypeOK /\ ActionInv /\ [Next]_vars => [EndsProperly]_vars
  BY ActionInvNext
<1>2. QED
  BY <1>1, TypeOKInitially, TypeOKNext, ActionInvInitially, ActionInvNext, PTL
  DEF Spec, ShutdownAlwaysRuns, EndsProperly
=============================================================================
