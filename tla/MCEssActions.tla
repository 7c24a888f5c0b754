---------------------------- MODULE MCEssActions ----------------------------
(* Instances of EssActions for TLC: an action with two paths and a shutdown *)
(* action, and one of a single debounced step, whose entry may end         *)
(* maintenance mode, without.                                              *)
EXTENDS EssActions

CONSTANTS a1, a2, s1

StepOf(exits, next) == [exits |-> exits, next |-> next]
PathOf(timeout, steps) == [timeout |-> timeout, steps |-> steps]

OneShutdown == [a \in {a1, a2, s1} |-> IF a = a1 THEN s1 ELSE NoAction]

TwoActions ==
  [a \in {a1, a2, s1} |->
     CASE a = a1 -> <<PathOf(1, <<StepOf(<<0>>, 2), StepOf(<<0>>, 0)>>), PathOf(2, <<StepOf(<<1000>>, 0)>>)>>
       [] a = a2 -> <<PathOf(2, <<StepOf(<<500>>, 0)>>)>>
       [] a = s1 -> <<PathOf(1, <<StepOf(<<0>>, 0)>>)>>]

EndsMaint == {<<a2, 1, 1>>}

(* Only the debounce timers of an action that is not running are looked    *)
(* at: enter_automation overwrites the rest of its record. States that     *)
(* differ in the rest are explored once.                                   *)
LiveState ==
  <<status, status_swap, current, quick, timer, maint, lockdown, faulted, clearing, alive,
    [a \in All |-> IF a \in {current, quick} THEN sequence[a]
                                             ELSE [debounce |-> sequence[a].debounce]]>>
=============================================================================
