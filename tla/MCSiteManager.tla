---------------------------- MODULE MCSiteManager ----------------------------
(* Instances of SiteManager for TLC: a Startup with two paths, the first   *)
(* of two debounced steps, the second entered when its                     *)
(* condition fails, a debounced Shutdown, and the other states with the    *)
(* one-step sequences of most of the repository's configurations.          *)
EXTENDS SiteManager

StepOf(exits, next) == [exits |-> exits, next |-> next]
PathOf(timeout, ret, steps) == [timeout |-> timeout, ret |-> ret, steps |-> steps]

SitePaths ==
  [s \in States |->
     CASE s = "Startup" ->
            <<PathOf(1, "RunMode1", <<StepOf(<<500>>, 2), StepOf(<<1000>>, 0)>>),
              PathOf(1, "RunMode2", <<StepOf(<<0>>, 0)>>)>>
       [] s = "Shutdown" -> <<PathOf(1, "Ready", <<StepOf(<<500>>, 0)>>)>>
       [] OTHER -> <<PathOf(-1, s, <<StepOf(<<0>>, 0)>>)>>]

OneStep == States \ {"Startup", "Shutdown"}

(* Only the debounce timers of a sequence that is not running, or about to *)
(* be reset, are looked at: every sequence is entered through check_state, *)
(* which has reset_sequence overwrite the rest of its record before it is  *)
(* read. States that differ in the rest are explored once.                 *)
LiveState ==
  <<pc, state, checked, sequence_reset, timer, commands, faulted, clearIn, power,
    outside, alive,
    [s \in States |-> IF s = checked /\ ~sequence_reset
                        THEN sequence[s] ELSE [debounce |-> sequence[s].debounce]]>>
=============================================================================
