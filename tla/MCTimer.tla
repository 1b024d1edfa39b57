------------------------------- MODULE MCTimer -------------------------------
(***************************************************************************)
(* Instances of OSTimer for TLC: two threads of equal priority and the     *)
(* idle thread, the clock of the ticks, two custom timers.                 *)
(***************************************************************************)
EXTENDS OSTimer, TLC

CONSTANTS idle, a, b, ticks, tm, tn, ev   \* model values

EqualPrio == [t \in Threads |-> IF t = idle THEN 0 ELSE 1]

Two == <<a, b, idle>>

TimersNotifyEv == [x \in Timers |-> ev]

\* The timers notify the same event, and nothing distinguishes them.
TimersAlike == Permutations(Timers)
=============================================================================
