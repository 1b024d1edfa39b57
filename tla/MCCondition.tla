----------------------------- MODULE MCCondition -----------------------------
(***************************************************************************)
(* Instances of OSCondition for TLC: two threads of equal priority and the *)
(* idle thread.                                                            *)
(***************************************************************************)
EXTENDS OSCondition

CONSTANTS idle, a, b, cond   \* model values

EqualPrio == [t \in Threads |-> IF t = idle THEN 0 ELSE 1]

Two == <<a, b, idle>>
=============================================================================
