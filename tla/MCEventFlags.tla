---------------------------- MODULE MCEventFlags ----------------------------
(***************************************************************************)
(* Instances of OSEventFlags for TLC: two threads of equal priority and    *)
(* the idle thread; one bit, which is set and cleared.                     *)
(***************************************************************************)
EXTENDS OSEventFlags

CONSTANTS idle, a, b, x, ef   \* model values

EqualPrio == [t \in Threads |-> IF t = idle THEN 0 ELSE 1]

Two == <<a, b, idle>>

W(bits, strict) == [bits |-> bits, strict |-> strict]
EitherWait == {W({x}, TRUE), W({x}, FALSE)}
=============================================================================
