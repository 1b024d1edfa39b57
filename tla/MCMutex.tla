------------------------------ MODULE MCMutex ------------------------------
(***************************************************************************)
(* Instances of OSMutex for TLC: two or three threads of equal priority    *)
(* and the idle thread.                                                    *)
(***************************************************************************)
EXTENDS OSMutex

CONSTANTS idle, a, b, c, mutex   \* model values

EqualPrio == [t \in Threads |-> IF t = idle THEN 0 ELSE 1]

Two == <<a, b, idle>>
Three == <<a, b, c, idle>>

\* What a mutex is built as.
BothBuilds == {NoList, 3}
EveryKind == {NoList, 0, 2}
ListOfThree == {3}
=============================================================================
