---------------------------- MODULE MCScheduler ----------------------------
(***************************************************************************)
(* Instances of OSScheduler for TLC: an idle thread and two or three       *)
(* application threads of one or two priorities.                           *)
(***************************************************************************)
EXTENDS OSScheduler

CONSTANTS idle, a, b, c, e   \* model values, the threads and an event

\* All application threads alike.
EqualPrio == [t \in Threads |-> IF t = idle THEN 0 ELSE 1]

\* a above the others.
TwoLevels == [t \in Threads |-> IF t = idle THEN 0 ELSE IF t = a THEN 2 ELSE 1]

\* Construction orders.
IdleFirst == <<idle, a, b>>
BestSecond == <<b, a, idle>>
IdleAndOne == <<idle, a>>
=============================================================================
