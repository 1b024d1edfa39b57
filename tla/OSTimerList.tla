----------------------------- MODULE OSTimerList -----------------------------
(***************************************************************************)
(* The array of alarms of class OSTimer (kernel/src/OSTimer.cpp) and the   *)
(* operations on it.  An entry counts the ticks from the entry before it,  *)
(* so that a tick decrements the first one only.  The loops that shift the *)
(* entries are those of the ready list.                                    *)
(***************************************************************************)
EXTENDS OSActiveThreads

\* The ticks from now to the i-th entry.
Due(list, i) ==
  LET due[j \in 0..Len(list)] == IF j = 0 THEN 0 ELSE due[j - 1] + list[j].ticks
  IN  due[i]

\* What is left of the ticks when the search comes to position i.
Rest(list, n, i) == n - Due(list, i - 1)

\* Variant: the alarm comes before those of the same tick.
Position_Before(list, n) ==
  CHOOSE i \in 1..Len(list) + 1 :
    /\ i <= Len(list) => Rest(list, n, i) <= list[i].ticks
    /\ \A j \in 1..i - 1 : Rest(list, n, j) > list[j].ticks

\* The first entry that is later, or the end.
Position(list, n) ==
  CHOOSE i \in 1..Len(list) + 1 :
    /\ i <= Len(list) => Rest(list, n, i) < list[i].ticks
    /\ \A j \in 1..i - 1 : Rest(list, n, j) >= list[j].ticks

\* insert, when there is room and the ticks are not zero; its search subtracts
\* as it goes.
InsertAlarm(list, n, ev, arg) ==
  LET i == Position(list, n)
      rest == Rest(list, n, i)
      adjusted == IF i > Len(list) THEN list
                  ELSE [list EXCEPT ![i].ticks = @ - rest]
  IN  ShiftRight(adjusted, i, [ticks |-> rest, event |-> ev, arg |-> arg])

\* Variant: the ticks of the entry are lost.
RemoveAlarm_Loses(list, i) == ShiftLeft(list, i)

\* One removal of eventRemove: the next entry takes over the ticks.
RemoveAlarm(list, i) ==
  LET rest == ShiftLeft(list, i)
  IN  IF i > Len(rest) THEN rest ELSE [rest EXCEPT ![i].ticks = @ + list[i].ticks]

\* The first entry of the event.
FirstOf(list, ev) ==
  CHOOSE i \in 1..Len(list) : list[i].event = ev /\ \A j \in 1..i - 1 : list[j].event # ev

\* eventRemove takes out every entry of the event.
RemoveEvent(list, ev) ==
  LET after[n \in 0..Len(list)] ==
        IF n = 0 THEN list
        ELSE LET l == after[n - 1]
             IN  IF \E i \in 1..Len(l) : l[i].event = ev
                 THEN RemoveAlarm(l, FirstOf(l, ev)) ELSE l
  IN  after[Len(list)]

\* The decrement of interruptTick.
CountDown(list) == [list EXCEPT ![1].ticks = @ - 1]

=============================================================================
