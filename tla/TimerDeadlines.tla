--------------------------- MODULE TimerDeadlines ---------------------------
(***************************************************************************)
(* What a timer promises, with no regard to how it keeps its alarms: each  *)
(* alarm goes off at the tick it was set for, and alarms set for the same  *)
(* tick go off in the order they were set.  An alarm that is due is fired  *)
(* before the next tick is counted.                                        *)
(***************************************************************************)
EXTENDS Naturals, Sequences

CONSTANTS
  Groups,  \* what identifies the alarms: sets of marks that are cancelled together
  Spans,   \* the ticks an alarm may be set for
  Size     \* how many alarms there may be

VARIABLE alarms         \* the alarms: the ticks that are left, and the mark

Marks == UNION Groups

Alarms == [left : Nat, mark : Marks]

\* The place of an alarm: behind those that are due at the same tick or before.
Place(list, n) ==
  CHOOSE i \in 1..Len(list) + 1 :
    /\ \A j \in 1..i - 1 : list[j].left <= n
    /\ i <= Len(list) => list[i].left > n

Put(list, alarm) ==
  LET i == Place(list, alarm.left)
  IN  [j \in 1..Len(list) + 1 |->
         IF j < i THEN list[j] ELSE IF j = i THEN alarm ELSE list[j - 1]]

\* The list without the alarms of a group.
Without(list, group) ==
  LET kept[i \in 0..Len(list)] ==
        IF i = 0 THEN <<>>
        ELSE IF list[i].mark \in group THEN kept[i - 1]
        ELSE Append(kept[i - 1], list[i])
  IN  kept[Len(list)]

Init == alarms = <<>>

Set(n, m) ==
  /\ Len(alarms) < Size
  /\ alarms' = Put(alarms, [left |-> n, mark |-> m])

Cancel(group) == alarms' = Without(alarms, group)

Tick ==
  /\ \A i \in 1..Len(alarms) : alarms[i].left > 0
  /\ alarms' = [i \in 1..Len(alarms) |-> [alarms[i] EXCEPT !.left = @ - 1]]

\* The first alarm goes off; a periodic one is set again.
Fire ==
  /\ alarms # <<>> /\ alarms[1].left = 0
  /\ \/ alarms' = Tail(alarms)
     \/ \E n \in Spans :
          alarms' = Put(Tail(alarms), [left |-> n, mark |-> alarms[1].mark])

Next ==
  \/ \E n \in Spans, m \in Marks : Set(n, m)
  \/ \E group \in Groups : Cancel(group)
  \/ Tick \/ Fire

Spec == Init /\ [][Next]_alarms

=============================================================================
