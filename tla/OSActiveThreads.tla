-------------------------- MODULE OSActiveThreads --------------------------
(***************************************************************************)
(* The ready list of the scheduler, class OSActiveThreads                  *)
(* (kernel/src/OSScheduler.cpp): an array ms_array of ms_count threads in  *)
(* decreasing priority order, here a sequence.  The shifting loops of the  *)
(* C++ code are the functions below: a slot keeps its thread, takes the    *)
(* new one, or takes the thread of its neighbour.  The priorities are read *)
(* from the threads at the time of the call, so every operator takes them  *)
(* as the function prio.                                                   *)
(*                                                                         *)
(* Here and in the other modules Op_Variant is a wrong form of Op, the one *)
(* a slip in its code would give; the properties tell the two apart.       *)
(***************************************************************************)
EXTENDS Integers, Sequences

CONSTANT Idle   \* the idle thread, OSScheduler::getThreadIdle()

\* The threads in the list.
Members(list) == { list[i] : i \in 1..Len(list) }

\* find(pThread) != -1
Find(list, t) == \E i \in 1..Len(list) : list[i] = t

\* Variants of the next operator: before the equals, and at the end.
InsertAt_First(list, p, prio) ==
  CHOOSE i \in 1..Len(list) + 1 :
    /\ i <= Len(list) => p >= prio[list[i]]
    /\ \A j \in 1..i - 1 : p < prio[list[j]]
InsertAt_Last(list, p, prio) == Len(list) + 1

\* The first slot a thread of priority p may take: before the first thread
\* of lower priority, or the end of the list.
InsertAt(list, p, prio) ==
  CHOOSE i \in 1..Len(list) + 1 :
    /\ i <= Len(list) => p > prio[list[i]]
    /\ \A j \in 1..i - 1 : p <= prio[list[j]]

\* The array with everything from slot i on moved right and t in slot i.
ShiftRight(list, i, t) ==
  [ j \in 1..Len(list) + 1 |->
      IF j < i THEN list[j] ELSE IF j = i THEN t ELSE list[j - 1] ]

\* The array with everything after slot i moved left.
ShiftLeft(list, i) ==
  [ j \in 1..Len(list) - 1 |-> IF j < i THEN list[j] ELSE list[j + 1] ]

\* Variant: a thread that is in the list is inserted again.
Insert_Twice(list, t, prio) ==
  ShiftRight(list, InsertAt(list, prio[t], prio), t)

\* OSActiveThreads::insert
Insert(list, t, prio) ==
  IF Find(list, t) THEN list
  ELSE ShiftRight(list, InsertAt(list, prio[t], prio), t)

\* OSActiveThreads::remove: the idle thread never leaves the list.
Remove(list, t) ==
  IF t = Idle \/ ~Find(list, t) THEN list
  ELSE ShiftLeft(list, CHOOSE i \in 1..Len(list) : list[i] = t)

\* Variant: the other end.
GetTop_Bottom(list) == list[Len(list)]

\* OSActiveThreads::getTop
GetTop(list) == list[1]

\* No thread is twice in the list.
NoDuplicates(list) ==
  \A i, j \in 1..Len(list) : list[i] = list[j] => i = j

\* Decreasing priority.
Sorted(list, prio) ==
  \A i, j \in 1..Len(list) : i < j => prio[list[i]] >= prio[list[j]]

\* t is in the list before u.
Before(list, t, u) ==
  \E i, j \in 1..Len(list) : i < j /\ list[i] = t /\ list[j] = u

=============================================================================
