---------------------------- MODULE OSTimer_proofs ----------------------------
(***************************************************************************)
(* Theorems about the timer, for any number of threads, clocks, alarms and *)
(* durations: the array of differences implements the list of deadlines,   *)
(* and a sleep lasts the ticks it was asked for.                           *)
(***************************************************************************)
EXTENDS OSTimer, OSStarted_proofs

-----------------------------------------------------------------------------
(***************************************************************************)
(* Functions that are defined by recursion, and induction, as facts about  *)
(* sets.                                                                   *)
(***************************************************************************)

LEMMA Induction ==
  ASSUME NEW S, 0 \in S, \A n \in Nat : n \in S => n + 1 \in S
  PROVE  Nat \subseteq S
<1> SUFFICES ASSUME Nat \ S # {} PROVE FALSE
  OBVIOUS
<1>1. PICK x \in Nat \ S : \A y \in Nat \ S : x <= y
  <2> DEFINE T == Nat \ S
  <2>1. T \subseteq Nat /\ T # {}
    OBVIOUS
  <2> HIDE DEF T
  <2>2. \E x \in T : \A y \in T : x <= y
    BY <2>1, SmallestNat
  <2>3. QED
    BY <2>2 DEF T
<1>2. x # 0 /\ x - 1 \in Nat /\ x = (x - 1) + 1
  OBVIOUS
<1>3. x - 1 \in S
  BY <1>1, <1>2
<1>4. QED
  BY <1>2, <1>3

\* Two functions on 0..n that agree at 0 and whose next values agree where the
\* last ones do.
Alike(f, g, n) == f[0] = g[0] /\ \A j \in 1..n : f[j - 1] = g[j - 1] => f[j] = g[j]
Agree(f, g, n) == \A j \in 0..n : f[j] = g[j]

LEMMA SameFunction ==
  ASSUME NEW n \in Nat, NEW f, NEW g, Alike(f, g, n)
  PROVE  Agree(f, g, n)
<1> DEFINE S == { j \in Nat : j <= n => f[j] = g[j] }
<1>1. 0 \in S
  BY DEF Alike
<1>2. ASSUME NEW j \in Nat, j \in S PROVE j + 1 \in S
  <2>1. CASE j + 1 <= n
    <3>1. j + 1 \in 1..n /\ (j + 1) - 1 = j /\ f[j] = g[j]
      BY <1>2, <2>1
    <3>2. QED
      BY <3>1 DEF Alike
  <2>2. QED
    BY <2>1
<1> HIDE DEF S
<1>3. Nat \subseteq S
  BY <1>1, <1>2, Induction
<1>4. QED
  BY <1>3 DEF S, Agree

\* The functions on 0..n that begin with a and go on as step says; their
\* values are in V.  (The provers match these names where they do not match the
\* sets of functions behind them.)
Values(n, V) == [0..n -> V]
Steps(n, V) == [1..n -> [V -> V]]
Follows(f, n, a, step) == f[0] = a /\ \A j \in 1..n : f[j] = step[j][f[j - 1]]

LEMMA Recursion ==
  ASSUME NEW n \in Nat, NEW V, NEW a \in V, NEW step \in Steps(n, V)
  PROVE  \E f \in Values(n, V) : Follows(f, n, a, step)
<1> DEFINE Upto(f, k) == f \in [0..k -> V] /\ f[0] = a /\ \A j \in 1..k : f[j] = step[j][f[j - 1]]
           S == { k \in Nat : k <= n => \E f : Upto(f, k) }
<1>1. 0 \in S
  <2>1. Upto([j \in 0..0 |-> a], 0)
    OBVIOUS
  <2>2. QED
    BY <2>1
<1>2. ASSUME NEW k \in Nat, k \in S PROVE k + 1 \in S
  <2> SUFFICES ASSUME k + 1 <= n PROVE \E f : Upto(f, k + 1)
    OBVIOUS
  <2>1. PICK f : Upto(f, k)
    BY <1>2
  <2> DEFINE g == [j \in 0..k + 1 |-> IF j = k + 1 THEN step[k + 1][f[k]] ELSE f[j]]
  <2>2. f[k] \in V /\ step[k + 1][f[k]] \in V
    BY <2>1 DEF Steps
  <2>3. g \in [0..k + 1 -> V] /\ g[0] = a
    BY <2>1, <2>2
  <2>4. ASSUME NEW j \in 1..k + 1 PROVE g[j] = step[j][g[j - 1]]
    <3>1. CASE j = k + 1
      <4>1. g[j] = step[k + 1][f[k]] /\ g[j - 1] = f[k]
        BY <3>1
      <4>2. QED
        BY <3>1, <4>1
    <3>2. CASE j # k + 1
      <4>1. j \in 1..k /\ g[j] = f[j] /\ g[j - 1] = f[j - 1]
        BY <3>2
      <4>2. QED
        BY <2>1, <4>1
    <3>3. QED
      BY <3>1, <3>2
  <2>5. QED
    BY <2>3, <2>4
<1> HIDE DEF S
<1>3. n \in S
  BY <1>1, <1>2, Induction
<1>4. PICK f : Upto(f, n)
  BY <1>3 DEF S
<1>5. QED
  BY <1>4 DEF Values, Follows

-----------------------------------------------------------------------------
(***************************************************************************)
(* The array of alarms.                                                    *)
(***************************************************************************)

Entries ==
  [ticks : Nat, event : Threads \ {Idle}, arg : {"event"}]
    \cup [ticks : Nat, event : {CustomTimer}, arg : Timers]

Mark(e) == IF e.event = CustomTimer THEN e.arg ELSE e.event

\* An array as a list of deadlines.
DeadlinesOf(l) == [i \in 1..Len(l) |-> [left |-> Due(l, i), mark |-> Mark(l[i])]]

\* Each entry is due the ticks it counts after the entry before it.
LEMMA DueSteps ==
  ASSUME NEW l \in Seq(Entries)
  PROVE  /\ \A i \in 0..Len(l) : Due(l, i) \in Nat
         /\ Due(l, 0) = 0
         /\ \A i \in 1..Len(l) : Due(l, i) = Due(l, i - 1) + l[i].ticks
<1>1. PICK n \in Nat : n = Len(l)
  OBVIOUS
<1>2. \A j \in 1..n : l[j].ticks \in Nat
  <2>1. \A j \in 1..n : l[j] \in Entries
    BY <1>1
  <2>2. QED
    BY <2>1 DEF Entries
<1>3. PICK step \in Steps(n, Nat) : \A j \in 1..n, v \in Nat : step[j][v] = v + l[j].ticks
  <2> DEFINE step == [j \in 1..n |-> [v \in Nat |-> v + l[j].ticks]]
  <2>1. step \in Steps(n, Nat) /\ \A j \in 1..n, v \in Nat : step[j][v] = v + l[j].ticks
    BY <1>2 DEF Steps
  <2>2. QED
    BY <2>1
<1>4. PICK f \in Values(n, Nat) : Follows(f, n, 0, step)
  <2>1. 0 \in Nat
    OBVIOUS
  <2>2. QED
    BY <2>1, Recursion
<1>5. /\ \A j \in 0..n : f[j] \in Nat
      /\ f[0] = 0 /\ \A j \in 1..n : f[j] = f[j - 1] + l[j].ticks
  <2>1. \A j \in 0..n : f[j] \in Nat
    BY DEF Values
  <2>2. ASSUME NEW j \in 1..n PROVE f[j] = f[j - 1] + l[j].ticks
    <3>1. j - 1 \in 0..n
      OBVIOUS
    <3>2. f[j] = step[j][f[j - 1]] /\ f[j - 1] \in Nat
      BY <1>4, <2>1, <3>1 DEF Follows
    <3>3. QED
      BY <1>3, <3>2
  <2>3. QED
    BY <1>4, <2>1, <2>2 DEF Follows
<1>6. PICK due : /\ \A j \in 0..n : due[j] = IF j = 0 THEN 0 ELSE due[j - 1] + l[j].ticks
                 /\ \A i \in 0..n : Due(l, i) = due[i]
  <2> DEFINE IsDue(g) == g = [j \in 0..n |-> IF j = 0 THEN 0 ELSE g[j - 1] + l[j].ticks]
             due == CHOOSE g : IsDue(g)
  <2>1. IsDue(f)
    <3>1. f = [j \in 0..n |-> f[j]]
      BY DEF Values
    <3>2. \A j \in 0..n : f[j] = IF j = 0 THEN 0 ELSE f[j - 1] + l[j].ticks
      BY <1>5
    <3>3. QED
      BY <3>1, <3>2
  <2>2. IsDue(due)
    BY <2>1
  <2>3. \A i \in 0..n : Due(l, i) = due[i]
    BY <1>1 DEF Due
  <2> HIDE DEF due
  <2>4. \A j \in 0..n : due[j] = IF j = 0 THEN 0 ELSE due[j - 1] + l[j].ticks
    BY <2>2
  <2>5. QED
    BY <2>3, <2>4
<1>7. \A i \in 0..n : due[i] = f[i]
  <2>1. due[0] = 0 /\ \A j \in 1..n : due[j] = due[j - 1] + l[j].ticks
    BY <1>6
  <2>2. due[0] = f[0] /\ \A j \in 1..n : due[j - 1] = f[j - 1] => due[j] = f[j]
    BY <1>5, <2>1
  <2>3. Alike(due, f, n)
    BY <2>2 DEF Alike
  <2>4. Agree(due, f, n)
    BY <2>3, SameFunction
  <2>5. QED
    BY <2>4 DEF Agree
<1>8. \A i \in 0..n : Due(l, i) = f[i]
  BY <1>6, <1>7
<1>9. \A i \in 1..n : Due(l, i) = Due(l, i - 1) + l[i].ticks
  <2>1. \A i \in 1..n : i \in 0..n /\ i - 1 \in 0..n
    OBVIOUS
  <2>2. QED
    BY <1>5, <1>8, <2>1
<1>10. QED
  BY SMTT(40), <1>1, <1>5, <1>8, <1>9

LEMMA DeadlinesType ==
  ASSUME NEW l \in Seq(Entries)
  PROVE  DeadlinesOf(l) \in Seq(D!Alarms) /\ Len(DeadlinesOf(l)) = Len(l)
<1>1. ASSUME NEW i \in 1..Len(l)
      PROVE  [left |-> Due(l, i), mark |-> Mark(l[i])] \in D!Alarms
  <2>1. Due(l, i) \in Nat
    <3>1. i \in 0..Len(l)
      OBVIOUS
    <3>2. QED
      BY <3>1, DueSteps
  <2>2. Mark(l[i]) \in UNION Groups
    <3>1. l[i] \in Entries
      OBVIOUS
    <3>2. CASE l[i].event = CustomTimer
      <4>1. l[i].arg \in Timers
        BY <3>1, <3>2, TimerAssumption DEF Entries
      <4>2. QED
        BY <3>2, <4>1 DEF Mark, Groups
    <3>3. CASE l[i].event # CustomTimer
      <4>1. l[i].event \in Threads \ {Idle}
        BY <3>1, <3>3 DEF Entries
      <4>2. QED
        BY <3>3, <4>1 DEF Mark, Groups
    <3>4. QED
      BY <3>2, <3>3
  <2>3. QED
    BY <2>1, <2>2 DEF D!Alarms, D!Marks
<1>2. DeadlinesOf(l) = [i \in 1..Len(l) |-> [left |-> Due(l, i), mark |-> Mark(l[i])]]
  BY DEF DeadlinesOf
<1>3. DeadlinesOf(l) \in [1..Len(l) -> D!Alarms]
  BY <1>1, <1>2, Zenon
<1>4. QED
  BY <1>3

\* Nothing else adds up.
IsDue(l, f) == f[0] = 0 /\ \A i \in 1..Len(l) : f[i] = f[i - 1] + l[i].ticks

LEMMA DueIs ==
  ASSUME NEW l \in Seq(Entries), NEW f, IsDue(l, f)
  PROVE  \A i \in 0..Len(l) : Due(l, i) = f[i]
<1> DEFINE g == [i \in 0..Len(l) |-> Due(l, i)]
<1>1. PICK n \in Nat : n = Len(l)
  OBVIOUS
<1>2. \A i \in 0..n : g[i] = Due(l, i)
  BY <1>1
<1>3. Alike(g, f, n)
  <2>1. \A i \in 1..n : i \in 0..n /\ i - 1 \in 0..n
    OBVIOUS
  <2>2. g[0] = 0 /\ \A i \in 1..n : g[i] = g[i - 1] + l[i].ticks
    BY <1>1, <1>2, <2>1, DueSteps
  <2> HIDE DEF g
  <2>3. f[0] = 0 /\ \A i \in 1..n : f[i] = f[i - 1] + l[i].ticks
    BY <1>1 DEF IsDue
  <2>4. QED
    BY <2>2, <2>3 DEF Alike
<1> HIDE DEF g
<1>4. Agree(g, f, n)
  BY <1>3, SameFunction
<1>5. QED
  BY <1>1, <1>2, <1>4 DEF Agree

LEMMA DueGrows ==
  ASSUME NEW l \in Seq(Entries)
  PROVE  \A i, j \in 0..Len(l) : i <= j => Due(l, i) <= Due(l, j)
<1>1. PICK n \in Nat : n = Len(l)
  OBVIOUS
<1>2. PICK f \in [0..n -> Nat] : \A i \in 0..n : f[i] = Due(l, i)
  <2>1. [i \in 0..n |-> Due(l, i)] \in [0..n -> Nat]
    BY <1>1, DueSteps
  <2>2. QED
    BY <2>1
<1>3. \A i \in 0..n : i + 1 <= n => f[i] <= f[i + 1]
  <2> SUFFICES ASSUME NEW i \in 0..n, i + 1 <= n PROVE f[i] <= f[i + 1]
    OBVIOUS
  <2>1. i + 1 \in 1..n /\ (i + 1) - 1 = i /\ l[i + 1] \in Entries
    BY <1>1
  <2>2. Due(l, i + 1) = Due(l, i) + l[i + 1].ticks
    BY <1>1, <2>1, DueSteps
  <2>3. l[i + 1].ticks \in Nat /\ i + 1 \in 0..n
    BY <2>1 DEF Entries
  <2>4. QED
    BY SMTT(40), <1>2, <2>2, <2>3
<1> DEFINE S == { k \in Nat : k <= n => \A i \in 0..k : f[i] <= f[k] }
<1>4. 0 \in S
  OBVIOUS
<1>5. ASSUME NEW k \in Nat, k \in S PROVE k + 1 \in S
  <2> SUFFICES ASSUME k + 1 <= n, NEW i \in 0..k + 1 PROVE f[i] <= f[k + 1]
    OBVIOUS
  <2>1. k \in 0..n /\ k + 1 \in 0..n /\ i \in 0..n
    OBVIOUS
  <2>2. f[k] <= f[k + 1] /\ f[k] \in Nat /\ f[k + 1] \in Nat /\ f[i] \in Nat
    BY <1>3, <2>1
  <2>3. CASE i = k + 1
    BY <2>2, <2>3
  <2>4. CASE i # k + 1
    <3>1. i \in 0..k
      BY <2>4
    <3>2. f[i] <= f[k]
      BY <1>5, <3>1
    <3>3. QED
      BY <2>2, <3>2
  <2>5. QED
    BY <2>3, <2>4
<1> HIDE DEF S
<1>6. Nat \subseteq S
  BY <1>4, <1>5, Induction
<1>7. ASSUME NEW i \in 0..n, NEW j \in 0..n, i <= j PROVE f[i] <= f[j]
  <2>1. j \in S /\ i \in 0..j
    BY <1>6, <1>7
  <2>2. QED
    BY <2>1 DEF S
<1>8. QED
  BY <1>1, <1>2, <1>7

-----------------------------------------------------------------------------
(***************************************************************************)
(* Inserting an alarm.                                                     *)
(***************************************************************************)

\* The place among the ticks that are due.
IsSlot(l, n, i) ==
  /\ i \in 1..Len(l) + 1
  /\ \A j \in 1..i - 1 : Due(l, j) <= n
  /\ i <= Len(l) => Due(l, i) > n

LEMMA SlotExists ==
  ASSUME NEW l \in Seq(Entries), NEW n \in Nat
  PROVE  \E i : IsSlot(l, n, i)
<1> DEFINE Later == { i \in 1..Len(l) : Due(l, i) > n }
<1>1. \A i \in 0..Len(l) : Due(l, i) \in Nat
  BY DueSteps
<1>2. CASE Later = {}
  <2>1. IsSlot(l, n, Len(l) + 1)
    <3>1. \A j \in 1..Len(l) : ~(Due(l, j) > n) /\ j \in 0..Len(l)
      BY <1>2
    <3>2. \A j \in 1..Len(l) : Due(l, j) <= n
      BY <1>1, <3>1
    <3>3. QED
      BY <3>2 DEF IsSlot
  <2>2. QED
    BY <2>1
<1>3. CASE Later # {}
  <2>1. PICK i \in Later : \A j \in Later : i <= j
    <3>1. Later \subseteq Nat
      OBVIOUS
    <3> HIDE DEF Later
    <3>2. QED
      BY <1>3, <3>1, SmallestNat
  <2>2. ASSUME NEW j \in 1..i - 1 PROVE Due(l, j) <= n
    <3>1. j \in 0..Len(l) /\ ~(j \in Later)
      BY <2>1
    <3>2. QED
      BY <1>1, <3>1
  <2>3. IsSlot(l, n, i)
    BY <2>1, <2>2 DEF IsSlot
  <2>4. QED
    BY <2>3
<1>4. QED
  BY <1>2, <1>3

LEMMA SlotIsOne ==
  ASSUME NEW l \in Seq(Entries), NEW n \in Nat, NEW i, NEW k,
         IsSlot(l, n, i), IsSlot(l, n, k)
  PROVE  i = k
<1>1. \A x \in 0..Len(l) : Due(l, x) \in Nat
  BY DueSteps
<1>2. ASSUME NEW x, NEW y, IsSlot(l, n, x), IsSlot(l, n, y), x < y PROVE FALSE
  <2>1. x \in 1..Len(l) /\ x \in 1..y - 1 /\ x \in 0..Len(l)
    BY <1>2 DEF IsSlot
  <2>2. Due(l, x) <= n /\ Due(l, x) > n
    BY <1>2, <2>1 DEF IsSlot
  <2>3. QED
    BY <1>1, <2>1, <2>2
<1>3. i \in Int /\ k \in Int
  BY DEF IsSlot
<1>4. ~(i < k) /\ ~(k < i)
  BY <1>2
<1>5. QED
  BY <1>3, <1>4

\* The search, which subtracts as it goes, finds it.
LEMMA PositionIsSlot ==
  ASSUME NEW l \in Seq(Entries), NEW n \in Nat
  PROVE  /\ IsSlot(l, n, Position(l, n))
         /\ Rest(l, n, Position(l, n)) \in Nat
         /\ Rest(l, n, Position(l, n)) = n - Due(l, Position(l, n) - 1)
<1> DEFINE Found(i) == /\ i <= Len(l) => Rest(l, n, i) < l[i].ticks
                       /\ \A j \in 1..i - 1 : Rest(l, n, j) >= l[j].ticks
<1>1. ASSUME NEW i \in 1..Len(l)
      PROVE  /\ Rest(l, n, i) < l[i].ticks <=> Due(l, i) > n
             /\ Rest(l, n, i) >= l[i].ticks <=> Due(l, i) <= n
  <2>1. i - 1 \in 0..Len(l) /\ i \in 0..Len(l) /\ l[i] \in Entries
    OBVIOUS
  <2>2. Due(l, i) \in Nat /\ Due(l, i - 1) \in Nat /\ l[i].ticks \in Nat
    BY <2>1, DueSteps DEF Entries
  <2>3. Due(l, i) = Due(l, i - 1) + l[i].ticks
    BY DueSteps
  <2>4. QED
    BY <2>2, <2>3 DEF Rest
<1>2. ASSUME NEW i \in 1..Len(l) + 1 PROVE Found(i) <=> IsSlot(l, n, i)
  <2>1. \A j \in 1..i - 1 : j \in 1..Len(l)
    OBVIOUS
  <2>2. (\A j \in 1..i - 1 : Rest(l, n, j) >= l[j].ticks) <=> \A j \in 1..i - 1 : Due(l, j) <= n
    BY <1>1, <2>1
  <2>3. (i <= Len(l) => Rest(l, n, i) < l[i].ticks) <=> (i <= Len(l) => Due(l, i) > n)
    <3>1. i <= Len(l) => i \in 1..Len(l)
      OBVIOUS
    <3>2. QED
      BY <1>1, <3>1
  <2>4. QED
    BY <2>2, <2>3 DEF IsSlot
<1>3. \E i \in 1..Len(l) + 1 : Found(i)
  <2>1. PICK i : IsSlot(l, n, i)
    BY SlotExists
  <2>2. i \in 1..Len(l) + 1
    BY <2>1 DEF IsSlot
  <2>3. Found(i)
    BY <1>2, <2>1, <2>2
  <2>4. QED
    BY <2>2, <2>3
<1>4. Position(l, n) \in 1..Len(l) + 1 /\ Found(Position(l, n))
  BY <1>3 DEF Position
<1> HIDE DEF Found
<1>5. IsSlot(l, n, Position(l, n))
  BY <1>2, <1>4
<1>6. n - Due(l, Position(l, n) - 1) \in Nat
  <2>1. CASE Position(l, n) = 1
    BY <2>1, DueSteps
  <2>2. CASE Position(l, n) # 1
    <3>1. PICK k : k = Position(l, n) - 1
      OBVIOUS
    <3>2. k \in 1..Position(l, n) - 1 /\ k \in 0..Len(l)
      BY <1>4, <2>2, <3>1
    <3>3. Due(l, k) <= n /\ Due(l, k) \in Nat
      BY <1>5, <3>2, DueSteps DEF IsSlot
    <3>4. QED
      BY <3>1, <3>3
  <2>3. QED
    BY <2>1, <2>2
<1>7. QED
  BY <1>5, <1>6 DEF Rest

\* The deadlines put the alarm in the same place.
LEMMA PlaceIsPosition ==
  ASSUME NEW l \in Seq(Entries), NEW n \in Nat
  PROVE  D!Place(DeadlinesOf(l), n) = Position(l, n)
<1> DEFINE Ok(i) == /\ \A j \in 1..i - 1 : DeadlinesOf(l)[j].left <= n
                    /\ i <= Len(DeadlinesOf(l)) => DeadlinesOf(l)[i].left > n
<1>1. Len(DeadlinesOf(l)) = Len(l) /\ \A i \in 1..Len(l) : DeadlinesOf(l)[i].left = Due(l, i)
  BY DEF DeadlinesOf
<1>2. ASSUME NEW i \in 1..Len(l) + 1 PROVE Ok(i) <=> IsSlot(l, n, i)
  <2>1. \A j \in 1..i - 1 : j \in 1..Len(l)
    OBVIOUS
  <2>2. i <= Len(l) => i \in 1..Len(l)
    OBVIOUS
  <2>3. QED
    BY <1>1, <2>1, <2>2 DEF IsSlot
<1>3. IsSlot(l, n, Position(l, n)) /\ Position(l, n) \in 1..Len(l) + 1
  BY PositionIsSlot DEF IsSlot
<1>4. \E i \in 1..Len(l) + 1 : Ok(i)
  BY <1>2, <1>3
<1>5. D!Place(DeadlinesOf(l), n) = CHOOSE i \in 1..Len(l) + 1 : Ok(i)
  BY <1>1 DEF D!Place
<1>6. D!Place(DeadlinesOf(l), n) \in 1..Len(l) + 1 /\ Ok(D!Place(DeadlinesOf(l), n))
  BY <1>4, <1>5
<1> HIDE DEF Ok
<1>7. IsSlot(l, n, D!Place(DeadlinesOf(l), n))
  BY <1>2, <1>6
<1>8. QED
  BY <1>3, <1>7, SlotIsOne

\* The array m after an entry was inserted in l at i, where rest ticks are left.
Inserted(m, l, i, rest, ev, arg) ==
  /\ m \in Seq(Entries) /\ Len(m) = Len(l) + 1
  /\ i \in 1..Len(l) + 1
  /\ \A j \in 1..i - 1 : m[j] = l[j]
  /\ m[i] = [ticks |-> rest, event |-> ev, arg |-> arg]
  /\ i <= Len(l) => m[i + 1] = [l[i] EXCEPT !.ticks = l[i].ticks - rest]
  /\ \A j \in i + 2..Len(l) + 1 : m[j] = l[j - 1]

LEMMA InsertedEntries ==
  ASSUME NEW l \in Seq(Entries), NEW n \in Nat, NEW ev, NEW arg,
         [ticks |-> n, event |-> ev, arg |-> arg] \in Entries
  PROVE  LET i == Position(l, n)
         IN  Inserted(InsertAlarm(l, n, ev, arg), l, i, n - Due(l, i - 1), ev, arg)
<1>1. PICK i : i = Position(l, n)
  OBVIOUS
<1>2. PICK rest \in Nat : rest = n - Due(l, i - 1) /\ rest = Rest(l, n, i)
  BY <1>1, PositionIsSlot
<1>3. IsSlot(l, n, i) /\ i \in 1..Len(l) + 1
  BY <1>1, PositionIsSlot DEF IsSlot
<1>4. PICK e \in Entries : e = [ticks |-> rest, event |-> ev, arg |-> arg]
  BY DEF Entries
<1>5. PICK adj : adj = IF i > Len(l) THEN l ELSE [l EXCEPT ![i].ticks = @ - rest]
  OBVIOUS
<1>6. i <= Len(l) => [l[i] EXCEPT !.ticks = l[i].ticks - rest] \in Entries
  <2> SUFFICES ASSUME i <= Len(l) PROVE [l[i] EXCEPT !.ticks = l[i].ticks - rest] \in Entries
    OBVIOUS
  <2>1. i \in 1..Len(l) /\ l[i] \in Entries
    BY <1>3
  <2>2. Due(l, i) > n /\ Due(l, i) = Due(l, i - 1) + l[i].ticks
    BY <1>3, <2>1, DueSteps DEF IsSlot
  <2>3. Due(l, i) \in Nat /\ Due(l, i - 1) \in Nat /\ l[i].ticks \in Nat
    <3>1. i \in 0..Len(l) /\ i - 1 \in 0..Len(l)
      BY <2>1
    <3>2. QED
      BY <2>1, <3>1, DueSteps DEF Entries
  <2>4. l[i].ticks - rest \in Nat
    BY <1>2, <2>2, <2>3
  <2>5. QED
    BY <2>1, <2>4 DEF Entries
<1>7. /\ adj \in Seq(Entries) /\ Len(adj) = Len(l)
      /\ \A j \in 1..Len(l) : j # i => adj[j] = l[j]
      /\ i <= Len(l) => adj[i] = [l[i] EXCEPT !.ticks = l[i].ticks - rest]
  <2>1. CASE i > Len(l)
    <3>1. adj = l /\ ~(i <= Len(l))
      BY <1>3, <1>5, <2>1
    <3>2. QED
      BY <3>1
  <2>2. CASE ~(i > Len(l))
    <3>1. i \in 1..Len(l) /\ i <= Len(l)
      BY <1>3, <2>2
    <3>2. adj = [l EXCEPT ![i] = [l[i] EXCEPT !.ticks = l[i].ticks - rest]]
      BY <1>5, <2>2
    <3>3. PICK x \in Entries : x = [l[i] EXCEPT !.ticks = l[i].ticks - rest]
      BY <1>6, <3>1
    <3>4. adj = [l EXCEPT ![i] = x]
      BY <3>2, <3>3
    <3>5. /\ adj \in Seq(Entries) /\ Len(adj) = Len(l)
          /\ \A j \in 1..Len(l) : j # i => adj[j] = l[j]
          /\ adj[i] = x
      BY <3>1, <3>4
    <3>6. QED
      BY <3>3, <3>5
  <2>3. QED
    BY <2>1, <2>2
<1>8. InsertAlarm(l, n, ev, arg) = ShiftRight(adj, i, e)
  BY <1>1, <1>2, <1>4, <1>5 DEF InsertAlarm
<1>9. PICK m : m = InsertAlarm(l, n, ev, arg)
  OBVIOUS
<1>10. m = [j \in 1..Len(l) + 1 |-> IF j < i THEN adj[j] ELSE IF j = i THEN e ELSE adj[j - 1]]
  BY <1>7, <1>8, <1>9 DEF ShiftRight
<1>11. \A j \in 1..Len(l) + 1 : m[j] \in Entries
  <2> SUFFICES ASSUME NEW j \in 1..Len(l) + 1 PROVE m[j] \in Entries
    OBVIOUS
  <2>1. CASE j < i
    BY <1>3, <1>7, <1>10, <2>1
  <2>2. CASE j = i
    BY <1>10, <2>2
  <2>3. CASE j > i
    <3>1. j - 1 \in 1..Len(l) /\ m[j] = adj[j - 1]
      BY <1>3, <1>10, <2>3
    <3>2. QED
      BY <1>7, <3>1
  <2>4. QED
    BY <1>3, <2>1, <2>2, <2>3
<1>12. m \in Seq(Entries) /\ Len(m) = Len(l) + 1
  BY <1>10, <1>11
<1>13. \A j \in 1..i - 1 : m[j] = l[j]
  BY <1>3, <1>7, <1>10
<1>14. m[i] = e
  BY <1>3, <1>10
<1>15. i <= Len(l) => m[i + 1] = [l[i] EXCEPT !.ticks = l[i].ticks - rest]
  BY <1>3, <1>7, <1>10
<1>16. ASSUME NEW j \in i + 2..Len(l) + 1 PROVE m[j] = l[j - 1]
  <2>1. j \in 1..Len(l) + 1 /\ ~(j < i) /\ j # i /\ j - 1 \in 1..Len(l) /\ j - 1 # i
    BY <1>3
  <2>2. m[j] = adj[j - 1]
    BY <1>10, <2>1
  <2>3. QED
    BY <1>7, <2>1, <2>2
<1>17. Inserted(m, l, i, rest, ev, arg)
  BY <1>3, <1>4, <1>12, <1>13, <1>14, <1>15, <1>16 DEF Inserted
<1>18. QED
  BY <1>1, <1>2, <1>9, <1>17

\* Inserting puts the alarm among the deadlines, and the others keep theirs.
LEMMA InsertPuts ==
  ASSUME NEW l \in Seq(Entries), NEW n \in Nat, NEW ev, NEW arg,
         [ticks |-> n, event |-> ev, arg |-> arg] \in Entries
  PROVE  DeadlinesOf(InsertAlarm(l, n, ev, arg)) =
           D!Put(DeadlinesOf(l), [left |-> n,
                                  mark |-> Mark([ticks |-> n, event |-> ev, arg |-> arg])])
<1>1. PICK i : i = Position(l, n)
  OBVIOUS
<1>2. PICK m : m = InsertAlarm(l, n, ev, arg)
  OBVIOUS
<1>3. PICK rest \in Nat : rest = n - Due(l, i - 1)
  BY <1>1, PositionIsSlot
<1>4. /\ m \in Seq(Entries) /\ Len(m) = Len(l) + 1
      /\ i \in 1..Len(l) + 1
      /\ \A j \in 1..i - 1 : m[j] = l[j]
      /\ m[i] = [ticks |-> rest, event |-> ev, arg |-> arg]
      /\ i <= Len(l) => m[i + 1] = [l[i] EXCEPT !.ticks = l[i].ticks - rest]
      /\ \A j \in i + 2..Len(l) + 1 : m[j] = l[j - 1]
  <2>1. Inserted(m, l, i, rest, ev, arg)
    BY <1>1, <1>2, <1>3, InsertedEntries
  <2>2. QED
    BY <2>1 DEF Inserted
<1>5. PICK f : /\ \A j \in 0..Len(l) + 1 : f[j] = IF j < i THEN Due(l, j)
                                                  ELSE IF j = i THEN n ELSE Due(l, j - 1)
  <2> DEFINE f == [j \in 0..Len(l) + 1 |-> IF j < i THEN Due(l, j)
                                            ELSE IF j = i THEN n ELSE Due(l, j - 1)]
  <2>1. \A j \in 0..Len(l) + 1 : f[j] = IF j < i THEN Due(l, j)
                                        ELSE IF j = i THEN n ELSE Due(l, j - 1)
    OBVIOUS
  <2>2. QED
    BY <2>1
<1>6. ASSUME NEW j \in 1..Len(l)
      PROVE  /\ Due(l, j) = Due(l, j - 1) + l[j].ticks
             /\ Due(l, j) \in Nat /\ Due(l, j - 1) \in Nat /\ l[j].ticks \in Nat
  <2>1. j \in 0..Len(l) /\ j - 1 \in 0..Len(l) /\ l[j] \in Entries
    OBVIOUS
  <2>2. QED
    BY <2>1, DueSteps DEF Entries
<1>7. IsDue(m, f)
  <2>1. f[0] = 0
    BY <1>4, <1>5, DueSteps
  <2>2. ASSUME NEW j \in 1..Len(l) + 1 PROVE f[j] = f[j - 1] + m[j].ticks
    <3>1. j \in 0..Len(l) + 1 /\ j - 1 \in 0..Len(l) + 1
      OBVIOUS
    <3>2. CASE j < i
      <4>1. j \in 1..Len(l) /\ j \in 1..i - 1 /\ j - 1 < i
        BY <1>4, <3>2
      <4>2. m[j] = l[j]
        BY <1>4, <4>1
      <4>3. f[j] = Due(l, j) /\ f[j - 1] = Due(l, j - 1)
        BY <1>5, <3>1, <3>2, <4>1
      <4>4. QED
        BY <1>6, <4>1, <4>2, <4>3
    <3>3. CASE j = i
      <4>1. f[j] = n /\ f[j - 1] = Due(l, i - 1) /\ m[j].ticks = rest
        BY <1>4, <1>5, <3>1, <3>3
      <4>2. Due(l, i - 1) \in Nat
        <5>1. i - 1 \in 0..Len(l)
          BY <1>4
        <5>2. QED
          BY <5>1, DueSteps
      <4>3. QED
        BY <1>3, <4>1, <4>2
    <3>4. CASE j = i + 1
      <4>1. i \in 1..Len(l)
        BY <1>4, <3>4
      <4>2. f[j] = Due(l, i) /\ f[j - 1] = n
        BY <1>4, <1>5, <3>1, <3>4
      <4>3. m[j] = [l[i] EXCEPT !.ticks = l[i].ticks - rest]
        BY <1>4, <3>4, <4>1
      <4>4. m[j].ticks = l[i].ticks - rest
        <5>1. l[i] \in Entries
          BY <4>1
        <5>2. QED
          BY <4>3, <5>1 DEF Entries
      <4>5. QED
        BY <1>3, <1>6, <4>1, <4>2, <4>4
    <3>5. CASE j > i + 1
      <4>1. j - 1 \in 1..Len(l) /\ j \in i + 2..Len(l) + 1 /\ (j - 1) - 1 = j - 2
        BY <1>4, <3>5
      <4>2. f[j] = Due(l, j - 1) /\ f[j - 1] = Due(l, (j - 1) - 1)
        BY <1>4, <1>5, <3>1, <3>5
      <4>3. m[j] = l[j - 1]
        BY <1>4, <4>1
      <4>4. QED
        BY <1>6, <4>1, <4>2, <4>3
    <3>6. QED
      BY <1>4, <3>2, <3>3, <3>4, <3>5
  <2>3. QED
    BY <1>4, <2>1, <2>2 DEF IsDue
<1>8. \A j \in 1..Len(l) + 1 : Due(m, j) = f[j]
  <2>1. \A j \in 1..Len(l) + 1 : j \in 0..Len(m)
    BY <1>4
  <2>2. QED
    BY <1>4, <1>7, <2>1, DueIs
<1>9. PICK a : a = [left |-> n, mark |-> Mark([ticks |-> n, event |-> ev, arg |-> arg])]
  OBVIOUS
<1>10. D!Put(DeadlinesOf(l), a) =
         [j \in 1..Len(l) + 1 |-> IF j < i THEN DeadlinesOf(l)[j]
                                  ELSE IF j = i THEN a ELSE DeadlinesOf(l)[j - 1]]
  <2>1. Len(DeadlinesOf(l)) = Len(l)
    BY DEF DeadlinesOf
  <2>2. D!Place(DeadlinesOf(l), a.left) = i
    BY <1>1, <1>9, PlaceIsPosition
  <2>3. QED
    BY <2>1, <2>2 DEF D!Put
<1>11. ASSUME NEW j \in 1..Len(l) + 1
       PROVE  [left |-> Due(m, j), mark |-> Mark(m[j])] =
                IF j < i THEN DeadlinesOf(l)[j] ELSE IF j = i THEN a ELSE DeadlinesOf(l)[j - 1]
  <2>1. \A k \in 1..Len(l) : DeadlinesOf(l)[k] = [left |-> Due(l, k), mark |-> Mark(l[k])]
    BY DEF DeadlinesOf
  <2>2. Due(m, j) = IF j < i THEN Due(l, j) ELSE IF j = i THEN n ELSE Due(l, j - 1)
    <3>1. j \in 0..Len(l) + 1
      OBVIOUS
    <3>2. QED
      BY <1>5, <1>8, <3>1
  <2>3. CASE j < i
    <3>1. j \in 1..Len(l) /\ j \in 1..i - 1
      BY <1>4, <2>3
    <3>2. m[j] = l[j] /\ Due(m, j) = Due(l, j)
      BY <1>4, <2>2, <2>3, <3>1
    <3>3. QED
      BY <2>1, <2>3, <3>1, <3>2
  <2>4. CASE j = i
    <3>1. Due(m, j) = n /\ Mark(m[j]) = Mark([ticks |-> n, event |-> ev, arg |-> arg])
      BY <1>4, <2>2, <2>4 DEF Mark
    <3>2. QED
      BY <1>4, <1>9, <2>4, <3>1
  <2>5. CASE j > i
    <3>1. j - 1 \in 1..Len(l) /\ ~(j < i) /\ j # i
      BY <1>4, <2>5
    <3>2. Due(m, j) = Due(l, j - 1)
      BY <2>2, <3>1
    <3>3. Mark(m[j]) = Mark(l[j - 1])
      <4>1. CASE j = i + 1
        <5>1. m[j] = [l[i] EXCEPT !.ticks = l[i].ticks - rest] /\ l[i] \in Entries /\ j - 1 = i
          BY <1>4, <3>1, <4>1
        <5>2. m[j].event = l[i].event /\ m[j].arg = l[i].arg
          BY <5>1 DEF Entries
        <5>3. QED
          BY <5>1, <5>2 DEF Mark
      <4>2. CASE j # i + 1
        <5>1. j \in i + 2..Len(l) + 1
          BY <1>4, <2>5, <4>2
        <5>2. m[j] = l[j - 1]
          BY <1>4, <5>1
        <5>3. QED
          BY <5>2
      <4>3. QED
        BY <4>1, <4>2
    <3>4. QED
      BY <2>1, <3>1, <3>2, <3>3
  <2>6. QED
    BY <1>4, <2>3, <2>4, <2>5
<1>12. DeadlinesOf(m) = [j \in 1..Len(l) + 1 |-> [left |-> Due(m, j), mark |-> Mark(m[j])]]
  BY <1>4 DEF DeadlinesOf
<1>13. DeadlinesOf(m) = D!Put(DeadlinesOf(l), a)
  BY <1>10, <1>11, <1>12, Zenon
<1>14. QED
  BY <1>2, <1>9, <1>13

\* No alarm is due: the first one is later.
NoneDue(l) == l # <<>> => l[1].ticks > 0

\* An alarm that is inserted for later is not due, nor makes one due.
LEMMA InsertNoneDue ==
  ASSUME NEW l \in Seq(Entries), NEW n \in Nat, NEW ev, NEW arg, n > 0,
         [ticks |-> n, event |-> ev, arg |-> arg] \in Entries, NoneDue(l)
  PROVE  NoneDue(InsertAlarm(l, n, ev, arg))
<1>1. PICK i : i = Position(l, n)
  OBVIOUS
<1>2. PICK m : m = InsertAlarm(l, n, ev, arg)
  OBVIOUS
<1>3. PICK rest \in Nat : rest = n - Due(l, i - 1)
  BY <1>1, PositionIsSlot
<1>4. Inserted(m, l, i, rest, ev, arg)
  BY <1>1, <1>2, <1>3, InsertedEntries
<1>5. m[1].ticks > 0
  <2>1. CASE i = 1
    <3>1. rest = n
      BY <1>3, <2>1, DueSteps
    <3>2. QED
      BY <1>4, <2>1, <3>1 DEF Inserted
  <2>2. CASE i # 1
    <3>1. m[1] = l[1] /\ l # <<>>
      <4>1. 1 \in 1..i - 1 /\ Len(l) > 0
        BY <1>4, <2>2 DEF Inserted
      <4>2. QED
        BY <1>4, <4>1 DEF Inserted
    <3>2. QED
      BY <3>1 DEF NoneDue
  <2>3. QED
    BY <2>1, <2>2
<1>6. QED
  BY <1>2, <1>5 DEF NoneDue

-----------------------------------------------------------------------------
(***************************************************************************)
(* Removing alarms, and counting down.                                     *)
(***************************************************************************)

\* The array m after entry i of l was removed.
Removed(m, l, i) ==
  /\ m \in Seq(Entries) /\ Len(m) = Len(l) - 1
  /\ \A j \in 1..i - 1 : m[j] = l[j]
  /\ i < Len(l) => m[i] = [l[i + 1] EXCEPT !.ticks = l[i + 1].ticks + l[i].ticks]
  /\ \A j \in i + 1..Len(l) - 1 : m[j] = l[j + 1]

LEMMA RemovedEntries ==
  ASSUME NEW l \in Seq(Entries), NEW i \in 1..Len(l)
  PROVE  Removed(RemoveAlarm(l, i), l, i)
<1>1. PICK r : r = ShiftLeft(l, i)
  OBVIOUS
<1>2. /\ r \in Seq(Entries) /\ Len(r) = Len(l) - 1
      /\ \A j \in 1..Len(l) - 1 : r[j] = IF j < i THEN l[j] ELSE l[j + 1]
  <2>1. r = [j \in 1..Len(l) - 1 |-> IF j < i THEN l[j] ELSE l[j + 1]]
    BY <1>1 DEF ShiftLeft
  <2>2. \A j \in 1..Len(l) - 1 : l[j] \in Entries /\ l[j + 1] \in Entries
    OBVIOUS
  <2>3. QED
    BY <2>1, <2>2
<1>3. CASE i = Len(l)
  <2>1. RemoveAlarm(l, i) = r
    BY <1>1, <1>2, <1>3 DEF RemoveAlarm
  <2>2. QED
    BY <1>2, <1>3, <2>1 DEF Removed
<1>4. CASE i < Len(l)
  <2>1. i \in 1..Len(l) - 1 /\ r[i] = l[i + 1] /\ l[i + 1] \in Entries /\ l[i] \in Entries
    BY <1>2, <1>4
  <2>2. PICK x \in Entries : x = [l[i + 1] EXCEPT !.ticks = l[i + 1].ticks + l[i].ticks]
    <3>1. l[i + 1].ticks \in Nat /\ l[i].ticks \in Nat
      BY <2>1 DEF Entries
    <3>2. [l[i + 1] EXCEPT !.ticks = l[i + 1].ticks + l[i].ticks] \in Entries
      BY SMTT(40), <2>1, <3>1 DEF Entries
    <3>3. QED
      BY <3>2
  <2>3. RemoveAlarm(l, i) = [r EXCEPT ![i].ticks = @ + l[i].ticks]
    BY <1>1, <1>2, <2>1 DEF RemoveAlarm
  <2>4. RemoveAlarm(l, i) = [r EXCEPT ![i] = x]
    BY <2>1, <2>2, <2>3
  <2>5. PICK m : m = RemoveAlarm(l, i)
    OBVIOUS
  <2>6. /\ m \in Seq(Entries) /\ Len(m) = Len(l) - 1 /\ m[i] = x
        /\ \A j \in 1..Len(l) - 1 : j # i => m[j] = r[j]
    BY <1>2, <2>1, <2>4, <2>5
  <2>7. ASSUME NEW j \in 1..i - 1 PROVE m[j] = l[j]
    <3>1. j \in 1..Len(l) - 1 /\ j # i /\ j < i
      BY <1>4
    <3>2. QED
      BY <1>2, <2>6, <3>1
  <2>8. ASSUME NEW j \in i + 1..Len(l) - 1 PROVE m[j] = l[j + 1]
    <3>1. j \in 1..Len(l) - 1 /\ j # i /\ ~(j < i)
      OBVIOUS
    <3>2. QED
      BY <1>2, <2>6, <3>1
  <2>9. QED
    BY <2>2, <2>5, <2>6, <2>7, <2>8 DEF Removed
<1>5. QED
  BY <1>3, <1>4

\* The deadline goes and the others stay.
LEMMA RemoveShifts ==
  ASSUME NEW l \in Seq(Entries), NEW i \in 1..Len(l), NEW m, Removed(m, l, i)
  PROVE  DeadlinesOf(m) = ShiftLeft(DeadlinesOf(l), i)
<1>1. PICK f : \A j \in 0..Len(l) - 1 : f[j] = IF j < i THEN Due(l, j) ELSE Due(l, j + 1)
  <2> DEFINE f == [j \in 0..Len(l) - 1 |-> IF j < i THEN Due(l, j) ELSE Due(l, j + 1)]
  <2>1. \A j \in 0..Len(l) - 1 : f[j] = IF j < i THEN Due(l, j) ELSE Due(l, j + 1)
    OBVIOUS
  <2> HIDE DEF f
  <2>2. QED
    BY <2>1
<1>2. ASSUME NEW j \in 1..Len(l)
      PROVE  /\ Due(l, j) = Due(l, j - 1) + l[j].ticks
             /\ Due(l, j) \in Nat /\ Due(l, j - 1) \in Nat /\ l[j].ticks \in Nat
  <2>1. j \in 0..Len(l) /\ j - 1 \in 0..Len(l) /\ l[j] \in Entries
    OBVIOUS
  <2>2. QED
    BY <2>1, DueSteps DEF Entries
<1>3. IsDue(m, f)
  <2>1. f[0] = 0
    BY <1>1, DueSteps
  <2>2. ASSUME NEW j \in 1..Len(l) - 1 PROVE f[j] = f[j - 1] + m[j].ticks
    <3>1. j \in 0..Len(l) - 1 /\ j - 1 \in 0..Len(l) - 1 /\ j \in 1..Len(l) /\ j + 1 \in 1..Len(l)
      OBVIOUS
    <3>2. CASE j < i
      <4>1. j - 1 < i /\ j \in 1..i - 1
        BY <3>2
      <4>2. f[j] = Due(l, j) /\ f[j - 1] = Due(l, j - 1) /\ m[j] = l[j]
        BY <1>1, <3>1, <3>2, <4>1 DEF Removed
      <4>3. QED
        BY <1>2, <3>1, <4>2
    <3>3. CASE j = i
      <4>1. f[j] = Due(l, i + 1) /\ f[j - 1] = Due(l, i - 1)
        BY <1>1, <3>1, <3>3
      <4>2. m[i] = [l[i + 1] EXCEPT !.ticks = l[i + 1].ticks + l[i].ticks]
        BY <3>3 DEF Removed
      <4>3. m[i].ticks = l[i + 1].ticks + l[i].ticks
        <5>1. l[i + 1] \in Entries
          BY <3>1, <3>3
        <5>2. QED
          BY <4>2, <5>1 DEF Entries
      <4>4. Due(l, i + 1) = Due(l, i) + l[i + 1].ticks /\ Due(l, i) = Due(l, i - 1) + l[i].ticks
        <5>1. (i + 1) - 1 = i /\ i + 1 \in 1..Len(l)
          BY <3>1, <3>3
        <5>2. QED
          BY <1>2, <5>1
      <4>5. QED
        <5>1. Due(l, i - 1) \in Nat /\ l[i].ticks \in Nat /\ l[i + 1].ticks \in Nat
          BY <1>2, <3>1, <3>3
        <5>2. QED
          BY <3>3, <4>1, <4>3, <4>4, <5>1
    <3>4. CASE j > i
      <4>1. j \in i + 1..Len(l) - 1 /\ ~(j < i) /\ ~(j - 1 < i) /\ (j + 1) - 1 = j /\ (j - 1) + 1 = j
        BY <3>4
      <4>2. f[j] = Due(l, j + 1) /\ f[j - 1] = Due(l, j)
        BY <1>1, <3>1, <4>1
      <4>3. m[j] = l[j + 1]
        BY <4>1 DEF Removed
      <4>4. Due(l, j + 1) = Due(l, (j + 1) - 1) + l[j + 1].ticks
        BY <1>2, <3>1
      <4>5. QED
        BY <4>1, <4>2, <4>3, <4>4
    <3>5. QED
      BY <3>2, <3>3, <3>4
  <2>3. QED
    BY <2>1, <2>2 DEF IsDue, Removed
<1>4. Len(m) = Len(l) - 1 /\ m \in Seq(Entries)
  BY DEF Removed
<1>5. \A j \in 1..Len(l) - 1 : Due(m, j) = f[j]
  <2>1. \A j \in 1..Len(l) - 1 : j \in 0..Len(m)
    BY <1>4
  <2>2. QED
    BY <1>3, <1>4, <2>1, DueIs
<1>6. \A k \in 1..Len(l) : DeadlinesOf(l)[k] = [left |-> Due(l, k), mark |-> Mark(l[k])]
  BY DEF DeadlinesOf
<1>7. ASSUME NEW j \in 1..Len(l) - 1
      PROVE  [left |-> Due(m, j), mark |-> Mark(m[j])] =
               IF j < i THEN DeadlinesOf(l)[j] ELSE DeadlinesOf(l)[j + 1]
  <2>1. Due(m, j) = IF j < i THEN Due(l, j) ELSE Due(l, j + 1)
    <3>1. j \in 0..Len(l) - 1
      OBVIOUS
    <3>2. QED
      BY <1>1, <1>5, <3>1
  <2>2. Mark(m[j]) = IF j < i THEN Mark(l[j]) ELSE Mark(l[j + 1])
    <3>1. CASE j < i
      <4>1. j \in 1..i - 1
        BY <3>1
      <4>2. m[j] = l[j]
        BY <4>1 DEF Removed
      <4>3. QED
        BY <3>1, <4>2
    <3>2. CASE j = i
      <4>1. m[i] = [l[i + 1] EXCEPT !.ticks = l[i + 1].ticks + l[i].ticks] /\ l[i + 1] \in Entries
        BY <3>2 DEF Removed
      <4>2. m[i].event = l[i + 1].event /\ m[i].arg = l[i + 1].arg
        BY <4>1 DEF Entries
      <4>3. QED
        BY <3>2, <4>2 DEF Mark
    <3>3. CASE j > i
      <4>1. j \in i + 1..Len(l) - 1 /\ ~(j < i)
        BY <3>3
      <4>2. m[j] = l[j + 1]
        BY <4>1 DEF Removed
      <4>3. QED
        BY <4>1, <4>2
    <3>4. QED
      BY <3>1, <3>2, <3>3
  <2>3. j \in 1..Len(l) /\ j + 1 \in 1..Len(l)
    OBVIOUS
  <2>4. CASE j < i
    BY <1>6, <2>1, <2>2, <2>3, <2>4
  <2>5. CASE ~(j < i)
    BY <1>6, <2>1, <2>2, <2>3, <2>5
  <2>6. QED
    BY <2>4, <2>5
<1>8. DeadlinesOf(m) = [j \in 1..Len(l) - 1 |-> [left |-> Due(m, j), mark |-> Mark(m[j])]]
  BY <1>4 DEF DeadlinesOf
<1>9. ShiftLeft(DeadlinesOf(l), i) =
        [j \in 1..Len(l) - 1 |-> IF j < i THEN DeadlinesOf(l)[j] ELSE DeadlinesOf(l)[j + 1]]
  <2>1. Len(DeadlinesOf(l)) = Len(l)
    BY DEF DeadlinesOf
  <2>2. QED
    BY <2>1 DEF ShiftLeft
<1>10. QED
  BY <1>7, <1>8, <1>9, Zenon

LEMMA RemoveNoneDue ==
  ASSUME NEW l \in Seq(Entries), NEW i \in 1..Len(l), NEW m, Removed(m, l, i), NoneDue(l)
  PROVE  NoneDue(m)
<1> SUFFICES ASSUME m # <<>> PROVE m[1].ticks > 0
  BY DEF NoneDue
<1>1. Len(m) > 0 /\ Len(m) = Len(l) - 1
  BY DEF Removed
<1>2. 1 \in 1..Len(l) /\ 2 \in 1..Len(l) /\ l[1].ticks > 0 /\ l[1] \in Entries /\ l[2] \in Entries
  BY <1>1 DEF NoneDue
<1>3. CASE i = 1
  <2>1. m[1] = [l[2] EXCEPT !.ticks = l[2].ticks + l[1].ticks]
    BY <1>1, <1>3 DEF Removed
  <2>2. l[1].ticks \in Nat /\ l[2].ticks \in Nat /\ m[1].ticks = l[2].ticks + l[1].ticks
    BY <1>2, <2>1 DEF Entries
  <2>3. QED
    BY <1>2, <2>2
<1>4. CASE i # 1
  <2>1. 1 \in 1..i - 1
    BY <1>4
  <2>2. QED
    BY <1>2, <2>1 DEF Removed
<1>5. QED
  BY <1>3, <1>4

\* A tick of the clock decrements the first entry, and with it every deadline.
LEMMA CountDownEntries ==
  ASSUME NEW l \in Seq(Entries), l # <<>>, NoneDue(l)
  PROVE  /\ CountDown(l) \in Seq(Entries) /\ Len(CountDown(l)) = Len(l)
         /\ CountDown(l)[1] = [l[1] EXCEPT !.ticks = l[1].ticks - 1]
         /\ \A j \in 2..Len(l) : CountDown(l)[j] = l[j]
<1>1. 1 \in 1..Len(l) /\ l[1] \in Entries
  OBVIOUS
<1>2. l[1].ticks - 1 \in Nat
  <2>1. l[1].ticks \in Nat
    BY <1>1 DEF Entries
  <2>2. QED
    BY <2>1 DEF NoneDue
<1>3. [l[1] EXCEPT !.ticks = l[1].ticks - 1] \in Entries
  BY <1>1, <1>2 DEF Entries
<1>4. PICK x \in Entries : x = [l[1] EXCEPT !.ticks = l[1].ticks - 1]
  BY <1>3
<1>5. CountDown(l) = [l EXCEPT ![1] = x]
  BY <1>1, <1>4 DEF CountDown
<1>6. QED
  BY <1>1, <1>4, <1>5

LEMMA CountDownDeadlines ==
  ASSUME NEW l \in Seq(Entries), l # <<>>, NoneDue(l)
  PROVE  /\ \A j \in 1..Len(l) : Due(l, j) > 0
         /\ DeadlinesOf(CountDown(l)) =
              [j \in 1..Len(l) |-> [DeadlinesOf(l)[j] EXCEPT !.left = @ - 1]]
<1>1. PICK m \in Seq(Entries) :
        /\ m = CountDown(l) /\ Len(m) = Len(l)
        /\ m[1] = [l[1] EXCEPT !.ticks = l[1].ticks - 1]
        /\ \A j \in 2..Len(l) : m[j] = l[j]
  BY CountDownEntries
<1>2. ASSUME NEW j \in 1..Len(l)
      PROVE  /\ Due(l, j) = Due(l, j - 1) + l[j].ticks
             /\ Due(l, j) \in Nat /\ Due(l, j - 1) \in Nat /\ l[j].ticks \in Nat
  <2>1. j \in 0..Len(l) /\ j - 1 \in 0..Len(l) /\ l[j] \in Entries
    OBVIOUS
  <2>2. QED
    BY <2>1, DueSteps DEF Entries
<1>3. 1 \in 1..Len(l) /\ l[1] \in Entries /\ l[1].ticks > 0
  BY DEF NoneDue
<1>4. Due(l, 1) = l[1].ticks
  <2>1. Due(l, 1) = Due(l, 1 - 1) + l[1].ticks /\ Due(l, 1 - 1) = 0 /\ l[1].ticks \in Nat
    BY <1>2, <1>3, DueSteps
  <2>2. QED
    BY <2>1
<1>5. \A j \in 1..Len(l) : Due(l, j) > 0
  <2>1. \A j \in 1..Len(l) : Due(l, 1) <= Due(l, j)
    <3>1. \A j \in 1..Len(l) : 1 \in 0..Len(l) /\ j \in 0..Len(l) /\ 1 <= j
      BY <1>3
    <3>2. QED
      BY <3>1, DueGrows
  <2>2. QED
    BY <1>2, <1>3, <1>4, <2>1
<1>6. PICK f : f[0] = 0 /\ \A j \in 1..Len(l) : f[j] = Due(l, j) - 1
  <2> DEFINE f == [j \in 0..Len(l) |-> IF j = 0 THEN 0 ELSE Due(l, j) - 1]
  <2>1. f[0] = 0 /\ \A j \in 1..Len(l) : f[j] = Due(l, j) - 1
    OBVIOUS
  <2> HIDE DEF f
  <2>2. QED
    BY <2>1
<1>7. IsDue(m, f)
  <2>1. ASSUME NEW j \in 1..Len(l) PROVE f[j] = f[j - 1] + m[j].ticks
    <3>1. CASE j = 1
      <4>1. m[1].ticks = l[1].ticks - 1
        BY <1>1, <1>3 DEF Entries
      <4>2. f[1] = Due(l, 1) - 1 /\ f[1 - 1] = 0 /\ l[1].ticks \in Nat
        BY <1>2, <1>3, <1>6
      <4>3. QED
        BY <1>4, <3>1, <4>1, <4>2
    <3>2. CASE j # 1
      <4>1. j \in 2..Len(l) /\ j - 1 \in 1..Len(l)
        BY <3>2
      <4>2. m[j] = l[j] /\ f[j] = Due(l, j) - 1 /\ f[j - 1] = Due(l, j - 1) - 1
        BY <1>1, <1>6, <4>1
      <4>3. QED
        BY SMTT(40), <1>2, <4>2
    <3>3. QED
      BY <3>1, <3>2
  <2>2. QED
    BY <1>1, <1>6, <2>1 DEF IsDue
<1>8. \A j \in 1..Len(l) : Due(m, j) = Due(l, j) - 1
  <2>1. \A j \in 1..Len(l) : j \in 0..Len(m)
    BY <1>1
  <2>2. QED
    BY <1>1, <1>6, <1>7, <2>1, DueIs
<1>9. \A j \in 1..Len(l) : Mark(m[j]) = Mark(l[j])
  <2> SUFFICES ASSUME NEW j \in 1..Len(l) PROVE Mark(m[j]) = Mark(l[j])
    OBVIOUS
  <2>1. CASE j = 1
    <3>1. m[1].event = l[1].event /\ m[1].arg = l[1].arg
      BY <1>1, <1>3 DEF Entries
    <3>2. QED
      BY <2>1, <3>1 DEF Mark
  <2>2. CASE j # 1
    <3>1. j \in 2..Len(l)
      BY <2>2
    <3>2. m[j] = l[j]
      BY <1>1, <3>1
    <3>3. QED
      BY <3>2
  <2>3. QED
    BY <2>1, <2>2
<1>10. ASSUME NEW j \in 1..Len(l)
       PROVE  [left |-> Due(m, j), mark |-> Mark(m[j])] = [DeadlinesOf(l)[j] EXCEPT !.left = @ - 1]
  <2>1. DeadlinesOf(l)[j] = [left |-> Due(l, j), mark |-> Mark(l[j])]
    BY DEF DeadlinesOf
  <2>2. [DeadlinesOf(l)[j] EXCEPT !.left = @ - 1] = [left |-> Due(l, j) - 1, mark |-> Mark(l[j])]
    BY <2>1
  <2>3. QED
    BY <1>8, <1>9, <2>2
<1>11. DeadlinesOf(m) = [j \in 1..Len(l) |-> [left |-> Due(m, j), mark |-> Mark(m[j])]]
  BY <1>1 DEF DeadlinesOf
<1>12. DeadlinesOf(m) = [j \in 1..Len(l) |-> [DeadlinesOf(l)[j] EXCEPT !.left = @ - 1]]
  BY <1>10, <1>11, Zenon
<1>13. QED
  BY <1>1, <1>5, <1>12

LEMMA TailEntries ==
  ASSUME NEW S, NEW s \in Seq(S), s # <<>>
  PROVE  /\ Tail(s) \in Seq(S) /\ Len(Tail(s)) = Len(s) - 1
         /\ \A j \in 1..Len(s) - 1 : Tail(s)[j] = s[j + 1]
         /\ Tail(s) = [j \in 1..Len(s) - 1 |-> s[j + 1]]
<1>1. Tail(s) \in Seq(S) /\ Len(Tail(s)) = Len(s) - 1
  OBVIOUS
<1>2. \A j \in 1..Len(s) - 1 : Tail(s)[j] = s[j + 1]
  OBVIOUS
<1>3. Tail(s) = [j \in 1..Len(s) - 1 |-> s[j + 1]]
  <2>1. PICK r \in Seq(S) : r = Tail(s) /\ Len(r) = Len(s) - 1
    BY <1>1
  <2>2. r = [j \in 1..Len(r) |-> r[j]]
    OBVIOUS
  <2>3. QED
    BY <1>2, <2>1, <2>2
<1>4. QED
  BY <1>1, <1>2, <1>3

\* The first alarm goes off and leaves the array.
LEMMA TailDeadlines ==
  ASSUME NEW l \in Seq(Entries), l # <<>>, l[1].ticks = 0
  PROVE  /\ Tail(l) \in Seq(Entries)
         /\ DeadlinesOf(Tail(l)) = Tail(DeadlinesOf(l))
         /\ Due(l, 1) = 0
<1>1. PICK m \in Seq(Entries) :
        m = Tail(l) /\ Len(m) = Len(l) - 1 /\ \A j \in 1..Len(l) - 1 : m[j] = l[j + 1]
  BY ZenonT(40), TailEntries
<1>2. ASSUME NEW j \in 1..Len(l)
      PROVE  /\ Due(l, j) = Due(l, j - 1) + l[j].ticks
             /\ Due(l, j) \in Nat
  <2>1. j \in 0..Len(l)
    OBVIOUS
  <2>2. QED
    BY <2>1, DueSteps
<1>3. Due(l, 1) = 0
  <2>1. 1 \in 1..Len(l) /\ Due(l, 1 - 1) = 0
    BY DueSteps
  <2>2. QED
    BY <1>2, <2>1
<1>4. PICK f : \A j \in 0..Len(l) - 1 : f[j] = Due(l, j + 1)
  <2> DEFINE f == [j \in 0..Len(l) - 1 |-> Due(l, j + 1)]
  <2>1. \A j \in 0..Len(l) - 1 : f[j] = Due(l, j + 1)
    OBVIOUS
  <2> HIDE DEF f
  <2>2. QED
    BY <2>1
<1>5. IsDue(m, f)
  <2>1. f[0] = 0
    BY <1>3, <1>4
  <2>2. ASSUME NEW j \in 1..Len(l) - 1 PROVE f[j] = f[j - 1] + m[j].ticks
    <3>1. /\ j \in 0..Len(l) - 1 /\ j - 1 \in 0..Len(l) - 1 /\ j + 1 \in 1..Len(l)
          /\ (j + 1) - 1 = j /\ (j - 1) + 1 = j
      OBVIOUS
    <3>2. f[j] = Due(l, j + 1) /\ f[j - 1] = Due(l, j) /\ m[j] = l[j + 1]
      BY <1>1, <1>4, <3>1
    <3>3. Due(l, j + 1) = Due(l, (j + 1) - 1) + l[j + 1].ticks
      BY <1>2, <3>1
    <3>4. QED
      BY <3>1, <3>2, <3>3
  <2>3. QED
    BY <1>1, <2>1, <2>2 DEF IsDue
<1>6. \A j \in 1..Len(l) - 1 : Due(m, j) = Due(l, j + 1)
  <2>1. \A j \in 1..Len(l) - 1 : j \in 0..Len(m) /\ j \in 0..Len(l) - 1
    BY <1>1
  <2>2. QED
    BY <1>1, <1>4, <1>5, <2>1, DueIs
<1>7. ASSUME NEW j \in 1..Len(l) - 1
      PROVE  [left |-> Due(m, j), mark |-> Mark(m[j])] = DeadlinesOf(l)[j + 1]
  <2>1. j + 1 \in 1..Len(l)
    OBVIOUS
  <2>2. DeadlinesOf(l)[j + 1] = [left |-> Due(l, j + 1), mark |-> Mark(l[j + 1])]
    BY <2>1 DEF DeadlinesOf
  <2>3. QED
    BY <1>1, <1>6, <2>2
<1>8. DeadlinesOf(m) = [j \in 1..Len(l) - 1 |-> [left |-> Due(m, j), mark |-> Mark(m[j])]]
  BY <1>1 DEF DeadlinesOf
<1>9. Tail(DeadlinesOf(l)) = [j \in 1..Len(l) - 1 |-> DeadlinesOf(l)[j + 1]]
  <2>1. PICK n \in Nat : n = Len(l) /\ n > 0
    OBVIOUS
  <2>2. PICK s \in Seq(D!Alarms) : s = DeadlinesOf(l) /\ Len(s) = n
    BY <2>1, DeadlinesType
  <2>3. s # <<>>
    BY <2>1, <2>2
  <2>4. Tail(s) = [j \in 1..Len(s) - 1 |-> s[j + 1]]
    BY <2>3, TailEntries
  <2>5. QED
    BY <2>1, <2>2, <2>4
<1>10. DeadlinesOf(m) = Tail(DeadlinesOf(l))
  BY <1>7, <1>8, <1>9, Zenon
<1>11. QED
  BY <1>1, <1>3, <1>10

-----------------------------------------------------------------------------
(***************************************************************************)
(* Cancelling: eventRemove takes out the alarms of the event, one by one.  *)
(***************************************************************************)

\* What is kept of the first i deadlines.
Keeps(a, group, k) ==
  /\ k[0] = <<>>
  /\ \A i \in 1..Len(a) :
       k[i] = IF a[i].mark \in group THEN k[i - 1] ELSE Append(k[i - 1], a[i])

LEMMA KeptExists ==
  ASSUME NEW S, NEW a \in Seq(S), NEW group
  PROVE  \E k \in Values(Len(a), Seq(S)) : Keeps(a, group, k)
<1>1. PICK n \in Nat : n = Len(a)
  OBVIOUS
<1>2. \A j \in 1..n : a[j] \in S
  BY <1>1
<1>3. PICK step \in Steps(n, Seq(S)) :
        \A j \in 1..n, v \in Seq(S) : step[j][v] = IF a[j].mark \in group THEN v ELSE Append(v, a[j])
  <2> DEFINE step == [j \in 1..n |-> [v \in Seq(S) |->
                        IF a[j].mark \in group THEN v ELSE Append(v, a[j])]]
  <2>1. \A j \in 1..n, v \in Seq(S) : Append(v, a[j]) \in Seq(S)
    BY <1>2
  <2>2. step \in Steps(n, Seq(S))
    BY <2>1 DEF Steps
  <2>3. \A j \in 1..n, v \in Seq(S) : step[j][v] = IF a[j].mark \in group THEN v ELSE Append(v, a[j])
    OBVIOUS
  <2> HIDE DEF step
  <2>4. QED
    BY <2>2, <2>3
<1>4. <<>> \in Seq(S)
  OBVIOUS
<1>5. PICK k \in Values(n, Seq(S)) : Follows(k, n, <<>>, step)
  BY <1>4, Recursion
<1>6. ASSUME NEW i \in 1..n
      PROVE  k[i] = IF a[i].mark \in group THEN k[i - 1] ELSE Append(k[i - 1], a[i])
  <2>1. k[i - 1] \in Seq(S)
    BY DEF Values
  <2>2. k[i] = step[i][k[i - 1]]
    BY <1>5 DEF Follows
  <2>3. QED
    BY <1>3, <2>1, <2>2
<1>7. Keeps(a, group, k)
  BY <1>1, <1>5, <1>6 DEF Keeps, Follows
<1>8. QED
  BY <1>1, <1>7

LEMMA WithoutIs ==
  ASSUME NEW S, NEW a \in Seq(S), NEW group, NEW k, Keeps(a, group, k)
  PROVE  D!Without(a, group) = k[Len(a)]
<1>1. PICK n \in Nat : n = Len(a)
  OBVIOUS
<1> DEFINE IsKept(g) == g = [i \in 0..n |-> IF i = 0 THEN <<>>
                                            ELSE IF a[i].mark \in group THEN g[i - 1]
                                            ELSE Append(g[i - 1], a[i])]
           kept == CHOOSE g : IsKept(g)
<1>2. \E g : IsKept(g)
  <2>1. PICK g \in Values(n, Seq(S)) : Keeps(a, group, g)
    BY <1>1, KeptExists
  <2>2. g = [i \in 0..n |-> g[i]]
    BY DEF Values
  <2>3. \A i \in 0..n : g[i] = IF i = 0 THEN <<>>
                               ELSE IF a[i].mark \in group THEN g[i - 1]
                               ELSE Append(g[i - 1], a[i])
    BY <1>1, <2>1 DEF Keeps
  <2>4. IsKept(g)
    BY <2>2, <2>3
  <2>5. QED
    BY <2>4
<1>3. IsKept(kept)
  BY <1>2
<1>4. D!Without(a, group) = kept[n]
  BY <1>1 DEF D!Without
<1> HIDE DEF kept
<1>5. Alike(kept, k, n)
  <2>1. \A i \in 0..n : kept[i] = IF i = 0 THEN <<>>
                                  ELSE IF a[i].mark \in group THEN kept[i - 1]
                                  ELSE Append(kept[i - 1], a[i])
    BY <1>3
  <2>2. \A i \in 1..n : kept[i] = IF a[i].mark \in group THEN kept[i - 1]
                                  ELSE Append(kept[i - 1], a[i])
    BY <2>1
  <2>3. QED
    BY <1>1, <2>1, <2>2 DEF Alike, Keeps
<1>6. Agree(kept, k, n)
  BY <1>5, SameFunction
<1>7. QED
  BY <1>1, <1>4, <1>6 DEF Agree

\* Taking out an alarm of the group leaves what is without the group.
LEMMA WithoutShift ==
  ASSUME NEW S, NEW a \in Seq(S), NEW group, NEW i \in 1..Len(a), a[i].mark \in group
  PROVE  D!Without(ShiftLeft(a, i), group) = D!Without(a, group)
<1>1. PICK n \in Nat : n = Len(a) /\ i \in 1..n
  OBVIOUS
<1>2. PICK b \in Seq(S) :
        /\ b = ShiftLeft(a, i) /\ Len(b) = n - 1
        /\ \A j \in 1..n - 1 : b[j] = IF j < i THEN a[j] ELSE a[j + 1]
  <2>1. ShiftLeft(a, i) = [j \in 1..n - 1 |-> IF j < i THEN a[j] ELSE a[j + 1]]
    BY <1>1 DEF ShiftLeft
  <2>2. \A j \in 1..n - 1 : a[j] \in S /\ a[j + 1] \in S
    BY <1>1
  <2>3. QED
    BY <1>1, <2>1, <2>2
<1>3. PICK k : Keeps(a, group, k)
  BY KeptExists
<1>4. PICK f : \A j \in 0..n - 1 : f[j] = IF j < i THEN k[j] ELSE k[j + 1]
  <2> DEFINE f == [j \in 0..n - 1 |-> IF j < i THEN k[j] ELSE k[j + 1]]
  <2>1. \A j \in 0..n - 1 : f[j] = IF j < i THEN k[j] ELSE k[j + 1]
    OBVIOUS
  <2> HIDE DEF f
  <2>2. QED
    BY <2>1
<1>5. Keeps(b, group, f)
  <2>1. f[0] = <<>>
    BY <1>1, <1>3, <1>4 DEF Keeps
  <2>2. ASSUME NEW j \in 1..n - 1
        PROVE  f[j] = IF b[j].mark \in group THEN f[j - 1] ELSE Append(f[j - 1], b[j])
    <3>1. /\ j \in 0..n - 1 /\ j - 1 \in 0..n - 1 /\ j \in 1..n /\ j + 1 \in 1..n
          /\ (j + 1) - 1 = j /\ (j - 1) + 1 = j
      BY <1>1
    <3>2. CASE j < i
      <4>1. f[j] = k[j] /\ f[j - 1] = k[j - 1] /\ b[j] = a[j]
        BY <1>1, <1>2, <1>4, <3>1, <3>2
      <4>2. k[j] = IF a[j].mark \in group THEN k[j - 1] ELSE Append(k[j - 1], a[j])
        BY <1>1, <1>3, <3>1 DEF Keeps
      <4>3. QED
        BY <4>1, <4>2
    <3>3. CASE ~(j < i)
      <4>1. f[j] = k[j + 1] /\ b[j] = a[j + 1]
        BY <1>1, <1>2, <1>4, <3>1, <3>3
      <4>2. f[j - 1] = k[j]
        <5>1. CASE j = i
          <6>1. f[j - 1] = k[j - 1]
            BY <1>1, <1>4, <3>1, <5>1
          <6>2. k[j] = k[j - 1]
            BY <1>1, <1>3, <3>1, <5>1 DEF Keeps
          <6>3. QED
            BY <6>1, <6>2
        <5>2. CASE j # i
          <6>1. ~(j - 1 < i)
            BY <1>1, <3>3, <5>2
          <6>2. QED
            BY <1>4, <3>1, <6>1
        <5>3. QED
          BY <5>1, <5>2
      <4>3. k[j + 1] = IF a[j + 1].mark \in group THEN k[(j + 1) - 1]
                       ELSE Append(k[(j + 1) - 1], a[j + 1])
        BY <1>1, <1>3, <3>1 DEF Keeps
      <4>4. QED
        BY <3>1, <4>1, <4>2, <4>3
    <3>4. QED
      BY <3>2, <3>3
  <2>3. QED
    BY <1>2, <2>1, <2>2 DEF Keeps
<1>6. D!Without(b, group) = f[n - 1]
  BY <1>2, <1>5, WithoutIs
<1>7. D!Without(a, group) = k[n]
  BY <1>1, <1>3, WithoutIs
<1>8. f[n - 1] = k[n]
  <2>1. n - 1 \in 0..n - 1 /\ (n - 1) + 1 = n /\ n \in 1..n
    BY <1>1
  <2>2. CASE i = n
    <3>1. f[n - 1] = k[n - 1]
      BY <1>4, <2>1, <2>2
    <3>2. k[n] = k[n - 1]
      BY <1>1, <1>3, <2>1, <2>2 DEF Keeps
    <3>3. QED
      BY <3>1, <3>2
  <2>3. CASE i # n
    <3>1. ~(n - 1 < i)
      BY <1>1, <2>3
    <3>2. QED
      BY <1>4, <2>1, <3>1
  <2>4. QED
    BY <2>2, <2>3
<1>9. QED
  BY <1>2, <1>6, <1>7, <1>8

\* A list that has none is what it is without them.
LEMMA WithoutNone ==
  ASSUME NEW S, NEW a \in Seq(S), NEW group, \A i \in 1..Len(a) : a[i].mark \notin group
  PROVE  D!Without(a, group) = a
<1>1. PICK n \in Nat : n = Len(a)
  OBVIOUS
<1>2. PICK k : \A i \in 0..n : k[i] = [j \in 1..i |-> a[j]]
  <2> DEFINE k == [i \in 0..n |-> [j \in 1..i |-> a[j]]]
  <2>1. \A i \in 0..n : k[i] = [j \in 1..i |-> a[j]]
    OBVIOUS
  <2> HIDE DEF k
  <2>2. QED
    BY <2>1
<1>3. Keeps(a, group, k)
  <2>1. k[0] = <<>>
    <3>1. 0 \in 0..n
      OBVIOUS
    <3>2. k[0] = [j \in 1..0 |-> a[j]]
      BY <1>2, <3>1, Zenon
    <3>3. QED
      BY <3>2
  <2>2. ASSUME NEW i \in 1..n PROVE k[i] = Append(k[i - 1], a[i])
    <3>1. i \in 0..n /\ i - 1 \in 0..n /\ a[i] \in S
      BY <1>1
    <3>2. PICK s \in Seq(S) : s = k[i - 1] /\ Len(s) = i - 1 /\ \A j \in 1..i - 1 : s[j] = a[j]
      <4>1. k[i - 1] = [j \in 1..i - 1 |-> a[j]]
        BY <1>2, <3>1
      <4>2. \A j \in 1..i - 1 : a[j] \in S
        BY <1>1
      <4>3. QED
        BY <3>1, <4>1, <4>2
    <3>3. PICK r \in Seq(S) : r = k[i] /\ Len(r) = i /\ \A j \in 1..i : r[j] = a[j]
      <4>1. k[i] = [j \in 1..i |-> a[j]]
        BY <1>2, <3>1
      <4>2. \A j \in 1..i : a[j] \in S
        BY <1>1
      <4>3. QED
        BY <3>1, <4>1, <4>2
    <3>4. Append(s, a[i]) = r
      <4>1. /\ Append(s, a[i]) \in Seq(S) /\ Len(Append(s, a[i])) = i
            /\ \A j \in 1..i : Append(s, a[i])[j] = a[j]
        BY <3>1, <3>2
      <4>2. QED
        BY <3>3, <4>1
    <3>5. QED
      BY <3>2, <3>3, <3>4
  <2>3. QED
    BY <1>1, <2>1, <2>2 DEF Keeps
<1>4. D!Without(a, group) = k[n]
  BY <1>1, <1>3, WithoutIs
<1>5. k[n] = [j \in 1..n |-> a[j]]
  <2>1. n \in 0..n
    OBVIOUS
  <2>2. QED
    BY <1>2, <2>1, Zenon
<1>6. QED
  BY <1>1, <1>4, <1>5

\* One removal of eventRemove.
RemoveOne(v, ev) ==
  IF \E i \in 1..Len(v) : v[i].event = ev THEN RemoveAlarm(v, FirstOf(v, ev)) ELSE v

LEMMA FirstOfIs ==
  ASSUME NEW l \in Seq(Entries), NEW ev, \E i \in 1..Len(l) : l[i].event = ev
  PROVE  FirstOf(l, ev) \in 1..Len(l) /\ l[FirstOf(l, ev)].event = ev
<1> DEFINE T == { i \in 1..Len(l) : l[i].event = ev }
<1>1. T \subseteq Nat /\ T # {}
  OBVIOUS
<1> HIDE DEF T
<1>2. PICK i \in T : \A j \in T : i <= j
  BY <1>1, SmallestNat
<1> USE DEF T
<1>3. \A j \in 1..i - 1 : l[j].event # ev
  <2> SUFFICES ASSUME NEW j \in 1..i - 1, l[j].event = ev PROVE FALSE
    OBVIOUS
  <2>1. j \in T /\ j < i
    BY <1>2
  <2>2. QED
    BY <1>2, <2>1
<1>4. \E k \in 1..Len(l) : l[k].event = ev /\ \A j \in 1..k - 1 : l[j].event # ev
  BY <1>2, <1>3
<1>5. QED
  BY <1>4 DEF FirstOf

\* It takes out one alarm of the group, if there is one left.
LEMMA RemoveOneCancels ==
  ASSUME NEW v \in Seq(Entries), NEW ev, NEW group,
         \A e \in Entries : Mark(e) \in group <=> e.event = ev
  PROVE  LET r == RemoveOne(v, ev)
         IN  /\ r \in Seq(Entries)
             /\ D!Without(DeadlinesOf(r), group) = D!Without(DeadlinesOf(v), group)
             /\ NoneDue(v) => NoneDue(r)
             /\ \/ r = v /\ \A i \in 1..Len(v) : v[i].event # ev
                \/ Len(r) = Len(v) - 1
<1>1. CASE \A i \in 1..Len(v) : v[i].event # ev
  BY <1>1 DEF RemoveOne
<1>2. CASE \E i \in 1..Len(v) : v[i].event = ev
  <2>1. PICK i \in 1..Len(v) : i = FirstOf(v, ev) /\ v[i].event = ev
    BY <1>2, FirstOfIs
  <2>2. PICK r : r = RemoveOne(v, ev) /\ r = RemoveAlarm(v, i)
    BY <1>2, <2>1 DEF RemoveOne
  <2>3. Removed(r, v, i)
    BY <2>2, RemovedEntries
  <2>4. r \in Seq(Entries) /\ Len(r) = Len(v) - 1
    BY <2>3 DEF Removed
  <2>5. DeadlinesOf(r) = ShiftLeft(DeadlinesOf(v), i)
    BY <2>3, RemoveShifts
  <2>6. DeadlinesOf(v) \in Seq(D!Alarms) /\ i \in 1..Len(DeadlinesOf(v))
    BY DeadlinesType
  <2>7. DeadlinesOf(v)[i].mark \in group
    <3>1. v[i] \in Entries /\ Mark(v[i]) \in group
      BY <2>1
    <3>2. DeadlinesOf(v)[i].mark = Mark(v[i])
      BY DEF DeadlinesOf
    <3>3. QED
      BY <3>1, <3>2
  <2>8. D!Without(DeadlinesOf(r), group) = D!Without(DeadlinesOf(v), group)
    BY <2>5, <2>6, <2>7, WithoutShift
  <2>9. NoneDue(v) => NoneDue(r)
    BY <2>3, RemoveNoneDue
  <2>10. QED
    BY <2>2, <2>4, <2>8, <2>9
<1>3. QED
  BY <1>1, <1>2

\* What is left of an array after eventRemove.
EventRemoved(r, l, ev, group) ==
  /\ r \in Seq(Entries)
  /\ \A i \in 1..Len(r) : r[i].event # ev
  /\ DeadlinesOf(r) = D!Without(DeadlinesOf(l), group)
  /\ NoneDue(l) => NoneDue(r)

LEMMA RemoveEventCancels ==
  ASSUME NEW l \in Seq(Entries), NEW ev, NEW group,
         \A e \in Entries : Mark(e) \in group <=> e.event = ev
  PROVE  EventRemoved(RemoveEvent(l, ev), l, ev, group)
<1>1. PICK n \in Nat : n = Len(l)
  OBVIOUS
<1> DEFINE Partly(r, k) ==
             /\ r \in Seq(Entries)
             /\ D!Without(DeadlinesOf(r), group) = D!Without(DeadlinesOf(l), group)
             /\ NoneDue(l) => NoneDue(r)
             /\ (\A i \in 1..Len(r) : r[i].event # ev) \/ Len(r) = n - k
<1>2. PICK step \in Steps(n, Seq(Entries)) :
        \A j \in 1..n, v \in Seq(Entries) : step[j][v] = RemoveOne(v, ev)
  <2> DEFINE step == [j \in 1..n |-> [v \in Seq(Entries) |-> RemoveOne(v, ev)]]
  <2>1. \A v \in Seq(Entries) : RemoveOne(v, ev) \in Seq(Entries)
    BY RemoveOneCancels
  <2>2. step \in Steps(n, Seq(Entries))
    BY <2>1 DEF Steps
  <2>3. \A j \in 1..n, v \in Seq(Entries) : step[j][v] = RemoveOne(v, ev)
    OBVIOUS
  <2> HIDE DEF step
  <2>4. QED
    BY <2>2, <2>3
<1>3. PICK f \in Values(n, Seq(Entries)) : Follows(f, n, l, step)
  BY Recursion
<1>4. ASSUME NEW j \in 1..n PROVE f[j] = RemoveOne(f[j - 1], ev)
  <2>1. f[j - 1] \in Seq(Entries)
    BY DEF Values
  <2>2. f[j] = step[j][f[j - 1]]
    BY <1>3 DEF Follows
  <2>3. QED
    BY <1>2, <2>1, <2>2
<1> DEFINE Next1(g, j) == IF \E i \in 1..Len(g[j - 1]) : g[j - 1][i].event = ev
                          THEN RemoveAlarm(g[j - 1], FirstOf(g[j - 1], ev)) ELSE g[j - 1]
           IsAfter(g) == g = [j \in 0..n |-> IF j = 0 THEN l ELSE Next1(g, j)]
           after == CHOOSE g : IsAfter(g)
<1>5. \E g : IsAfter(g)
  <2>1. f = [j \in 0..n |-> f[j]]
    BY DEF Values
  <2>2. \A j \in 0..n : f[j] = IF j = 0 THEN l ELSE Next1(f, j)
    BY <1>3, <1>4 DEF RemoveOne, Follows
  <2> HIDE DEF Next1
  <2>3. IsAfter(f)
    BY <2>1, <2>2
  <2>4. QED
    BY <2>3
<1>6. RemoveEvent(l, ev) = after[n]
  BY <1>1 DEF RemoveEvent
<1>7. after[0] = l /\ \A j \in 1..n : after[j] = RemoveOne(after[j - 1], ev)
  <2>1. IsAfter(after)
    BY <1>5
  <2> HIDE DEF after
  <2>2. after[0] = l /\ \A j \in 1..n : after[j] = Next1(after, j)
    <3> HIDE DEF Next1
    <3>1. \A j \in 0..n : after[j] = IF j = 0 THEN l ELSE Next1(after, j)
      BY <2>1
    <3>2. QED
      BY <3>1
  <2>3. QED
    BY <2>2 DEF RemoveOne
<1> HIDE DEF after
<1>8. ASSUME NEW r, NEW k \in 1..n, Partly(r, k - 1) PROVE Partly(RemoveOne(r, ev), k)
  <2>1. PICK q : q = RemoveOne(r, ev)
    OBVIOUS
  <2>2. /\ q \in Seq(Entries)
        /\ D!Without(DeadlinesOf(q), group) = D!Without(DeadlinesOf(r), group)
        /\ NoneDue(r) => NoneDue(q)
        /\ \/ q = r /\ \A i \in 1..Len(r) : r[i].event # ev
           \/ Len(q) = Len(r) - 1
    BY <1>8, <2>1, RemoveOneCancels
  <2>3. CASE q = r /\ \A i \in 1..Len(r) : r[i].event # ev
    BY <1>8, <2>1, <2>2, <2>3
  <2>4. CASE Len(q) = Len(r) - 1 /\ \E i \in 1..Len(r) : r[i].event = ev
    <3>1. Len(r) = n - (k - 1)
      BY <1>8, <2>4
    <3>2. Len(q) = n - k
      BY <2>4, <3>1
    <3>3. QED
      BY <1>8, <2>1, <2>2, <3>2
  <2>5. CASE \A i \in 1..Len(r) : r[i].event # ev
    <3>1. q = r
      BY <2>1, <2>5 DEF RemoveOne
    <3>2. QED
      BY <1>8, <2>1, <2>5, <3>1
  <2>6. QED
    BY <2>2, <2>3, <2>4, <2>5
<1> DEFINE S == { k \in Nat : k <= n => Partly(after[k], k) }
<1>9. 0 \in S
  BY <1>1, <1>7
<1>10. ASSUME NEW k \in Nat, k \in S PROVE k + 1 \in S
  <2> SUFFICES ASSUME k + 1 <= n PROVE Partly(after[k + 1], k + 1)
    OBVIOUS
  <2>1. k + 1 \in 1..n /\ (k + 1) - 1 = k
    OBVIOUS
  <2>2. Partly(after[k], k)
    BY <1>10
  <2> HIDE DEF Partly
  <2>3. after[k + 1] = RemoveOne(after[k], ev)
    BY <1>7, <2>1
  <2>4. Partly(after[k], (k + 1) - 1)
    BY <2>1, <2>2
  <2>5. QED
    BY <1>8, <2>1, <2>3, <2>4
<1> HIDE DEF S
<1>11. n \in S
  BY <1>9, <1>10, Induction
<1>12. PICK r : r = RemoveEvent(l, ev) /\ Partly(r, n)
  BY <1>6, <1>11 DEF S
<1>13. \A i \in 1..Len(r) : r[i].event # ev
  <2>1. CASE Len(r) = n - n
    <3>1. Len(r) = 0
      BY <2>1
    <3>2. QED
      BY <3>1
  <2>2. QED
    BY <1>12, <2>1
<1>14. D!Without(DeadlinesOf(r), group) = DeadlinesOf(r)
  <2>1. DeadlinesOf(r) \in Seq(D!Alarms) /\ Len(DeadlinesOf(r)) = Len(r)
    BY <1>12, DeadlinesType
  <2>2. \A i \in 1..Len(r) : DeadlinesOf(r)[i].mark \notin group
    <3> SUFFICES ASSUME NEW i \in 1..Len(r) PROVE DeadlinesOf(r)[i].mark \notin group
      OBVIOUS
    <3>1. DeadlinesOf(r)[i].mark = Mark(r[i])
      BY DEF DeadlinesOf
    <3>2. r[i] \in Entries /\ r[i].event # ev
      BY <1>12, <1>13
    <3>3. QED
      BY <3>1, <3>2
  <2>3. QED
    BY <2>1, <2>2, WithoutNone
<1>15. QED
  BY <1>12, <1>13, <1>14 DEF EventRemoved

-----------------------------------------------------------------------------
(***************************************************************************)
(* The inductive invariant of the alarms: what is in the arrays, that the  *)
(* clock's interrupt fires the alarms that are due before anything else    *)
(* happens, and what the calls in progress will insert.                    *)
(***************************************************************************)

\* The interrupt of clock c is about to fire its first alarm.
Firing(c) == isrPc \in {"expire", "fire"} /\ isrClock = c

ArraysOK ==
  /\ list \in [Clocks -> Seq(Entries)]
  /\ isrClock \in Clocks
  /\ \A c \in Clocks : Firing(c) => list[c] # <<>> /\ list[c][1].ticks = 0
  /\ \A c \in Clocks : ~Firing(c) => NoneDue(list[c])

CallsOK ==
  /\ DOMAIN pc = Threads /\ DOMAIN call = Threads
  /\ \A t \in Threads :
       /\ pc[t] \in {"insert", "perform", "woken"} => t # Idle /\ call[t].clock \in Clocks
       /\ pc[t] \in {"insert", "rearm", "arm"} => call[t].ticks \in Durations
       /\ pc[t] \in {"rearm", "arm"} => call[t].timer \in Timers
  /\ DOMAIN start = Timers /\ DOMAIN periodic = Timers
  /\ \A x \in Timers : periodic[x] => start[x] \in Durations

AlarmInv == ArraysOK /\ CallsOK

\* A thread waits for its own alarm only.
WaitsOK == \A t \in Threads : waiting[t] => t # Idle /\ event[t] = t

BaseInv == AlarmInv /\ StartedInv /\ lock = 0 /\ WaitsOK

\* What every step does to the deadlines.
Refines == D!Next \/ UNCHANGED Deadlines

LEMMA ThreadEntry ==
  ASSUME NEW t \in Threads \ {Idle}
  PROVE  /\ \A e \in Entries : Mark(e) \in {t} <=> e.event = t
         /\ \A n \in Nat : [ticks |-> n, event |-> t, arg |-> "event"] \in Entries
         /\ \A n \in Nat : Mark([ticks |-> n, event |-> t, arg |-> "event"]) = t
         /\ {t} \in Groups /\ t \in UNION Groups
<1>1. t # CustomTimer
  BY TimerAssumption
<1>2. ASSUME NEW e \in Entries PROVE Mark(e) \in {t} <=> e.event = t
  <2>1. CASE e.event = CustomTimer
    <3>1. e.arg \in Timers
      BY <2>1, TimerAssumption DEF Entries
    <3>2. QED
      BY <1>1, <2>1, <3>1, TimerAssumption DEF Mark
  <2>2. CASE e.event # CustomTimer
    BY <2>2 DEF Mark
  <2>3. QED
    BY <2>1, <2>2
<1>3. \A n \in Nat : [ticks |-> n, event |-> t, arg |-> "event"] \in Entries
  BY DEF Entries
<1>4. \A n \in Nat : Mark([ticks |-> n, event |-> t, arg |-> "event"]) = t
  BY <1>1 DEF Mark
<1>5. {t} \in Groups
  BY DEF Groups
<1>6. QED
  BY <1>2, <1>3, <1>4, <1>5

LEMMA TimerEntry ==
  /\ \A e \in Entries : Mark(e) \in Timers <=> e.event = CustomTimer
  /\ \A n \in Nat, x \in Timers : [ticks |-> n, event |-> CustomTimer, arg |-> x] \in Entries
  /\ \A n \in Nat, x \in Timers : Mark([ticks |-> n, event |-> CustomTimer, arg |-> x]) = x
  /\ Timers \in Groups /\ \A x \in Timers : x \in UNION Groups
<1>1. ASSUME NEW e \in Entries PROVE Mark(e) \in Timers <=> e.event = CustomTimer
  <2>1. CASE e.event = CustomTimer
    <3>1. e.arg \in Timers
      BY <2>1, TimerAssumption DEF Entries
    <3>2. QED
      BY <2>1, <3>1 DEF Mark
  <2>2. CASE e.event # CustomTimer
    <3>1. e.event \in Threads
      BY <2>2 DEF Entries
    <3>2. QED
      BY <2>2, <3>1, TimerAssumption DEF Mark
  <2>3. QED
    BY <2>1, <2>2
<1>2. \A n \in Nat, x \in Timers : [ticks |-> n, event |-> CustomTimer, arg |-> x] \in Entries
  BY DEF Entries
<1>3. \A n \in Nat, x \in Timers : Mark([ticks |-> n, event |-> CustomTimer, arg |-> x]) = x
  BY DEF Mark
<1>4. Timers \in Groups
  BY DEF Groups
<1>5. QED
  BY <1>1, <1>2, <1>3, <1>4

\* Every array is a list of entries, that of the ticks the deadlines.
LEMMA Arrays ==
  ASSUME ArraysOK
  PROVE  /\ \A c \in Clocks : list[c] \in Seq(Entries)
         /\ Deadlines = DeadlinesOf(list[Ticks])
         /\ Len(Deadlines) = Len(list[Ticks])
         /\ Ticks \in Clocks
<1>1. list[Ticks] \in Seq(Entries) /\ Ticks \in Clocks
  BY TimerAssumption DEF ArraysOK
<1>2. Deadlines = DeadlinesOf(list[Ticks])
  BY DEF Deadlines, DeadlinesOf, Mark
<1>3. QED
  BY <1>1, <1>2, DeadlinesType DEF ArraysOK

LEMMA ArrayMoves ==
  ASSUME ArraysOK, NEW c \in Clocks, NEW l \in Seq(Entries), SetList(c, l)
  PROVE  /\ list' \in [Clocks -> Seq(Entries)]
         /\ list'[c] = l /\ \A d \in Clocks : d # c => list'[d] = list[d]
         /\ c = Ticks => Deadlines' = DeadlinesOf(l)
         /\ c # Ticks => UNCHANGED Deadlines
<1>1. /\ list' \in [Clocks -> Seq(Entries)]
      /\ list'[c] = l /\ \A d \in Clocks : d # c => list'[d] = list[d]
  BY DEF ArraysOK, SetList
<1>2. Deadlines' = DeadlinesOf(list'[Ticks])
  BY DEF Deadlines, DeadlinesOf, Mark
<1>3. Deadlines = DeadlinesOf(list[Ticks])
  BY Arrays
<1>4. QED
  BY <1>1, <1>2, <1>3, TimerAssumption

\* A thread's step on one array.
LEMMA ArrayKeeps ==
  ASSUME ArraysOK, NEW c \in Clocks, NEW l \in Seq(Entries), SetList(c, l), NoneDue(l),
         isrPc = "off", UNCHANGED <<isrPc, isrClock>>
  PROVE  ArraysOK'
<1>1. /\ list' \in [Clocks -> Seq(Entries)]
      /\ list'[c] = l /\ \A d \in Clocks : d # c => list'[d] = list[d]
  BY ArrayMoves
<1>2. \A d \in Clocks : ~Firing(d) /\ ~Firing(d)'
  BY DEF Firing
<1>3. \A d \in Clocks : NoneDue(list'[d])
  <2>1. \A d \in Clocks : NoneDue(list[d])
    BY <1>2 DEF ArraysOK
  <2>2. QED
    BY <1>1, <2>1
<1>4. QED
  BY <1>1, <1>2, <1>3 DEF ArraysOK, NoneDue

LEMMA ArraysStutter ==
  ASSUME ArraysOK, UNCHANGED <<list, isrClock>>,
         isrPc' \in {"expire", "fire"} <=> isrPc \in {"expire", "fire"}
  PROVE  ArraysOK' /\ Refines
<1>1. \A c \in Clocks : Firing(c)' <=> Firing(c)
  BY DEF Firing
<1>2. ArraysOK'
  BY <1>1 DEF ArraysOK, NoneDue
<1>3. Deadlines' = Deadlines
  BY DEF Deadlines
<1>4. QED
  BY <1>2, <1>3 DEF Refines

\* A step of a thread that begins nothing.
LEMMA CallsKeep ==
  ASSUME CallsOK, NEW t \in Threads, NEW l, l \notin {"insert", "perform", "woken", "rearm", "arm"},
         pc' = [pc EXCEPT ![t] = l], NEW rec, call' = call \/ Called(t, rec),
         UNCHANGED <<start, periodic>>
  PROVE  CallsOK'
<1>1. DOMAIN pc' = Threads /\ DOMAIN call' = Threads /\ pc'[t] = l
  BY DEF CallsOK, Called
<1>2. \A u \in Threads : u # t => pc'[u] = pc[u] /\ call'[u] = call[u]
  BY DEF CallsOK, Called
<1>3. QED
  BY <1>1, <1>2 DEF CallsOK

LEMMA CallsStutter ==
  ASSUME CallsOK, UNCHANGED <<pc, call, start, periodic>>
  PROVE  CallsOK'
BY DEF CallsOK

-----------------------------------------------------------------------------
(***************************************************************************)
(* Every step keeps the invariant and is a step of the deadlines, or none. *)
(***************************************************************************)

\* eventRemove cancels.
LEMMA CancelRefines ==
  ASSUME ArraysOK, NEW c \in Clocks, NEW ev, NEW group \in Groups,
         \A e \in Entries : Mark(e) \in group <=> e.event = ev,
         SetList(c, RemoveEvent(list[c], ev)),
         isrPc = "off", UNCHANGED <<isrPc, isrClock>>
  PROVE  /\ ArraysOK' /\ Refines
         /\ c = Ticks => Deadlines' = D!Without(Deadlines, group)
         /\ c # Ticks => UNCHANGED Deadlines
<1>1. PICK l : l = RemoveEvent(list[c], ev)
  OBVIOUS
<1>2. EventRemoved(l, list[c], ev, group)
  BY <1>1, Arrays, RemoveEventCancels
<1>3. l \in Seq(Entries) /\ DeadlinesOf(l) = D!Without(DeadlinesOf(list[c]), group)
  BY <1>2 DEF EventRemoved
<1>4. NoneDue(l)
  <2>1. NoneDue(list[c])
    BY DEF ArraysOK, Firing
  <2>2. QED
    BY <1>2, <2>1 DEF EventRemoved
<1>5. ArraysOK'
  BY <1>1, <1>3, <1>4, ArrayKeeps
<1>6. CASE c = Ticks
  <2>1. Deadlines' = D!Without(Deadlines, group)
    BY <1>1, <1>3, <1>6, Arrays, ArrayMoves
  <2>2. D!Cancel(group)
    BY <2>1 DEF D!Cancel
  <2>3. QED
    BY <1>5, <1>6, <2>1, <2>2 DEF Refines, D!Next
<1>7. CASE c # Ticks
  BY <1>1, <1>3, <1>5, <1>7, ArrayMoves DEF Refines
<1>8. QED
  BY <1>6, <1>7

\* The cancellation of a thread removes its alarms from every clock.
LEMMA WithoutAlarmsRefines ==
  ASSUME ArraysOK, WaitsOK, NEW u \in Threads, list' = WithoutAlarms(u), UNCHANGED isrClock,
         isrPc \notin {"expire", "fire"}, isrPc' \notin {"expire", "fire"}
  PROVE  /\ ArraysOK' /\ Refines
         /\ waiting[u] => Deadlines' = D!Without(Deadlines, {u})
         /\ ~waiting[u] => UNCHANGED list
<1>1. CASE ~waiting[u]
  <2>1. UNCHANGED list
    BY <1>1 DEF WithoutAlarms
  <2>2. QED
    BY <1>1, <2>1, ArraysStutter
<1>2. CASE waiting[u]
  <2>1. u \in Threads \ {Idle} /\ list' = [c \in Clocks |-> RemoveEvent(list[c], u)]
    BY <1>2 DEF WaitsOK, WithoutAlarms
  <2>2. {u} \in Groups /\ \A e \in Entries : Mark(e) \in {u} <=> e.event = u
    BY <2>1, ThreadEntry
  <2>3. ASSUME NEW c \in Clocks PROVE EventRemoved(list'[c], list[c], u, {u})
    BY <2>1, <2>2, Arrays, RemoveEventCancels
  <2>4. \A c \in Clocks : NoneDue(list'[c]) /\ list'[c] \in Seq(Entries)
    BY <2>3 DEF EventRemoved, ArraysOK, Firing
  <2>5. ArraysOK'
    <3>1. list' \in [Clocks -> Seq(Entries)]
      BY <2>1, <2>4
    <3>2. QED
      BY <2>4, <3>1 DEF ArraysOK, Firing, NoneDue
  <2>6. Deadlines' = D!Without(Deadlines, {u})
    <3>1. Deadlines' = DeadlinesOf(list'[Ticks])
      BY DEF Deadlines, DeadlinesOf, Mark
    <3>2. QED
      BY <2>3, <3>1, Arrays DEF EventRemoved
  <2>7. D!Cancel({u})
    BY <2>6 DEF D!Cancel
  <2>8. QED
    BY <1>2, <2>2, <2>5, <2>6, <2>7 DEF Refines, D!Next
<1>3. QED
  BY <1>1, <1>2

\* insert sets an alarm.
LEMMA SetRefines ==
  ASSUME ArraysOK, NEW c \in Clocks, NEW n \in Durations, NEW ev, NEW arg, NEW mark \in UNION Groups,
         \A k \in Nat : [ticks |-> k, event |-> ev, arg |-> arg] \in Entries,
         \A k \in Nat : Mark([ticks |-> k, event |-> ev, arg |-> arg]) = mark,
         Len(list[c]) < Size,
         SetList(c, InsertAlarm(list[c], n, ev, arg)),
         isrPc = "off", UNCHANGED <<isrPc, isrClock>>
  PROVE  /\ ArraysOK' /\ Refines
         /\ c = Ticks => Deadlines' = D!Put(Deadlines, [left |-> n, mark |-> mark])
         /\ c # Ticks => UNCHANGED Deadlines
<1>1. PICK l : l = InsertAlarm(list[c], n, ev, arg)
  OBVIOUS
<1>2. n \in Nat /\ n > 0
  BY TimerAssumption
<1>3. [ticks |-> n, event |-> ev, arg |-> arg] \in Entries
      /\ Mark([ticks |-> n, event |-> ev, arg |-> arg]) = mark
  BY <1>2
<1>4. l \in Seq(Entries)
  <2>1. Inserted(l, list[c], Position(list[c], n), n - Due(list[c], Position(list[c], n) - 1), ev, arg)
    BY <1>1, <1>2, <1>3, Arrays, InsertedEntries
  <2>2. QED
    BY <2>1 DEF Inserted
<1>5. DeadlinesOf(l) = D!Put(DeadlinesOf(list[c]), [left |-> n, mark |-> mark])
  BY <1>1, <1>2, <1>3, Arrays, InsertPuts
<1>6. NoneDue(l)
  <2>1. NoneDue(list[c])
    BY DEF ArraysOK, Firing
  <2>2. QED
    BY <1>1, <1>2, <1>3, <2>1, Arrays, InsertNoneDue
<1>7. ArraysOK'
  BY <1>1, <1>4, <1>6, ArrayKeeps
<1>8. CASE c = Ticks
  <2>1. Deadlines' = D!Put(Deadlines, [left |-> n, mark |-> mark])
    BY <1>1, <1>4, <1>5, <1>8, Arrays, ArrayMoves
  <2>2. Len(Deadlines) < Size
    BY <1>8, Arrays
  <2>3. D!Set(n, mark)
    BY <2>1, <2>2 DEF D!Set
  <2>4. mark \in D!Marks
    BY DEF D!Marks
  <2>5. QED
    BY <1>7, <1>8, <2>1, <2>3, <2>4 DEF Refines, D!Next
<1>9. CASE c # Ticks
  BY <1>1, <1>4, <1>7, <1>9, ArrayMoves DEF Refines
<1>10. QED
  BY <1>8, <1>9

LEMMA SleepRefines ==
  ASSUME AlarmInv, NEW t \in Threads \ {Idle}, NEW c \in Clocks, NEW n \in Durations,
         Sleep(t, c, n)
  PROVE  AlarmInv' /\ Refines
<1>1. ArraysOK' /\ Refines
  <2>1. isrPc = "off" /\ SetList(c, RemoveEvent(list[c], t)) /\ UNCHANGED <<isrPc, isrClock>>
    BY DEF Sleep, Free, At, Goto, isrVars
  <2>2. ArraysOK /\ {t} \in Groups
    BY ThreadEntry DEF AlarmInv
  <2>3. \A e \in Entries : Mark(e) \in {t} <=> e.event = t
    BY ThreadEntry
  <2>4. QED
    BY <2>1, <2>2, <2>3, CancelRefines
<1>2. CallsOK'
  <2>1. CallsOK /\ pc' = [pc EXCEPT ![t] = "insert"] /\ UNCHANGED <<start, periodic>>
    BY DEF AlarmInv, Sleep, Goto
  <2>2. call' = [call EXCEPT ![t] = [NoCall EXCEPT !.clock = c, !.ticks = n]]
    BY DEF Sleep, Called
  <2>3. DOMAIN pc' = Threads /\ DOMAIN call' = Threads /\ pc'[t] = "insert"
    BY <2>1, <2>2 DEF CallsOK
  <2>4. call'[t].clock = c /\ call'[t].ticks = n
    BY <2>1, <2>2 DEF CallsOK, NoCall
  <2>5. \A u \in Threads : u # t => pc'[u] = pc[u] /\ call'[u] = call[u]
    BY <2>1, <2>2 DEF CallsOK
  <2>6. QED
    BY <2>1, <2>3, <2>4, <2>5 DEF CallsOK
<1>3. QED
  BY <1>1, <1>2 DEF AlarmInv

LEMMA SleepStepRefines ==
  ASSUME AlarmInv, NEW t \in Threads \ {Idle}, SleepStep(t)
  PROVE  AlarmInv' /\ Refines
<1> USE DEF AlarmInv
<1>1. CASE SleepInsert(t)
  <2>1. PICK c \in Clocks, n \in Durations : c = call[t].clock /\ n = call[t].ticks
    BY <1>1 DEF CallsOK, SleepInsert, At
  <2>2. isrPc = "off" /\ Len(list[c]) < Size /\ SetList(c, InsertAlarm(list[c], n, t, "event"))
        /\ UNCHANGED <<isrPc, isrClock>>
    BY <1>1, <2>1 DEF SleepInsert, At, Goto, Return, isrVars
  <2>3. ArraysOK' /\ Refines
    <3>1. /\ \A k \in Nat : [ticks |-> k, event |-> t, arg |-> "event"] \in Entries
          /\ \A k \in Nat : Mark([ticks |-> k, event |-> t, arg |-> "event"]) = t
          /\ t \in UNION Groups
      BY ThreadEntry
    <3>2. QED
      BY <2>2, <3>1, SetRefines
  <2>4. CallsOK'
    <3>1. CASE Goto(t, "perform") /\ UNCHANGED call
      <4>1. pc' = [pc EXCEPT ![t] = "perform"] /\ UNCHANGED <<call, start, periodic>> /\ pc[t] = "insert"
        BY <1>1, <3>1 DEF SleepInsert, At, Goto
      <4>2. QED
        BY <4>1 DEF CallsOK
    <3>2. CASE Return(t, "main")
      <4>1. pc' = [pc EXCEPT ![t] = "main"] /\ Called(t, NoCall) /\ UNCHANGED <<start, periodic>>
        BY <1>1, <3>2 DEF SleepInsert, Return, Goto
      <4>2. QED
        BY <4>1, CallsKeep
    <3>3. QED
      BY <1>1, <3>1, <3>2 DEF SleepInsert
  <2>5. QED
    BY <2>3, <2>4
<1>2. CASE SleepFull(t)
  <2>1. pc' = [pc EXCEPT ![t] = "main"] /\ Called(t, NoCall) /\ UNCHANGED <<start, periodic>>
    BY <1>2 DEF SleepFull, Return, Goto
  <2>2. UNCHANGED <<list, isrClock, isrPc>>
    BY <1>2 DEF SleepFull, Return, Goto, isrVars
  <2>3. QED
    BY <2>1, <2>2, CallsKeep, ArraysStutter
<1>3. CASE SleepPerform(t)
  <2>1. /\ pc[t] = "perform" /\ pc' = [pc EXCEPT ![t] = "woken"]
        /\ UNCHANGED <<call, start, periodic, list, isrClock, isrPc>>
    BY <1>3 DEF SleepPerform, At, Goto, clockVars, isrVars
  <2>2. CallsOK'
    BY <2>1 DEF CallsOK
  <2>3. QED
    BY <2>1, <2>2, ArraysStutter
<1>4. CASE SleepReturn(t)
  <2>1. pc' = [pc EXCEPT ![t] = "main"] /\ Called(t, NoCall) /\ UNCHANGED <<start, periodic>>
    BY <1>4 DEF SleepReturn, Return, Goto
  <2>2. UNCHANGED <<list, isrClock, isrPc>>
    BY <1>4 DEF SleepReturn, Return, Goto, isrVars
  <2>3. QED
    BY <2>1, <2>2, CallsKeep, ArraysStutter
<1>5. QED
  BY <1>1, <1>2, <1>3, <1>4 DEF SleepStep

LEMMA StartTimerRefines ==
  ASSUME AlarmInv, NEW t \in Threads \ {Idle}, NEW x \in Timers, NEW n \in Durations, NEW p,
         StartTimer(t, x, n, p)
  PROVE  AlarmInv' /\ Refines
<1> USE DEF AlarmInv
<1>1. UNCHANGED <<list, isrClock, isrPc>>
  BY DEF StartTimer, Goto, isrVars
<1>2. CallsOK'
  <2>1. /\ CallsOK /\ pc' = [pc EXCEPT ![t] = "rearm"]
        /\ call' = [call EXCEPT ![t] = [NoCall EXCEPT !.ticks = n, !.timer = x]]
        /\ start' = [start EXCEPT ![x] = n] /\ periodic' = [periodic EXCEPT ![x] = p]
    BY DEF StartTimer, Goto, Called
  <2>2. /\ DOMAIN pc' = Threads /\ DOMAIN call' = Threads /\ pc'[t] = "rearm"
        /\ call'[t].ticks = n /\ call'[t].timer = x
    BY <2>1 DEF CallsOK, NoCall
  <2>3. \A u \in Threads : u # t => pc'[u] = pc[u] /\ call'[u] = call[u]
    BY <2>1 DEF CallsOK
  <2>4. DOMAIN start' = Timers /\ DOMAIN periodic' = Timers
    BY <2>1 DEF CallsOK
  <2>5. ASSUME NEW y \in Timers, periodic'[y] PROVE start'[y] \in Durations
    <3>1. CASE y = x
      BY <2>1, <3>1 DEF CallsOK
    <3>2. CASE y # x
      BY <2>1, <2>5, <3>2 DEF CallsOK
    <3>3. QED
      BY <3>1, <3>2
  <2>6. QED
    BY <2>1, <2>2, <2>3, <2>4, <2>5 DEF CallsOK
<1>3. QED
  BY <1>1, <1>2, ArraysStutter

LEMMA StopTimerRefines ==
  ASSUME AlarmInv, NEW t \in Threads, NEW x \in Timers, StopTimer(t, x)
  PROVE  AlarmInv' /\ Refines
<1> USE DEF AlarmInv
<1>1. UNCHANGED <<list, isrClock, isrPc>>
  BY DEF StopTimer, isrVars
<1>2. CallsOK'
  <2>1. /\ CallsOK /\ UNCHANGED <<pc, call>>
        /\ start' = [start EXCEPT ![x] = 0] /\ periodic' = [periodic EXCEPT ![x] = FALSE]
    BY DEF StopTimer, threadVars
  <2>2. DOMAIN start' = Timers /\ DOMAIN periodic' = Timers
    BY <2>1 DEF CallsOK
  <2>3. ASSUME NEW y \in Timers, periodic'[y] PROVE start'[y] \in Durations
    <3>1. y # x
      BY <2>1, <2>3 DEF CallsOK
    <3>2. QED
      BY <2>1, <2>3, <3>1 DEF CallsOK
  <2>4. QED
    BY <2>1, <2>2, <2>3 DEF CallsOK
<1>3. QED
  BY <1>1, <1>2, ArraysStutter

LEMMA ArmRefines ==
  ASSUME AlarmInv, NEW t \in Threads \ {Idle}, Rearm(t) \/ Arm(t)
  PROVE  AlarmInv' /\ Refines
<1> USE DEF AlarmInv
<1>1. CASE Rearm(t)
  <2>1. isrPc = "off" /\ SetList(Ticks, RemoveEvent(list[Ticks], CustomTimer))
        /\ UNCHANGED <<isrPc, isrClock>>
    BY <1>1 DEF Rearm, At, Goto, isrVars
  <2>2. ArraysOK' /\ Refines
    <3>1. Timers \in Groups /\ \A e \in Entries : Mark(e) \in Timers <=> e.event = CustomTimer
      BY TimerEntry
    <3>2. Ticks \in Clocks
      BY TimerAssumption
    <3>3. QED
      BY <2>1, <3>1, <3>2, CancelRefines
  <2>3. CallsOK'
    <3>1. pc[t] = "rearm" /\ pc' = [pc EXCEPT ![t] = "arm"] /\ UNCHANGED <<call, start, periodic>>
      BY <1>1 DEF Rearm, At, Goto
    <3>2. QED
      BY <3>1 DEF CallsOK
  <2>4. QED
    BY <2>2, <2>3
<1>2. CASE Arm(t)
  <2>1. PICK x \in Timers, n \in Durations : x = call[t].timer /\ n = call[t].ticks
    BY <1>2 DEF CallsOK, Arm, At
  <2>2. isrPc = "off" /\ UNCHANGED <<isrPc, isrClock>>
    BY <1>2 DEF Arm, At, Return, Goto, isrVars
  <2>3. ArraysOK' /\ Refines
    <3>1. CASE Len(list[Ticks]) < Size
      <4>1. SetList(Ticks, InsertAlarm(list[Ticks], n, CustomTimer, x)) \/ UNCHANGED list
        BY <1>2, <2>1 DEF Arm
      <4>2. /\ \A k \in Nat : [ticks |-> k, event |-> CustomTimer, arg |-> x] \in Entries
            /\ \A k \in Nat : Mark([ticks |-> k, event |-> CustomTimer, arg |-> x]) = x
            /\ x \in UNION Groups
        BY TimerEntry
      <4>3. Ticks \in Clocks
        BY TimerAssumption
      <4>4. UNCHANGED list => ArraysOK' /\ Refines
        BY <2>2, ArraysStutter
      <4>5. QED
        BY <2>2, <3>1, <4>1, <4>2, <4>3, <4>4, SetRefines
    <3>2. CASE UNCHANGED list
      BY <2>2, <3>2, ArraysStutter DEF Arm
    <3>3. UNCHANGED isrClock /\ (Len(list[Ticks]) < Size \/ UNCHANGED list)
      BY <1>2 DEF Arm
    <3>4. QED
      BY <3>1, <3>2, <3>3
  <2>4. CallsOK'
    <3>1. pc' = [pc EXCEPT ![t] = "main"] /\ Called(t, NoCall) /\ UNCHANGED <<start, periodic>>
      BY <1>2 DEF Arm, Return, Goto
    <3>2. QED
      BY <3>1, CallsKeep
  <2>5. QED
    BY <2>3, <2>4
<1>3. QED
  BY <1>1, <1>2

\* A clock's tick is one of the deadlines, and the interrupt goes on with the
\* alarms that it made due.
LEMMA ClockTickRefines ==
  ASSUME AlarmInv, NEW c \in Clocks, ClockTick(c)
  PROVE  AlarmInv' /\ Refines
<1> USE DEF AlarmInv
<1>1. /\ isrPc = "off" /\ isrClock' = c /\ UNCHANGED <<pc, call, start, periodic>>
  BY DEF ClockTick, threadVars
<1>2. CallsOK'
  BY <1>1, CallsStutter
<1>3. NoneDue(list[c]) /\ list[c] \in Seq(Entries) /\ \A d \in Clocks : NoneDue(list[d])
  BY <1>1 DEF ArraysOK, Firing
<1>4. CASE list[c] = <<>>
  <2>1. UNCHANGED list /\ isrPc' = "tick"
    BY <1>4 DEF ClockTick, AfterClock, IsrGoto
  <2>2. \A d \in Clocks : ~Firing(d)'
    BY <2>1 DEF Firing
  <2>3. ArraysOK'
    BY <1>1, <1>3, <2>1, <2>2 DEF ArraysOK, NoneDue
  <2>4. UNCHANGED Deadlines
    BY <2>1 DEF Deadlines
  <2>5. QED
    BY <1>2, <2>3, <2>4 DEF Refines
<1>5. CASE list[c] # <<>>
  <2>1. PICK l \in Seq(Entries) : l = CountDown(list[c])
    BY <1>3, <1>5, CountDownEntries
  <2>2. SetList(c, l)
    BY <1>5, <2>1 DEF ClockTick
  <2>3. /\ list' \in [Clocks -> Seq(Entries)]
        /\ list'[c] = l /\ \A d \in Clocks : d # c => list'[d] = list[d]
        /\ c = Ticks => Deadlines' = DeadlinesOf(l)
        /\ c # Ticks => UNCHANGED Deadlines
    BY <2>2, ArrayMoves
  <2>4. l # <<>> /\ l[1].ticks = list[c][1].ticks - 1 /\ list[c][1].ticks \in Nat
    <3>1. Len(l) = Len(list[c]) /\ l[1] = [list[c][1] EXCEPT !.ticks = list[c][1].ticks - 1]
      BY <1>3, <1>5, <2>1, CountDownEntries
    <3>2. list[c][1] \in Entries
      BY <1>3, <1>5
    <3>3. l[1].ticks = list[c][1].ticks - 1 /\ list[c][1].ticks \in Nat
      BY <3>1, <3>2 DEF Entries
    <3>4. Len(list[c]) # 0
      BY <1>3, <1>5
    <3>5. QED
      BY <3>1, <3>3, <3>4
  <2>5. list[c][1].ticks > 0
    BY <1>3, <1>5 DEF NoneDue
  <2>6. ArraysOK'
    <3>1. CASE list[c][1].ticks = 1
      <4>1. isrPc' = "expire" /\ l[1].ticks = 0
        BY <1>5, <2>4, <3>1 DEF ClockTick, IsrGoto
      <4>2. \A d \in Clocks : Firing(d)' <=> d = c
        BY <1>1, <4>1 DEF Firing
      <4>3. QED
        BY <1>1, <1>3, <2>3, <2>4, <4>1, <4>2 DEF ArraysOK, NoneDue
    <3>2. CASE list[c][1].ticks # 1
      <4>1. isrPc' = "tick" /\ l[1].ticks > 0
        BY <1>5, <2>4, <2>5, <3>2 DEF ClockTick, AfterClock, IsrGoto
      <4>2. \A d \in Clocks : ~Firing(d)'
        BY <4>1 DEF Firing
      <4>3. \A d \in Clocks : list'[d] # <<>> => list'[d][1].ticks > 0
        <5> TAKE d \in Clocks
        <5>1. CASE d = c
          BY <2>3, <4>1, <5>1
        <5>2. CASE d # c
          BY <1>3, <2>3, <5>2 DEF NoneDue
        <5>3. QED
          BY <5>1, <5>2
      <4>4. QED
        BY <1>1, <2>3, <4>2, <4>3 DEF ArraysOK, NoneDue
    <3>3. QED
      BY <3>1, <3>2
  <2>7. Refines
    <3>1. CASE c = Ticks
      <4>1. /\ \A j \in 1..Len(list[c]) : Due(list[c], j) > 0
            /\ DeadlinesOf(l) = [j \in 1..Len(list[c]) |-> [DeadlinesOf(list[c])[j] EXCEPT !.left = @ - 1]]
        BY <1>3, <1>5, <2>1, CountDownDeadlines
      <4>2. Deadlines = DeadlinesOf(list[c]) /\ Len(Deadlines) = Len(list[c])
        BY <3>1, Arrays
      <4>3. \A j \in 1..Len(Deadlines) : Deadlines[j].left > 0
        <5>1. \A j \in 1..Len(list[c]) : DeadlinesOf(list[c])[j].left = Due(list[c], j)
          BY DEF DeadlinesOf
        <5>2. QED
          BY <4>1, <4>2, <5>1
      <4>4. Deadlines' = [j \in 1..Len(Deadlines) |-> [Deadlines[j] EXCEPT !.left = @ - 1]]
        BY <2>3, <3>1, <4>1, <4>2
      <4>5. D!Tick
        BY <4>3, <4>4 DEF D!Tick
      <4>6. QED
        BY <4>5 DEF Refines, D!Next
    <3>2. CASE c # Ticks
      BY <2>3, <3>2 DEF Refines
    <3>3. QED
      BY <3>1, <3>2
  <2>8. QED
    BY <1>2, <2>6, <2>7
<1>6. QED
  BY <1>4, <1>5

\* The array after the first alarm went off.
LEMMA AfterFireDeadlines ==
  ASSUME AlarmInv, Firing(isrClock)
  PROVE  /\ AfterFire \in Seq(Entries)
         /\ \/ DeadlinesOf(AfterFire) = Tail(DeadlinesOf(list[isrClock]))
            \/ /\ DeadlinesOf(list[isrClock])[1].mark \in Timers
               /\ \E n \in Durations :
                    DeadlinesOf(AfterFire) =
                      D!Put(Tail(DeadlinesOf(list[isrClock])),
                            [left |-> n, mark |-> DeadlinesOf(list[isrClock])[1].mark])
         /\ list[isrClock] # <<>> /\ DeadlinesOf(list[isrClock])[1].left = 0
<1> USE DEF AlarmInv
<1>1. PICK l \in Seq(Entries) : l = list[isrClock] /\ l # <<>> /\ l[1].ticks = 0
  BY DEF ArraysOK
<1>2. PICK rest \in Seq(Entries) :
        rest = Tail(l) /\ DeadlinesOf(rest) = Tail(DeadlinesOf(l)) /\ Due(l, 1) = 0
  BY <1>1, TailDeadlines
<1>3. 1 \in 1..Len(l) /\ l[1] \in Entries
  BY <1>1
<1>4. DeadlinesOf(l)[1] = [left |-> 0, mark |-> Mark(l[1])]
  BY <1>2, <1>3 DEF DeadlinesOf
<1>5. CASE l[1].event = CustomTimer /\ periodic[l[1].arg]
  <2>1. PICK x \in Timers : x = l[1].arg
    BY <1>3, <1>5, TimerAssumption DEF Entries
  <2>2. PICK n \in Durations : n = start[x]
    BY <1>5, <2>1 DEF CallsOK
  <2>3. n \in Nat
    BY TimerAssumption
  <2>4. AfterFire = InsertAlarm(rest, n, CustomTimer, x)
    BY <1>1, <1>2, <1>5, <2>1, <2>2 DEF AfterFire, Head1
  <2>5. /\ [ticks |-> n, event |-> CustomTimer, arg |-> x] \in Entries
        /\ Mark([ticks |-> n, event |-> CustomTimer, arg |-> x]) = x
    BY <2>3, TimerEntry
  <2>6. AfterFire \in Seq(Entries)
    <3>1. Inserted(AfterFire, rest, Position(rest, n), n - Due(rest, Position(rest, n) - 1), CustomTimer, x)
      BY <2>3, <2>4, <2>5, InsertedEntries
    <3>2. QED
      BY <3>1 DEF Inserted
  <2>7. DeadlinesOf(AfterFire) = D!Put(DeadlinesOf(rest), [left |-> n, mark |-> x])
    BY <2>3, <2>4, <2>5, InsertPuts
  <2>8. DeadlinesOf(l)[1].mark = x
    BY <1>4, <1>5, <2>1 DEF Mark
  <2>9. QED
    BY <1>1, <1>2, <1>4, <2>6, <2>7, <2>8
<1>6. CASE ~(l[1].event = CustomTimer /\ periodic[l[1].arg])
  <2>1. AfterFire = rest
    BY <1>1, <1>2, <1>6 DEF AfterFire, Head1
  <2>2. QED
    BY <1>1, <1>2, <1>4, <2>1
<1>7. QED
  BY <1>5, <1>6

LEMMA FiredRefines ==
  ASSUME AlarmInv, Fired
  PROVE  AlarmInv' /\ Refines
<1> USE DEF AlarmInv
<1>1. /\ Firing(isrClock) /\ isrClock \in Clocks
      /\ UNCHANGED <<isrClock, pc, call, start, periodic>>
      /\ SetList(isrClock, AfterFire)
  BY DEF Fired, Firing, threadVars, ArraysOK
<1>2. CallsOK'
  BY <1>1, CallsStutter
<1>3. PICK l \in Seq(Entries) : l = AfterFire
  BY <1>1, AfterFireDeadlines
<1>4. /\ list' \in [Clocks -> Seq(Entries)]
      /\ list'[isrClock] = l /\ \A d \in Clocks : d # isrClock => list'[d] = list[d]
      /\ isrClock = Ticks => Deadlines' = DeadlinesOf(l)
      /\ isrClock # Ticks => UNCHANGED Deadlines
  BY <1>1, <1>3, ArrayMoves
<1>5. \A d \in Clocks : d # isrClock => NoneDue(list[d])
  BY DEF ArraysOK, Firing
<1>6. ArraysOK'
  <2>1. CASE l # <<>> /\ l[1].ticks = 0
    <3>1. isrPc' = "expire"
      BY <1>3, <2>1 DEF Fired, IsrGoto
    <3>2. \A d \in Clocks : Firing(d)' <=> d = isrClock
      BY <1>1, <3>1 DEF Firing
    <3>3. QED
      BY <1>1, <1>4, <1>5, <2>1, <3>2 DEF ArraysOK, NoneDue
  <2>2. CASE ~(l # <<>> /\ l[1].ticks = 0)
    <3>1. isrPc' = "tick"
      BY <1>3, <2>2 DEF Fired, AfterClock, IsrGoto
    <3>2. \A d \in Clocks : ~Firing(d)'
      BY <3>1 DEF Firing
    <3>3. l # <<>> => l[1].ticks > 0
      <4>1. l # <<>> => l[1] \in Entries
        OBVIOUS
      <4>2. l # <<>> => l[1].ticks \in Nat
        BY <4>1 DEF Entries
      <4>3. QED
        BY <2>2, <4>2
    <3>4. \A d \in Clocks : list'[d] # <<>> => list'[d][1].ticks > 0
      <4> TAKE d \in Clocks
      <4>1. CASE d = isrClock
        BY <1>4, <3>3, <4>1
      <4>2. CASE d # isrClock
        BY <1>4, <1>5, <4>2 DEF NoneDue
      <4>3. QED
        BY <4>1, <4>2
    <3>5. QED
      BY <1>1, <1>4, <3>2, <3>4 DEF ArraysOK, NoneDue
  <2>3. QED
    BY <2>1, <2>2
<1>7. Refines
  <2>1. CASE isrClock = Ticks
    <3>1. Deadlines = DeadlinesOf(list[isrClock])
      BY <2>1, Arrays
    <3>2. Deadlines # <<>>
      <4>1. Len(Deadlines) = Len(list[isrClock]) /\ list[isrClock] # <<>> /\ list[isrClock] \in Seq(Entries)
        BY <1>1, <2>1, Arrays, AfterFireDeadlines
      <4>2. Len(Deadlines) # 0
        BY <4>1
      <4>3. QED
        BY <4>2
    <3>3. /\ Deadlines[1].left = 0
          /\ \/ Deadlines' = Tail(Deadlines)
             \/ \E n \in Durations :
                  Deadlines' = D!Put(Tail(Deadlines), [left |-> n, mark |-> Deadlines[1].mark])
      BY <1>1, <1>3, <1>4, <2>1, <3>1, AfterFireDeadlines
    <3>4. D!Fire
      BY <3>2, <3>3 DEF D!Fire
    <3>5. QED
      BY <3>4 DEF Refines, D!Next
  <2>2. CASE isrClock # Ticks
    BY <1>4, <2>2 DEF Refines
  <2>3. QED
    BY <2>1, <2>2
<1>8. QED
  BY <1>2, <1>6, <1>7

LEMMA ClockHandlerRefines ==
  ASSUME AlarmInv, ClockHandler
  PROVE  AlarmInv' /\ Refines
<1> USE DEF AlarmInv
<1>1. CASE Expire
  <2>1. UNCHANGED <<list, isrClock, pc, call, start, periodic>> /\ isrPc = "expire" /\ isrPc' = "fire"
    BY <1>1 DEF Expire, IsrGoto, threadVars, clockVars
  <2>2. QED
    BY <2>1, ArraysStutter, CallsStutter
<1>2. CASE ExpireStep
  <2>1. UNCHANGED <<list, isrClock, pc, call, start, periodic, isrPc>>
    BY <1>2 DEF ExpireStep, isrVars, threadVars, clockVars
  <2>2. QED
    BY <2>1, ArraysStutter, CallsStutter
<1>3. CASE Fired
  BY <1>3, FiredRefines
<1>4. QED
  BY <1>1, <1>2, <1>3 DEF ClockHandler

\* What the kernel does to the arrays: the alarms of a thread are removed when its
\* wait is cancelled, and an eventNotify follows.
Cancelled(u) ==
  /\ list' = WithoutAlarms(u)
  /\ waiting[u] => \E c \in Contexts : SweepStart(c, u, "OS_CANCELLED")

LEMMA KernelCancels ==
  ASSUME StartedInv, WaitsOK, Kernel
  PROVE  UNCHANGED list \/ \E u \in Threads : Cancelled(u)
<1>1. ASSUME NEW t \in Threads, CancelThread(t)
      PROVE  \E u \in Threads : Cancelled(u)
  <2>1. PICK u \in Threads : u = target[t]
    BY <1>1 DEF CancelThread, Cancel, At, StartedInv
  <2>2. waiting[u] => SweepStart(t, u, "OS_CANCELLED")
    BY <1>1, <2>1 DEF CancelThread, Cancel, WaitsOK
  <2>3. QED
    BY <1>1, <2>1, <2>2 DEF CancelThread, Cancelled, Contexts
<1>2. ASSUME Handler, TickCancels, list' = WithoutAlarms(threads[isrIdx + 1])
      PROVE  \E u \in Threads : Cancelled(u)
  <2>1. PICK u \in Threads : u = threads[isrIdx + 1]
    BY <1>2 DEF TickCancels, StartedInv, KInv, KernelTypeOK, IsrSound
  <2>2. isrPc = "tick" /\ isrIdx \in Nat /\ isrIdx < Len(threads) /\ interrupted[u]
    BY <1>2, <2>1 DEF TickCancels, StartedInv, IsrSound
  <2>3. TickThread
    <3>1. Len(threads) \in Nat
      BY DEF StartedInv, KInv, KernelTypeOK
    <3>2. QED
      BY <1>2, <2>2, <3>1 DEF Handler, HandlerStep, IsrSweepStep, TickCancelled, IsrNotified, IsrExit
  <2>4. waiting[u] => SweepStart(Isr, u, "OS_CANCELLED")
    BY <2>1, <2>2, <2>3 DEF TickThread, WaitsOK
  <2>5. QED
    BY <1>2, <2>1, <2>4 DEF Cancelled, Contexts
<1>3. QED
  BY <1>1, <1>2 DEF Kernel, TickHandler, clockVars

LEMMA KernelSpares ==
  ASSUME Kernel
  PROVE  /\ isrPc \notin {"expire", "fire"} /\ isrPc' \notin {"expire", "fire"}
         /\ UNCHANGED <<isrClock, call, start, periodic, historyVars>>
         /\ UNCHANGED pc
            \/ \E t \in Threads, l \in {"main", "cancel", "cancelSweep"} :
                 pc[t] \in {"main", "cancel", "cancelSweep"} /\ pc' = [pc EXCEPT ![t] = l]
<1>1. ASSUME IdleYield, UNCHANGED <<clockVars, historyVars>>
      PROVE  /\ isrPc = "off" /\ UNCHANGED <<isrPc, isrClock, call, start, periodic, historyVars, pc>>
  BY <1>1 DEF IdleYield, At, clockVars, isrVars, threadVars
<1>2. ASSUME NEW t \in Threads, StartInterruption(t) \/ CancelStep(t) \/ Cancel(t)
      PROVE  /\ isrPc = "off" /\ UNCHANGED isrPc
             /\ UNCHANGED pc
                \/ \E l \in {"main", "cancel", "cancelSweep"} :
                     pc[t] \in {"main", "cancel", "cancelSweep"} /\ pc' = [pc EXCEPT ![t] = l]
  BY <1>2 DEF StartInterruption, AckInterruption, RequestInterruption, CancelStep, Cancel, At, Free, Goto,
    isrVars, threadVars
<1>3. ASSUME TickHandler
      PROVE  /\ isrPc \notin {"expire", "fire"} /\ isrPc' \notin {"expire", "fire"}
             /\ UNCHANGED <<isrClock, call, start, periodic, historyVars, pc>>
  BY <1>3 DEF TickHandler, Handler, HandlerStep, TickThread, IsrSweepStep, TickCancelled, IsrNotified,
    IsrExit, IsrGoto, isrVars, threadVars
<1>4. QED
  BY <1>1, <1>2, <1>3 DEF Kernel, CancelThread, clockVars

LEMMA KernelRefines ==
  ASSUME BaseInv, Kernel
  PROVE  AlarmInv' /\ Refines
<1>1. /\ isrPc \notin {"expire", "fire"} /\ isrPc' \notin {"expire", "fire"}
      /\ UNCHANGED <<isrClock, call, start, periodic>>
  BY KernelSpares
<1>2. CallsOK /\ ArraysOK /\ StartedInv /\ WaitsOK
  BY DEF BaseInv, AlarmInv
<1>3. CallsOK'
  <2>1. CASE UNCHANGED pc
    BY <1>1, <1>2, <2>1, CallsStutter
  <2>2. ASSUME NEW t \in Threads, NEW l \in {"main", "cancel", "cancelSweep"}, pc' = [pc EXCEPT ![t] = l]
        PROVE  CallsOK'
    BY <1>1, <1>2, <2>2, CallsKeep
  <2>3. QED
    BY <2>1, <2>2, KernelSpares
<1>4. ArraysOK' /\ Refines
  <2>1. CASE UNCHANGED list
    BY <1>1, <1>2, <2>1, ArraysStutter
  <2>2. ASSUME NEW u \in Threads, Cancelled(u) PROVE ArraysOK' /\ Refines
    BY <1>1, <1>2, <2>2, WithoutAlarmsRefines DEF Cancelled
  <2>3. QED
    BY <1>2, <2>1, <2>2, KernelCancels
<1>5. QED
  BY <1>3, <1>4 DEF AlarmInv

LEMMA AlarmInit == Init => AlarmInv /\ D!Init
<1> SUFFICES ASSUME Init PROVE AlarmInv /\ D!Init
  OBVIOUS
<1>1. \A c \in Clocks : list[c] = <<>> /\ ~Firing(c)
  BY DEF Init, StartedInit, Firing
<1>2. list \in [Clocks -> Seq(Entries)]
  BY DEF Init
<1>3. ArraysOK
  BY <1>1, <1>2, TimerAssumption DEF Init, ArraysOK, NoneDue
<1>4. CallsOK
  BY DEF Init, StartedInit, CallsOK
<1>5. Deadlines = <<>>
  <2>1. Len(list[Ticks]) = 0
    BY <1>1, TimerAssumption
  <2>2. Deadlines \in Seq(D!Alarms) /\ Len(Deadlines) = 0
    BY <1>3, <2>1, Arrays, DeadlinesType
  <2>3. QED
    BY <2>2
<1>6. QED
  BY <1>3, <1>4, <1>5 DEF AlarmInv, D!Init

LEMMA AlarmStep ==
  ASSUME BaseInv, [Next]_vars
  PROVE  AlarmInv' /\ Refines
<1>0. AlarmInv
  BY DEF BaseInv
<1>1. ASSUME NEW t \in Threads \ {Idle}, NEW c \in Clocks, NEW n \in Durations, Sleep(t, c, n)
      PROVE  AlarmInv' /\ Refines
  BY <1>0, <1>1, SleepRefines
<1>2. ASSUME NEW t \in Threads \ {Idle}, SleepStep(t) \/ Rearm(t) \/ Arm(t)
      PROVE  AlarmInv' /\ Refines
  BY <1>0, <1>2, SleepStepRefines, ArmRefines
<1>3. ASSUME NEW t \in Threads \ {Idle}, NEW x \in Timers,
             StopTimer(t, x) \/ \E n \in Durations, p \in BOOLEAN : StartTimer(t, x, n, p)
      PROVE  AlarmInv' /\ Refines
  BY <1>0, <1>3, StartTimerRefines, StopTimerRefines
<1>4. ASSUME NEW c \in Clocks, ClockTick(c)
      PROVE  AlarmInv' /\ Refines
  BY <1>0, <1>4, ClockTickRefines
<1>5. CASE ClockHandler
  BY <1>0, <1>5, ClockHandlerRefines
<1>6. CASE Kernel
  BY <1>6, KernelRefines
<1>7. CASE UNCHANGED vars
  <2>1. UNCHANGED <<list, isrClock, isrPc, pc, call, start, periodic>>
    BY <1>7 DEF vars, clockVars, isrVars, threadVars
  <2>2. QED
    BY <1>0, <2>1, ArraysStutter, CallsStutter DEF AlarmInv
<1>8. QED
  BY <1>0, <1>1, <1>2, <1>3, <1>4, <1>5, <1>6, <1>7 DEF Next

-----------------------------------------------------------------------------
(***************************************************************************)
(* What is in a list of deadlines.                                         *)
(***************************************************************************)

HasAlarm(a, x) == \E i \in 1..Len(a) : a[i] = x

LEMMA WithoutHas ==
  ASSUME NEW S, NEW a \in Seq(S), NEW group, NEW x
  PROVE  HasAlarm(D!Without(a, group), x) <=> HasAlarm(a, x) /\ x.mark \notin group
<1>1. PICK n \in Nat : n = Len(a)
  OBVIOUS
<1>2. PICK k \in Values(n, Seq(S)) : Keeps(a, group, k)
  BY <1>1, KeptExists
<1>3. \A i \in 0..n : k[i] \in Seq(S)
  BY DEF Values
<1> DEFINE T == { i \in Nat : i <= n =>
                    (HasAlarm(k[i], x) <=> x.mark \notin group /\ \E j \in 1..i : a[j] = x) }
<1>4. 0 \in T
  <2>1. k[0] = <<>>
    BY <1>2 DEF Keeps
  <2>2. QED
    BY <2>1 DEF HasAlarm
<1>5. ASSUME NEW i \in Nat, i \in T PROVE i + 1 \in T
  <2> SUFFICES ASSUME i + 1 <= n
               PROVE  HasAlarm(k[i + 1], x) <=> x.mark \notin group /\ \E j \in 1..i + 1 : a[j] = x
    OBVIOUS
  <2>1. i + 1 \in 1..n /\ (i + 1) - 1 = i /\ i \in 0..n
    OBVIOUS
  <2>2. HasAlarm(k[i], x) <=> x.mark \notin group /\ \E j \in 1..i : a[j] = x
    BY <1>5
  <2>3. k[i + 1] = IF a[i + 1].mark \in group THEN k[i] ELSE Append(k[i], a[i + 1])
    <3>1. k[i + 1] = IF a[i + 1].mark \in group THEN k[(i + 1) - 1]
                     ELSE Append(k[(i + 1) - 1], a[i + 1])
      BY <1>1, <1>2, <2>1 DEF Keeps
    <3>2. QED
      BY <2>1, <3>1
  <2>4. (\E j \in 1..i + 1 : a[j] = x) <=> (\E j \in 1..i : a[j] = x) \/ a[i + 1] = x
    <3>1. 1..i + 1 = 1..i \cup {i + 1}
      OBVIOUS
    <3>2. QED
      BY <3>1
  <2>5. CASE a[i + 1].mark \in group
    BY <2>2, <2>3, <2>4, <2>5
  <2>6. CASE a[i + 1].mark \notin group
    <3>1. PICK s \in Seq(S) : s = k[i]
      BY <1>3, <2>1
    <3>2. PICK e \in S : e = a[i + 1]
      BY <1>1, <2>1
    <3>3. PICK r \in Seq(S) : /\ r = Append(s, a[i + 1]) /\ Len(r) = Len(s) + 1
                              /\ \A j \in 1..Len(s) : r[j] = s[j]
                              /\ r[Len(s) + 1] = a[i + 1]
      <4>1. /\ Append(s, e) \in Seq(S) /\ Len(Append(s, e)) = Len(s) + 1
            /\ \A j \in 1..Len(s) : Append(s, e)[j] = s[j]
            /\ Append(s, e)[Len(s) + 1] = e
        OBVIOUS
      <4>2. QED
        BY <3>2, <4>1
    <3>4. HasAlarm(r, x) <=> HasAlarm(s, x) \/ a[i + 1] = x
      <4>1. 1..Len(r) = 1..Len(s) \cup {Len(s) + 1}
        BY <3>3
      <4>2. QED
        BY <3>3, <4>1 DEF HasAlarm
    <3>5. HasAlarm(k[i + 1], x) <=> HasAlarm(k[i], x) \/ a[i + 1] = x
      BY <2>3, <2>6, <3>1, <3>3, <3>4
    <3>6. QED
      BY <2>2, <2>4, <2>6, <3>5
  <2>7. QED
    BY <2>5, <2>6
<1> HIDE DEF T
<1>6. n \in T
  BY <1>4, <1>5, Induction
<1>7. HasAlarm(k[n], x) <=> x.mark \notin group /\ \E j \in 1..n : a[j] = x
  BY <1>6 DEF T
<1>8. D!Without(a, group) = k[n]
  BY <1>1, <1>2, WithoutIs
<1>9. QED
  BY <1>1, <1>7, <1>8 DEF HasAlarm

LEMMA PutHas ==
  ASSUME NEW l \in Seq(Entries), NEW y, y.left \in Nat, NEW x
  PROVE  HasAlarm(D!Put(DeadlinesOf(l), y), x) <=> HasAlarm(DeadlinesOf(l), x) \/ x = y
<1>1. PICK i \in 1..Len(l) + 1 : i = D!Place(DeadlinesOf(l), y.left)
  BY PlaceIsPosition, PositionIsSlot DEF IsSlot
<1>2. PICK a \in Seq(D!Alarms) : a = DeadlinesOf(l) /\ Len(a) = Len(l)
  BY DeadlinesType
<1>3. PICK n \in Nat : n = Len(a)
  OBVIOUS
<1>4. PICK b : /\ b = D!Put(a, y) /\ Len(b) = n + 1
               /\ \A j \in 1..n + 1 : b[j] = IF j < i THEN a[j] ELSE IF j = i THEN y ELSE a[j - 1]
  <2>1. D!Put(a, y) = [j \in 1..n + 1 |-> IF j < i THEN a[j] ELSE IF j = i THEN y ELSE a[j - 1]]
    BY <1>1, <1>2, <1>3 DEF D!Put
  <2>2. QED
    BY <2>1
<1>5. ASSUME NEW j \in 1..n + 1, b[j] = x PROVE x = y \/ \E k \in 1..n : a[k] = x
  <2>1. CASE j < i
    <3>1. j \in 1..n /\ a[j] = x
      BY <1>2, <1>3, <1>4, <1>5, <2>1
    <3>2. QED
      BY <3>1
  <2>2. CASE j = i
    BY <1>4, <1>5, <2>2
  <2>3. CASE j > i
    <3>1. j - 1 \in 1..n /\ a[j - 1] = x
      BY <1>4, <1>5, <2>3
    <3>2. QED
      BY <3>1
  <2>4. QED
    BY <2>1, <2>2, <2>3
<1>6. b[i] = y /\ i \in 1..n + 1
  BY <1>2, <1>3, <1>4
<1>7. ASSUME NEW k \in 1..n PROVE \E j \in 1..n + 1 : b[j] = a[k]
  <2>1. CASE k < i
    <3>1. k \in 1..n + 1 /\ b[k] = a[k]
      BY <1>4, <2>1
    <3>2. QED
      BY <3>1
  <2>2. CASE ~(k < i)
    <3>1. k + 1 \in 1..n + 1 /\ ~(k + 1 < i) /\ k + 1 # i /\ (k + 1) - 1 = k
      BY <2>2
    <3>2. b[k + 1] = a[k]
      BY <1>4, <3>1
    <3>3. QED
      BY <3>1, <3>2
  <2>3. QED
    BY <2>1, <2>2
<1>8. HasAlarm(b, x) <=> HasAlarm(a, x) \/ x = y
  BY <1>3, <1>4, <1>5, <1>6, <1>7 DEF HasAlarm
<1>9. QED
  BY <1>2, <1>4, <1>8

LEMMA TailHas ==
  ASSUME NEW S, NEW a \in Seq(S), a # <<>>, NEW x
  PROVE  /\ HasAlarm(Tail(a), x) => HasAlarm(a, x)
         /\ HasAlarm(a, x) => x = a[1] \/ HasAlarm(Tail(a), x)
<1>1. PICK n \in Nat : n = Len(a) /\ n > 0
  OBVIOUS
<1>2. PICK r \in Seq(S) : r = Tail(a) /\ Len(r) = n - 1 /\ \A j \in 1..n - 1 : r[j] = a[j + 1]
  BY <1>1, TailEntries
<1>3. ASSUME NEW j \in 1..n - 1, r[j] = x PROVE \E i \in 1..n : a[i] = x
  <2>1. j + 1 \in 1..n /\ a[j + 1] = x
    BY <1>2, <1>3
  <2>2. QED
    BY <2>1
<1>4. ASSUME NEW i \in 1..n, a[i] = x, i # 1 PROVE \E j \in 1..n - 1 : r[j] = x
  <2>1. i - 1 \in 1..n - 1 /\ (i - 1) + 1 = i
    BY <1>4
  <2>2. r[i - 1] = x
    BY <1>2, <1>4, <2>1
  <2>3. QED
    BY <2>1, <2>2
<1>5. QED
  BY <1>1, <1>2, <1>3, <1>4 DEF HasAlarm

\* An alarm that is due is the first one's.
LEMMA FirstIsDue ==
  ASSUME NEW l \in Seq(Entries), NEW m, HasAlarm(DeadlinesOf(l), [left |-> 0, mark |-> m])
  PROVE  ~NoneDue(l)
<1>1. PICK i \in 1..Len(l) : DeadlinesOf(l)[i] = [left |-> 0, mark |-> m]
  BY DeadlinesType DEF HasAlarm
<1>2. Due(l, i) = 0
  BY <1>1 DEF DeadlinesOf
<1>3. l # <<>> /\ 1 \in 1..Len(l) /\ l[1] \in Entries
  OBVIOUS
<1>4. 0 \in 0..Len(l) /\ 1 \in 0..Len(l) /\ i \in 0..Len(l) /\ 1 <= i
  BY <1>3
<1>5. Due(l, 1) <= Due(l, i) /\ Due(l, 1) \in Nat /\ Due(l, 0) = 0
  BY <1>4, DueGrows, DueSteps
<1>6. Due(l, 1) = Due(l, 1 - 1) + l[1].ticks
  BY <1>3, DueSteps
<1>7. l[1].ticks \in Nat
  BY <1>3 DEF Entries
<1>8. l[1].ticks = 0
  BY <1>2, <1>5, <1>6, <1>7
<1>9. QED
  BY <1>3, <1>8 DEF NoneDue

-----------------------------------------------------------------------------
(***************************************************************************)
(* The kernel, while threads sleep and start timers and the clocks tick.   *)
(***************************************************************************)

TimerCall(t) ==
  \/ \E c \in Clocks, n \in Durations : Sleep(t, c, n)
  \/ SleepStep(t)
  \/ \E x \in Timers :
       (\E n \in Durations, p \in BOOLEAN : StartTimer(t, x, n, p)) \/ StopTimer(t, x)
  \/ Rearm(t) \/ Arm(t)

\* What a step of thread t leaves as it is.
Spares(t) ==
  /\ isrPc = "off" /\ UNCHANGED <<isrVars, sweep, threads, lock>>
  /\ \A u \in Threads \ {t} :
       pc'[u] = pc[u] /\ waiting'[u] = waiting[u] /\ event'[u] = event[u] /\ ret'[u] = ret[u]

LEMMA GotoSpares ==
  ASSUME StartedInv, NEW t \in Threads, isrPc = "off",
         NEW l, l \notin Sweeping \cup {"cancel"}, Goto(t, l), pc[t] \notin Sweeping,
         UNCHANGED kernelVars
  PROVE  StartedInv' /\ Spares(t)
<1>1. KInv /\ running \in Members(ready) /\ DOMAIN pc = Threads
  BY DEF StartedInv
<1>2. UNCHANGED <<bootVars, schedVars, waitVars, statusVars, sweepVars>>
  BY DEF kernelVars
<1>3. KInv' /\ running' \in Members(ready')
  BY <1>1, <1>2, KernelStutter DEF schedVars
<1>4. StartedInv'
  BY <1>2, <1>3, GotoKeepsStarted DEF Goto, statusVars, sweepVars
<1>5. Spares(t)
  BY <1>1, <1>2 DEF Spares, Goto, bootVars, schedVars, waitVars, sweepVars
<1>6. QED
  BY <1>4, <1>5

LEMMA TimerCallSpares ==
  ASSUME StartedInv, lock = 0, NEW t \in Threads \ {Idle}, TimerCall(t)
  PROVE  StartedInv' /\ Spares(t)
<1>0. /\ KInv /\ running \in Members(ready) /\ DOMAIN pc = Threads
      /\ t \in Events
      /\ event \in [Threads -> Events \cup {NoEvent}] /\ waiting \in [Threads -> BOOLEAN]
      /\ ret \in [Threads -> Rets] /\ isRunning
  BY TimerAssumption DEF StartedInv, KInv, KernelTypeOK
<1>1. CASE \/ \E c \in Clocks, n \in Durations : Sleep(t, c, n)
           \/ SleepFull(t) \/ SleepReturn(t)
           \/ \E x \in Timers, n \in Durations, p \in BOOLEAN : StartTimer(t, x, n, p)
           \/ Rearm(t) \/ Arm(t)
  <2>1. PICK l \in {"insert", "main", "rearm", "arm"} :
          /\ Goto(t, l) /\ isrPc = "off" /\ pc[t] \in {"main", "insert", "woken", "rearm", "arm"}
          /\ UNCHANGED kernelVars
    <3>1. CASE Rearm(t) \/ Arm(t)
      BY <3>1 DEF Rearm, Arm, At, Return
    <3>2. CASE SleepFull(t) \/ SleepReturn(t)
      BY <3>2 DEF SleepFull, SleepReturn, At, Return
    <3>3. CASE \E c \in Clocks, n \in Durations : Sleep(t, c, n)
      BY <3>3 DEF Sleep, Free, At
    <3>4. CASE \E x \in Timers, n \in Durations, p \in BOOLEAN : StartTimer(t, x, n, p)
      BY <3>4 DEF StartTimer, Free, At
    <3>5. QED
      BY <1>1, <3>1, <3>2, <3>3, <3>4
  <2>2. QED
    BY <2>1, GotoSpares DEF Sweeping
<1>2. CASE SleepInsert(t)
  <2>1. PICK l \in {"perform", "main"} :
          Goto(t, l) /\ isrPc = "off" /\ pc[t] = "insert"
    BY <1>2 DEF SleepInsert, At, Return
  <2>2. EventWaitPrepare(t, t) \/ EventWaitRefused(t, t)
    BY <1>2 DEF SleepInsert
  <2>3. KInv'
    BY <1>0, <2>2, EventWaitPrepareSafe, EventWaitRefusedSafe
  <2>4. UNCHANGED <<bootVars, schedVars, statusVars, sweepVars>>
    BY <2>2 DEF EventWaitPrepare, EventWaitRefused
  <2>5. \A u \in Threads \ {t} :
          waiting'[u] = waiting[u] /\ event'[u] = event[u] /\ ret'[u] = ret[u]
    BY <1>0, <2>2 DEF EventWaitPrepare, EventWaitRefused
  <2>6. StartedInv'
    BY <1>0, <2>1, <2>3, <2>4, GotoKeepsStarted DEF Goto, Sweeping, schedVars, statusVars, sweepVars
  <2>7. Spares(t)
    BY <1>0, <2>1, <2>4, <2>5 DEF Spares, Goto, bootVars, schedVars, sweepVars
  <2>8. QED
    BY <2>6, <2>7
<1>3. CASE SleepPerform(t)
  <2>1. PerformContextSwitch /\ Goto(t, "woken") /\ isrPc = "off" /\ pc[t] = "perform"
    BY <1>3 DEF SleepPerform, At
  <2>2. /\ KInv' /\ running' \in Members(ready')
        /\ UNCHANGED <<bootVars, lock, event, waiting, statusVars, sweepVars>>
        /\ ret' = ret
    BY <1>0, <2>1, SwitchPicks
  <2>3. StartedInv'
    BY <1>0, <2>1, <2>2, GotoKeepsStarted DEF Goto, Sweeping, statusVars, sweepVars
  <2>4. Spares(t)
    BY <1>0, <2>1, <2>2 DEF Spares, Goto, bootVars, sweepVars
  <2>5. QED
    BY <2>3, <2>4
<1>4. CASE \E x \in Timers : StopTimer(t, x)
  <2>1. UNCHANGED <<kernelVars, isrVars, threadVars>> /\ isrPc = "off"
    BY <1>4 DEF StopTimer, Free, At
  <2>2. UNCHANGED <<bootVars, schedVars, waitVars, statusVars, sweepVars>>
    BY <2>1 DEF kernelVars
  <2>3. KInv' /\ running' \in Members(ready')
    BY <1>0, <2>1, <2>2, KernelStutter DEF schedVars
  <2>4. StartedInv'
    BY <2>1, <2>2, <2>3, StutterKeepsStarted DEF statusVars, sweepVars
  <2>5. Spares(t)
    BY <2>1, <2>2 DEF Spares, threadVars, bootVars, schedVars, waitVars, sweepVars
  <2>6. QED
    BY <2>4, <2>5
<1>5. QED
  BY <1>1, <1>2, <1>3, <1>4 DEF TimerCall, SleepStep

\* Nothing of a thread changes while a clock ticks.
LEMMA ClockTickSpares ==
  ASSUME StartedInv, NEW c \in Clocks, ClockTick(c)
  PROVE  /\ StartedInv' /\ isrPc = "off"
         /\ UNCHANGED <<kernelVars, threadVars>>
<1>1. /\ isrPc = "off" /\ UNCHANGED <<kernelVars, threadVars>>
      /\ isrPc' \in {"expire", "tick"} /\ isrIdx' \in {0, Len(threads)}
  BY DEF ClockTick, AfterClock, IsrGoto
<1>2. KInv'
  BY <1>1, KernelStutter DEF StartedInv
<1>3. UNCHANGED <<bootVars, schedVars, waitVars, statusVars, sweepVars>>
  BY <1>1 DEF kernelVars
<1>4. Len(threads) \in Nat
  BY DEF StartedInv, KInv, KernelTypeOK
<1>5. IsrSound'
  BY <1>1, <1>3, <1>4 DEF StartedInv, IsrSound, bootVars
<1>6. SweepsQuiet'
  BY <1>1, <1>3 DEF StartedInv, SweepsQuiet, threadVars, sweepVars
<1>7. QED
  BY <1>1, <1>2, <1>3, <1>5, <1>6 DEF StartedInv, bootVars, schedVars, statusVars, threadVars

\* The event and the value that the alarm that is due sends.
Sends(ev, r) ==
  \/ Head1.event = CustomTimer /\ ev = TimerEvent[Head1.arg] /\ r = "OS_VOID"
  \/ Head1.event \in Threads \ {Idle} /\ ev = Head1.event /\ r = "event"

LEMMA ExpireKeeps ==
  ASSUME StartedInv, AlarmInv, Expire
  PROVE  /\ StartedInv'
         /\ \E ev \in Events, r \in Rets : Sends(ev, r) /\ SweepStart(Isr, ev, r)
         /\ UNCHANGED <<bootVars, schedVars, waitVars, statusVars>>
         /\ \A c \in Threads : sweep'[c] = sweep[c]
         /\ isrPc' = "fire"
<1>1. Head1 \in Entries
  <2>1. list[isrClock] # <<>> /\ list[isrClock] \in Seq(Entries)
    BY DEF AlarmInv, ArraysOK, Expire, Firing
  <2>2. QED
    BY <2>1 DEF Head1
<1>2. PICK ev \in Events, r \in Rets : Sends(ev, r) /\ SweepStart(Isr, ev, r)
  <2>1. CASE Head1.event = CustomTimer
    <3>1. Head1.arg \in Timers
      BY <1>1, <2>1, TimerAssumption DEF Entries
    <3>2. SweepStart(Isr, TimerEvent[Head1.arg], "OS_VOID")
      BY <2>1 DEF Expire
    <3>3. TimerEvent[Head1.arg] \in Events /\ "OS_VOID" \in Rets
      BY <3>1, TimerAssumption DEF Rets
    <3>4. Sends(TimerEvent[Head1.arg], "OS_VOID")
      BY <2>1 DEF Sends
    <3>5. QED
      BY <3>2, <3>3, <3>4
  <2>2. CASE Head1.event # CustomTimer
    <3>1. Head1.event \in Threads \ {Idle} /\ Head1.arg = "event"
      BY <1>1, <2>2 DEF Entries
    <3>2. SweepStart(Isr, Head1.event, "event")
      BY <2>2, <3>1 DEF Expire
    <3>3. Head1.event \in Events /\ "event" \in Rets
      BY <3>1, TimerAssumption DEF Rets
    <3>4. Sends(Head1.event, "event")
      BY <3>1 DEF Sends
    <3>5. QED
      BY <3>2, <3>3, <3>4
  <2>3. QED
    BY <2>1, <2>2
<1>3. KInv'
  BY <1>2, SweepStartSafe DEF StartedInv, Contexts
<1>4. /\ UNCHANGED <<bootVars, schedVars, waitVars, statusVars, threadVars>>
      /\ \A c \in Threads : sweep'[c] = sweep[c]
      /\ isrPc' = "fire" /\ isrIdx' = 0
  BY <1>2, KernelAssumption DEF Expire, IsrGoto, SweepStart, StartedInv, KInv, KernelTypeOK, Contexts
<1>5. IsrSound' /\ SweepsQuiet'
  BY <1>4 DEF StartedInv, IsrSound, SweepsQuiet, bootVars, threadVars
<1>6. QED
  BY <1>2, <1>3, <1>4, <1>5 DEF StartedInv, bootVars, schedVars, statusVars, threadVars

LEMMA ExpireStepKeeps ==
  ASSUME StartedInv, ExpireStep
  PROVE  /\ StartedInv'
         /\ UNCHANGED <<bootVars, lock, threadVars, isrVars>>
         /\ \A u \in Threads : StepWaits(u) /\ sweep'[u] = sweep[u]
<1>1. SweepStep(Isr) /\ UNCHANGED <<isrVars, threadVars>> /\ isrPc = "fire"
  BY DEF ExpireStep
<1>2. Isr \in Contexts /\ Threads \subseteq Contexts \ {Isr}
  BY KernelAssumption DEF Contexts
<1>3. /\ KInv' /\ running' \in Members(ready')
      /\ UNCHANGED <<bootVars, lock, suspended>>
      /\ \A u \in Contexts \ {Isr} : sweep'[u] = sweep[u]
      /\ \A u \in Threads : StepWaits(u)
  BY <1>1, <1>2, SweepStepWaits
<1>4. \A u \in Threads : sweep'[u] = sweep[u]
  BY <1>2, <1>3
<1>5. IsrSound' /\ SweepsQuiet'
  BY <1>1, <1>3, <1>4 DEF StartedInv, IsrSound, SweepsQuiet, bootVars, threadVars, isrVars
<1>6. QED
  BY <1>1, <1>3, <1>4, <1>5 DEF StartedInv, bootVars, threadVars

LEMMA FiredKeeps ==
  ASSUME StartedInv, Fired
  PROVE  /\ StartedInv'
         /\ UNCHANGED <<bootVars, schedVars, waitVars, statusVars, threadVars>>
         /\ \A u \in Threads : sweep'[u] = sweep[u]
         /\ sweep'[Isr] = NoSweep
<1>1. SweepEnd(Isr) /\ UNCHANGED threadVars /\ isrPc' \in {"expire", "tick"}
      /\ isrIdx' \in {0, Len(threads)}
  BY DEF Fired, AfterClock, IsrGoto
<1>2. Isr \in Contexts /\ Isr \notin Threads
  BY KernelAssumption DEF Contexts
<1>3. KInv'
  BY <1>1, <1>2, SweepEndSafe DEF StartedInv
<1>4. /\ UNCHANGED <<bootVars, schedVars, waitVars, statusVars>>
      /\ \A u \in Threads : sweep'[u] = sweep[u]
      /\ sweep'[Isr] = NoSweep
  BY <1>1, <1>2 DEF SweepEnd, StartedInv, KInv, KernelTypeOK
<1>5. Len(threads) \in Nat
  BY DEF StartedInv, KInv, KernelTypeOK
<1>6. IsrSound' /\ SweepsQuiet'
  BY <1>1, <1>4, <1>5 DEF StartedInv, IsrSound, SweepsQuiet, bootVars, threadVars
<1>7. QED
  BY <1>1, <1>3, <1>4, <1>6 DEF StartedInv, bootVars, schedVars, statusVars, threadVars

\* The invariant of all this together.
LEMMA BaseInit == Init => BaseInv
<1>1. Init => AlarmInv /\ StartedInv
  BY AlarmInit, StartedInitSafe DEF Init
<1>2. Init => lock = 0 /\ WaitsOK
  BY DEF Init, StartedInit, WaitsOK
<1>3. QED
  BY <1>1, <1>2 DEF BaseInv

LEMMA WaitsStutter ==
  ASSUME WaitsOK, \A u \in Threads : (~waiting[u] => ~waiting'[u]) /\ (waiting'[u] => event'[u] = event[u])
  PROVE  WaitsOK'
BY DEF WaitsOK

LEMMA CallsWait ==
  ASSUME BaseInv, NEW t \in Threads \ {Idle}, TimerCall(t)
  PROVE  WaitsOK'
<1>1. /\ WaitsOK /\ waiting \in [Threads -> BOOLEAN]
      /\ event \in [Threads -> Events \cup {NoEvent}] /\ Threads \subseteq Events
  BY TimerAssumption DEF BaseInv, StartedInv, KInv, KernelTypeOK
<1>2. CASE SleepInsert(t)
  <2>1. CASE EventWaitPrepare(t, t)
    BY <1>1, <2>1 DEF EventWaitPrepare, WaitsOK
  <2>2. CASE EventWaitRefused(t, t)
    BY <1>1, <2>2, WaitsStutter DEF EventWaitRefused
  <2>3. QED
    BY <1>2, <2>1, <2>2 DEF SleepInsert
<1>3. CASE SleepPerform(t)
  BY <1>1, <1>3, WaitsStutter DEF SleepPerform, PerformContextSwitch
<1>4. ASSUME UNCHANGED kernelVars PROVE WaitsOK'
  BY <1>1, <1>4, WaitsStutter DEF kernelVars, waitVars
<1>5. CASE Rearm(t) \/ Arm(t)
  BY <1>4, <1>5 DEF Rearm, Arm
<1>6. CASE SleepFull(t) \/ SleepReturn(t)
  BY <1>4, <1>6 DEF SleepFull, SleepReturn
<1>7. CASE \E c \in Clocks, n \in Durations : Sleep(t, c, n)
  BY <1>4, <1>7 DEF Sleep
<1>8. CASE \E x \in Timers :
             (\E n \in Durations, p \in BOOLEAN : StartTimer(t, x, n, p)) \/ StopTimer(t, x)
  BY <1>4, <1>8 DEF StartTimer, StopTimer
<1>9. QED
  BY <1>2, <1>3, <1>5, <1>6, <1>7, <1>8 DEF TimerCall, SleepStep

LEMMA BaseStep ==
  ASSUME BaseInv, [Next]_vars
  PROVE  BaseInv' /\ Refines
<1>0. AlarmInv' /\ Refines /\ AlarmInv /\ StartedInv /\ lock = 0 /\ WaitsOK
  BY AlarmStep DEF BaseInv
<1>1. ASSUME NEW t \in Threads \ {Idle}, TimerCall(t)
      PROVE  BaseInv'
  <2>1. StartedInv' /\ UNCHANGED lock
    BY <1>0, <1>1, TimerCallSpares DEF Spares
  <2>2. QED
    BY <1>0, <1>1, <2>1, CallsWait DEF BaseInv
<1>2. ASSUME StartedInv', lock' = lock, waiting' = waiting, event' = event
      PROVE  BaseInv'
  BY <1>0, <1>2, WaitsStutter DEF BaseInv
<1>3. ASSUME NEW c \in Clocks, ClockTick(c)
      PROVE  BaseInv'
  <2>1. StartedInv' /\ UNCHANGED kernelVars
    BY <1>0, <1>3, ClockTickSpares
  <2>2. QED
    BY <1>2, <2>1 DEF kernelVars, schedVars, waitVars
<1>4. CASE Expire \/ Fired
  <2>1. StartedInv' /\ UNCHANGED <<schedVars, waitVars>>
    BY <1>0, <1>4, ExpireKeeps, FiredKeeps
  <2>2. lock' = lock /\ waiting' = waiting /\ event' = event
    BY <2>1 DEF schedVars, waitVars
  <2>3. QED
    BY <1>0, <1>2, <2>1, <2>2
<1>5. ASSUME StartedInv', UNCHANGED lock, \A u \in Threads : StepWaits(u)
      PROVE  BaseInv'
  BY <1>0, <1>5, WaitsStutter DEF BaseInv, StepWaits
<1>6. CASE ExpireStep
  BY <1>0, <1>5, <1>6, ExpireStepKeeps
<1>7. CASE Kernel
  <2>1. StartedStep
    BY <1>7 DEF Kernel, TickHandler, CancelThread, StartedStep
  <2>2. QED
    BY <1>0, <1>5, <2>1, StartedStepKeeps DEF KeepsObjects
<1>8. CASE UNCHANGED vars
  <2>1. UNCHANGED <<kernelVars, isrVars, threadVars>>
    BY <1>8 DEF vars
  <2>2. UNCHANGED <<bootVars, schedVars, waitVars, statusVars, sweepVars>>
    BY <2>1 DEF kernelVars
  <2>3. KInv'
    BY <1>0, <2>1, KernelStutter DEF StartedInv
  <2>4. StartedInv'
    BY <1>0, <2>1, <2>2, <2>3, StutterKeepsStarted DEF StartedInv, schedVars, statusVars, sweepVars
  <2>5. lock' = lock /\ waiting' = waiting /\ event' = event
    BY <2>2 DEF schedVars, waitVars
  <2>6. QED
    BY <1>0, <1>2, <2>4, <2>5
<1>9. QED
  BY <1>0, <1>1, <1>3, <1>4, <1>6, <1>7, <1>8 DEF Next, TimerCall, ClockHandler

\* OSTimer: whatever calls, cancellations and interrupts insert, remove and fire,
\* the array of differences is the list of deadlines: each alarm goes off at the
\* tick it was set for, and those of the same tick in the order they were set.
THEOREM ArrayKeepsDeadlines == Spec => KeepsDeadlines
<1>1. Init => BaseInv /\ D!Init
  BY BaseInit, AlarmInit
<1>2. BaseInv /\ [Next]_vars => BaseInv' /\ [D!Next]_Deadlines
  BY BaseStep DEF Refines
<1>3. QED
  BY <1>1, <1>2, PTL DEF Spec, KeepsDeadlines, D!Spec

-----------------------------------------------------------------------------
(***************************************************************************)
(* Sleeps.  With a second clock a sleep may be cut short: a wait that is   *)
(* refused when the alarm is in the array already, as the thread was       *)
(* interrupted meanwhile, leaves the alarm there, and the next sleep       *)
(* removes it from its own clock only.                                     *)
(***************************************************************************)

OneClock == Clocks = {Ticks}

\* The clock has an alarm of thread t, n ticks from now.
On(t, n) == HasAlarm(Deadlines, [left |-> n, mark |-> t])

\* While thread t sleeps, no alarm of an earlier sleep is left, the alarm of this
\* one is there unless the sleep is being cancelled, and what has become due comes
\* to the thread.
TimedSleep(t) ==
  /\ pc[t] = "insert" => \A n \in Nat : ~On(t, n)
  /\ pc[t] \in {"perform", "woken"} =>
       /\ \A n \in Nat : On(t, n) => n = left[t]
       /\ waiting[t] => On(t, left[t]) \/ CancellationAhead(t)
       /\ waiting[t] /\ isrPc = "fire" /\ Head1.event = t => AheadIn(Isr, t)
       /\ ~waiting[t] /\ ret[t] = "event" => left[t] = 0

\* Nothing but the alarm that is due sends the event itself.
OnlyAlarmsSend ==
  /\ isrPc = "fire" => Sends(sweep[Isr].ev, sweep[Isr].ret)
  /\ \A c \in Contexts : sweep[c].ret = "event" => c = Isr /\ isrPc = "fire"
  /\ isrPc = "expire" => sweep[Isr] = NoSweep

SleepInv ==
  /\ BaseInv
  /\ left \in [Threads -> Nat]
  /\ OnlyAlarmsSend
  /\ \A t \in Threads : TimedSleep(t)

\* Thread t goes on waiting or not waiting, or an eventNotify wakes it.
WaitsOrWakes(t) ==
  \/ waiting'[t] = waiting[t] /\ event'[t] = event[t] /\ ret'[t] = ret[t]
  \/ /\ waiting[t] /\ ~waiting'[t]
     /\ \E c \in Contexts : sweep[c].ev = event[t] /\ ret'[t] = sweep[c].ret

\* The alarm that is about to go off is due.
LEMMA HeadIsOn ==
  ASSUME AlarmInv, OneClock, NEW t \in Threads \ {Idle},
         isrPc \in {"expire", "fire"}, Head1.event = t
  PROVE  On(t, 0)
<1>1. isrClock = Ticks /\ Firing(Ticks) /\ Ticks \in Clocks
  BY DEF AlarmInv, ArraysOK, OneClock, Firing
<1>2. PICK l \in Seq(Entries) : l = list[Ticks] /\ l # <<>> /\ l[1].ticks = 0
  BY <1>1 DEF AlarmInv, ArraysOK
<1>3. Deadlines = DeadlinesOf(l) /\ Len(Deadlines) = Len(l)
  BY <1>2, Arrays DEF AlarmInv
<1>4. 1 \in 1..Len(l) /\ l[1] \in Entries /\ l[1].event = t
  BY <1>1, <1>2 DEF Head1
<1>5. Due(l, 1) = 0
  BY <1>2, TailDeadlines
<1>6. Mark(l[1]) = t
  BY <1>4, ThreadEntry
<1>7. Deadlines[1] = [left |-> 0, mark |-> t]
  BY <1>3, <1>4, <1>5, <1>6 DEF DeadlinesOf
<1>8. QED
  BY <1>3, <1>4, <1>7 DEF On, HasAlarm

\* A thread's alarm that is due is about to go off.
LEMMA OnIsFiring ==
  ASSUME AlarmInv, OneClock, NEW t, On(t, 0)
  PROVE  isrPc \in {"expire", "fire"}
<1>1. Ticks \in Clocks /\ list[Ticks] \in Seq(Entries) /\ Deadlines = DeadlinesOf(list[Ticks])
  BY Arrays DEF AlarmInv
<1>2. ~NoneDue(list[Ticks])
  BY <1>1, FirstIsDue DEF On
<1>3. QED
  BY <1>1, <1>2 DEF AlarmInv, ArraysOK, Firing

\* A cancellation that is on its way to a thread that waits stays on its way.
LEMMA CancellationComes ==
  ASSUME StartedInv, WaitsOK, NEW c \in Contexts, NEW rets, SweepMoves(c, rets),
         NEW t \in Threads, waiting[t], waiting'[t], CancellationAhead(t)
  PROVE  CancellationAhead(t)'
<1>1. PICK d \in Contexts : sweep[d].ev = t /\ sweep[d].ret = "OS_CANCELLED" /\ AheadIn(d, t)
  BY DEF CancellationAhead
<1>2. KInv /\ ~suspended[t] /\ event[t] = t /\ t \in Events
  BY TimerAssumption DEF StartedInv, WaitsOK
<1>3. sweep'[d].ev = t /\ AheadIn(d, t)'
  BY <1>1, <1>2, AheadComes
<1>4. sweep'[d].ret = "OS_CANCELLED"
  <2>1. CASE sweep'[d] = sweep[d]
    BY <1>1, <2>1
  <2>2. CASE d = c /\ sweep[c] = NoSweep
    BY <1>1, <1>2, <2>2, KernelAssumption DEF NoSweep
  <2>3. CASE d = c /\ SweepStep(c)
    BY <1>1, <1>2, <2>3, SweepStepThread
  <2>4. CASE d = c /\ SweepEnd(c)
    BY <1>1, <1>2, <2>4, SweepDoneAhead DEF SweepEnd
  <2>5. QED
    BY <2>1, <2>2, <2>3, <2>4 DEF SweepMoves
<1>5. QED
  BY <1>3, <1>4 DEF CancellationAhead, AheadIn

LEMMA CancellationStays ==
  ASSUME UNCHANGED <<threads, sweep>>, NEW t
  PROVE  CancellationAhead(t)' <=> CancellationAhead(t)
BY DEF CancellationAhead, AheadIn

\* A thread that another step leaves alone sleeps on: its alarm may go with the
\* start of a cancellation only.
LEMMA SleepsOn ==
  ASSUME SleepInv, OneClock, NEW t \in Threads,
         pc'[t] = pc[t] \/ pc'[t] \notin Sleeping,
         \A n \in Nat : On(t, n)' => On(t, n),
         \A n \in Nat : waiting'[t] /\ On(t, n) => On(t, n)' \/ CancellationAhead(t)',
         left'[t] = left[t], WaitsOrWakes(t), NEW b \in Contexts, NEW rets, SweepMoves(b, rets),
         isrPc' = "fire" => (Head1' = Head1 /\ (waiting[t] /\ Head1.event = t => ~waiting'[t] \/ AheadIn(Isr, t)'))
  PROVE  TimedSleep(t)'
<1>1. CASE pc'[t] \notin Sleeping
  BY <1>1 DEF TimedSleep, Sleeping
<1>2. CASE pc'[t] = pc[t] /\ pc[t] = "insert"
  BY <1>2 DEF SleepInv, TimedSleep
<1>3. CASE pc'[t] = pc[t] /\ pc[t] \in {"perform", "woken"}
  <2>1. /\ t # Idle /\ left[t] \in Nat /\ waiting[t] \in BOOLEAN
        /\ StartedInv /\ WaitsOK
        /\ \A n \in Nat : On(t, n) => n = left[t]
        /\ waiting[t] => event[t] = t /\ (On(t, left[t]) \/ CancellationAhead(t))
        /\ ~waiting[t] /\ ret[t] = "event" => left[t] = 0
    BY <1>3 DEF SleepInv, BaseInv, WaitsOK, TimedSleep, AlarmInv, CallsOK, StartedInv, KInv, KernelTypeOK
  <2>2. \A n \in Nat : On(t, n)' => n = left'[t]
    BY <2>1
  <2>3. CASE waiting'[t] = waiting[t] /\ event'[t] = event[t] /\ ret'[t] = ret[t]
    <3>1. PICK n \in Nat : n = left[t]
      BY <2>1
    <3>2. waiting'[t] => On(t, n)' \/ CancellationAhead(t)'
      BY <2>1, <2>3, <3>1, CancellationComes
    <3>3. waiting'[t] => On(t, left[t])' \/ CancellationAhead(t)'
      BY <3>1, <3>2
    <3>4. waiting'[t] /\ isrPc' = "fire" /\ Head1'.event = t => AheadIn(Isr, t)'
      BY <2>3
    <3>5. QED
      BY <1>3, <2>1, <2>2, <2>3, <3>3, <3>4 DEF TimedSleep
  <2>4. ASSUME waiting[t], ~waiting'[t],
               NEW c \in Contexts, sweep[c].ev = event[t], ret'[t] = sweep[c].ret
        PROVE  TimedSleep(t)'
    <3>1. ASSUME ret'[t] = "event" PROVE left'[t] = 0
      <4>1. c = Isr /\ isrPc = "fire" /\ Sends(t, "event")
        BY <2>1, <2>4, <3>1 DEF SleepInv, OnlyAlarmsSend
      <4>2. Head1.event = t
        BY <4>1 DEF Sends
      <4>3. On(t, 0)
        BY <2>1, <4>1, <4>2, HeadIsOn DEF SleepInv, BaseInv
      <4>4. QED
        BY <2>1, <4>3
    <3>2. QED
      BY <1>3, <2>2, <2>4, <3>1 DEF TimedSleep
  <2>5. QED
    BY <2>3, <2>4 DEF WaitsOrWakes
<1>4. QED
  BY <1>1, <1>2, <1>3 DEF Sleeping
-----------------------------------------------------------------------------
(***************************************************************************)
(* What the calls of a thread do to the alarms.                            *)
(***************************************************************************)

LEMMA CancelledAlarms ==
  ASSUME ArraysOK, NEW group, Deadlines' = D!Without(Deadlines, group), NEW u, NEW n \in Nat
  PROVE  On(u, n)' <=> On(u, n) /\ u \notin group
<1>1. Deadlines \in Seq(D!Alarms)
  BY Arrays, DeadlinesType
<1>2. HasAlarm(D!Without(Deadlines, group), [left |-> n, mark |-> u])
        <=> HasAlarm(Deadlines, [left |-> n, mark |-> u]) /\ [left |-> n, mark |-> u].mark \notin group
  BY <1>1, WithoutHas
<1>3. QED
  BY <1>2 DEF On, HasAlarm

LEMMA SetAlarms ==
  ASSUME ArraysOK, NEW n \in Nat, NEW mark, Deadlines' = D!Put(Deadlines, [left |-> n, mark |-> mark]),
         NEW u, NEW k \in Nat
  PROVE  On(u, k)' <=> On(u, k) \/ (k = n /\ u = mark)
<1>1. Deadlines = DeadlinesOf(list[Ticks]) /\ list[Ticks] \in Seq(Entries)
  BY Arrays
<1>2. HasAlarm(D!Put(DeadlinesOf(list[Ticks]), [left |-> n, mark |-> mark]), [left |-> k, mark |-> u])
        <=> \/ HasAlarm(DeadlinesOf(list[Ticks]), [left |-> k, mark |-> u])
            \/ [left |-> k, mark |-> u] = [left |-> n, mark |-> mark]
  BY <1>1, PutHas
<1>3. [left |-> k, mark |-> u] = [left |-> n, mark |-> mark] <=> k = n /\ u = mark
  OBVIOUS
<1>4. QED
  BY <1>1, <1>2, <1>3 DEF On, HasAlarm

LEMMA SameAlarms ==
  ASSUME UNCHANGED list, NEW u, NEW n
  PROVE  On(u, n)' <=> On(u, n)
BY DEF On, HasAlarm, Deadlines

\* sleep begins by removing the alarms of the thread.
LEMMA SleepAlarms ==
  ASSUME AlarmInv, NEW t \in Threads \ {Idle}, NEW c \in Clocks, NEW m \in Durations,
         Sleep(t, c, m), NEW u, NEW n \in Nat
  PROVE  On(u, n)' <=> On(u, n) /\ ~(u = t /\ c = Ticks)
<1>1. isrPc = "off" /\ SetList(c, RemoveEvent(list[c], t)) /\ UNCHANGED <<isrPc, isrClock>>
  BY DEF Sleep, Free, At, Goto, isrVars
<1>2. ArraysOK /\ {t} \in Groups /\ \A e \in Entries : Mark(e) \in {t} <=> e.event = t
  BY ThreadEntry DEF AlarmInv
<1>3. /\ c = Ticks => Deadlines' = D!Without(Deadlines, {t})
      /\ c # Ticks => UNCHANGED Deadlines
  BY <1>1, <1>2, CancelRefines
<1>4. CASE c = Ticks
  BY <1>2, <1>3, <1>4, CancelledAlarms
<1>5. CASE c # Ticks
  BY <1>3, <1>5 DEF On, HasAlarm
<1>6. QED
  BY <1>4, <1>5

\* Then it sets one.
LEMMA SleepInsertAlarms ==
  ASSUME AlarmInv, NEW t \in Threads \ {Idle}, SleepInsert(t), NEW u, NEW n \in Nat
  PROVE  On(u, n)' <=> On(u, n) \/ (n = call[t].ticks /\ u = t /\ call[t].clock = Ticks)
<1>1. PICK m \in Durations, c \in Clocks : m = call[t].ticks /\ c = call[t].clock
  BY DEF AlarmInv, CallsOK, SleepInsert, At
<1>2. /\ isrPc = "off" /\ Len(list[c]) < Size
      /\ SetList(c, InsertAlarm(list[c], m, t, "event"))
      /\ UNCHANGED <<isrPc, isrClock>> /\ ArraysOK
  BY <1>1 DEF SleepInsert, At, Goto, Return, isrVars, AlarmInv
<1>3. /\ \A k \in Nat : [ticks |-> k, event |-> t, arg |-> "event"] \in Entries
      /\ \A k \in Nat : Mark([ticks |-> k, event |-> t, arg |-> "event"]) = t
      /\ t \in UNION Groups
  BY ThreadEntry
<1>4. /\ c = Ticks => Deadlines' = D!Put(Deadlines, [left |-> m, mark |-> t])
      /\ c # Ticks => UNCHANGED Deadlines
  BY <1>2, <1>3, SetRefines
<1>5. m \in Nat
  BY TimerAssumption
<1>6. CASE c = Ticks
  BY <1>1, <1>2, <1>4, <1>5, <1>6, SetAlarms
<1>7. CASE c # Ticks
  BY <1>1, <1>4, <1>7 DEF On, HasAlarm
<1>8. QED
  BY <1>6, <1>7

\* start of a timer replaces alarms of timers.
LEMMA ArmAlarms ==
  ASSUME AlarmInv, NEW t \in Threads \ {Idle}, Rearm(t) \/ Arm(t),
         NEW u \in Threads, NEW n \in Nat
  PROVE  On(u, n)' <=> On(u, n)
<1>0. u \notin Timers /\ Ticks \in Clocks /\ ArraysOK
  BY TimerAssumption DEF AlarmInv
<1>1. CASE Rearm(t)
  <2>1. isrPc = "off" /\ SetList(Ticks, RemoveEvent(list[Ticks], CustomTimer))
        /\ UNCHANGED <<isrPc, isrClock>>
    BY <1>1 DEF Rearm, At, Goto, isrVars
  <2>2. Timers \in Groups /\ \A e \in Entries : Mark(e) \in Timers <=> e.event = CustomTimer
    BY TimerEntry
  <2>3. Deadlines' = D!Without(Deadlines, Timers)
    BY <1>0, <2>1, <2>2, CancelRefines
  <2>4. QED
    BY <1>0, <2>3, CancelledAlarms
<1>2. CASE Arm(t)
  <2>1. PICK x \in Timers, m \in Durations : x = call[t].timer /\ m = call[t].ticks
    BY <1>2 DEF AlarmInv, CallsOK, Arm, At
  <2>2. isrPc = "off" /\ UNCHANGED <<isrPc, isrClock>>
    BY <1>2 DEF Arm, At, Return, Goto, isrVars
  <2>3. CASE Len(list[Ticks]) < Size /\ SetList(Ticks, InsertAlarm(list[Ticks], m, CustomTimer, x))
    <3>1. SetList(Ticks, InsertAlarm(list[Ticks], m, CustomTimer, x))
      BY <2>3
    <3>2. /\ \A k \in Nat : [ticks |-> k, event |-> CustomTimer, arg |-> x] \in Entries
          /\ \A k \in Nat : Mark([ticks |-> k, event |-> CustomTimer, arg |-> x]) = x
          /\ x \in UNION Groups
      BY TimerEntry
    <3>3. Deadlines' = D!Put(Deadlines, [left |-> m, mark |-> x])
      BY <1>0, <2>2, <2>3, <3>1, <3>2, SetRefines
    <3>4. m \in Nat /\ u # x
      BY <1>0, TimerAssumption
    <3>5. QED
      BY <1>0, <3>3, <3>4, SetAlarms
  <2>4. CASE UNCHANGED list
    BY <2>4, SameAlarms
  <2>5. QED
    BY <1>2, <2>1, <2>3, <2>4 DEF Arm
<1>3. QED
  BY <1>1, <1>2

\* A tick: what is due in n + 1 ticks is due in n.
LEMMA TickAlarms ==
  ASSUME AlarmInv, NEW c \in Clocks, ClockTick(c), NEW u, NEW n \in Nat
  PROVE  /\ c = Ticks => (On(u, n)' <=> On(u, n + 1))
         /\ c # Ticks => (On(u, n)' <=> On(u, n))
         /\ ~On(u, 0)
<1>1. isrPc = "off" /\ Ticks \in Clocks /\ ArraysOK
  BY TimerAssumption DEF ClockTick, AlarmInv
<1>2. PICK l \in Seq(Entries) : l = list[Ticks] /\ NoneDue(l)
  BY <1>1 DEF ArraysOK, Firing
<1>3. Deadlines = DeadlinesOf(l) /\ Len(Deadlines) = Len(l) /\ Deadlines \in Seq(D!Alarms)
  BY <1>1, <1>2, Arrays, DeadlinesType
<1>4. ~On(u, 0)
  BY <1>2, <1>3, FirstIsDue DEF On
<1>5. CASE c = Ticks /\ l = <<>>
  <2>1. UNCHANGED list
    BY <1>2, <1>5 DEF ClockTick
  <2>2. UNCHANGED Deadlines
    BY <2>1 DEF Deadlines
  <2>3. Len(Deadlines) = 0
    BY <1>3, <1>5
  <2>4. QED
    BY <1>4, <1>5, <2>2, <2>3 DEF On, HasAlarm
<1>6. CASE c = Ticks /\ l # <<>>
  <2>1. PICK m \in Seq(Entries) : m = CountDown(l)
    BY <1>2, <1>6, CountDownEntries
  <2>2. SetList(Ticks, m)
    BY <1>1, <1>2, <1>6, <2>1 DEF ClockTick
  <2>3. Deadlines' = DeadlinesOf(m)
    BY <1>1, <2>2, ArrayMoves
  <2>4. DeadlinesOf(m) = [j \in 1..Len(l) |-> [DeadlinesOf(l)[j] EXCEPT !.left = @ - 1]]
    BY <1>2, <1>6, <2>1, CountDownDeadlines
  <2>5. PICK a \in Seq(D!Alarms) : a = Deadlines /\ Len(a) = Len(l)
    BY <1>3
  <2>6. PICK b : b = Deadlines' /\ b = [j \in 1..Len(l) |-> [a[j] EXCEPT !.left = @ - 1]]
    BY <1>3, <2>3, <2>4, <2>5
  <2>7. Len(b) = Len(a) /\ \A j \in 1..Len(a) : b[j] = [a[j] EXCEPT !.left = a[j].left - 1]
    BY <2>5, <2>6
  <2>8. ASSUME NEW j \in 1..Len(a)
        PROVE  b[j] = [left |-> n, mark |-> u] <=> a[j] = [left |-> n + 1, mark |-> u]
    <3>1. a[j] \in D!Alarms
      OBVIOUS
    <3>2. PICK k \in Nat, x \in D!Marks : a[j] = [left |-> k, mark |-> x]
      BY <3>1 DEF D!Alarms
    <3>3. b[j] = [left |-> k - 1, mark |-> x]
      BY <2>7, <3>2
    <3>4. QED
      BY <3>2, <3>3
  <2>9. QED
    BY ZenonT(40), <1>4, <1>6, <2>5, <2>6, <2>7, <2>8 DEF On, HasAlarm
<1>7. CASE c # Ticks
  <2>1. UNCHANGED Deadlines
    <3>1. CASE UNCHANGED list
      BY <3>1 DEF Deadlines
    <3>2. CASE list[c] # <<>>
      <4>1. NoneDue(list[c]) /\ list[c] \in Seq(Entries)
        BY <1>1, Arrays DEF ArraysOK, Firing
      <4>2. CountDown(list[c]) \in Seq(Entries)
        BY <3>2, <4>1, CountDownEntries
      <4>3. SetList(c, CountDown(list[c]))
        BY <3>2 DEF ClockTick
      <4>4. QED
        BY <1>1, <1>7, <4>2, <4>3, ArrayMoves
    <3>3. QED
      BY <3>1, <3>2 DEF ClockTick
  <2>2. QED
    BY <1>4, <1>7, <2>1 DEF On, HasAlarm
<1>8. QED
  BY <1>5, <1>6, <1>7

\* A thread's calls leave the alarms of the other threads as they are.
LEMMA OthersAlarms ==
  ASSUME AlarmInv, NEW t \in Threads \ {Idle}, TimerCall(t),
         NEW u \in Threads \ {t}, NEW n \in Nat
  PROVE  On(u, n)' <=> On(u, n)
<1>1. CASE \E c \in Clocks, m \in Durations : Sleep(t, c, m)
  BY <1>1, SleepAlarms
<1>2. CASE SleepInsert(t)
  BY <1>2, SleepInsertAlarms
<1>3. CASE Rearm(t) \/ Arm(t)
  BY <1>3, ArmAlarms
<1>4. CASE \/ SleepFull(t) \/ SleepPerform(t) \/ SleepReturn(t)
           \/ \E x \in Timers :
                (\E m \in Durations, p \in BOOLEAN : StartTimer(t, x, m, p)) \/ StopTimer(t, x)
  <2>1. UNCHANGED list
    BY <1>4 DEF SleepFull, SleepPerform, SleepReturn, StartTimer, StopTimer, clockVars
  <2>2. QED
    BY <2>1, SameAlarms
<1>5. QED
  BY <1>1, <1>2, <1>3, <1>4 DEF TimerCall, SleepStep

\* And the ticks they have left.
LEMMA CallLeft ==
  ASSUME SleepInv, NEW t \in Threads \ {Idle}, TimerCall(t)
  PROVE  /\ left' \in [Threads -> Nat]
         /\ \A u \in Threads \ {t} : left'[u] = left[u]
<1>1. left \in [Threads -> Nat]
  BY DEF SleepInv, BaseInv
<1>2. CASE SleepInsert(t)
  <2>1. call[t].ticks \in Nat
    BY <1>2, TimerAssumption DEF SleepInv, BaseInv, AlarmInv, CallsOK, SleepInsert, At
  <2>2. left' = [left EXCEPT ![t] = call[t].ticks] \/ left' = left
    BY <1>2 DEF SleepInsert
  <2>3. QED
    BY <1>1, <2>1, <2>2
<1>3. CASE SleepReturn(t)
  BY <1>1, <1>3 DEF SleepReturn
<1>4. ASSUME UNCHANGED left
      PROVE  left' \in [Threads -> Nat] /\ \A u \in Threads \ {t} : left'[u] = left[u]
  BY <1>1, <1>4
<1>5. CASE Rearm(t) \/ Arm(t)
  BY <1>4, <1>5 DEF Rearm, Arm
<1>6. CASE SleepFull(t) \/ SleepPerform(t)
  BY <1>4, <1>6 DEF SleepFull, SleepPerform, historyVars
<1>7. CASE \E c \in Clocks, n \in Durations : Sleep(t, c, n)
  BY <1>4, <1>7 DEF Sleep, historyVars
<1>8. CASE \E x \in Timers :
             (\E n \in Durations, p \in BOOLEAN : StartTimer(t, x, n, p)) \/ StopTimer(t, x)
  BY <1>4, <1>8 DEF StartTimer, StopTimer, historyVars
<1>9. QED
  BY <1>2, <1>3, <1>5, <1>6, <1>7, <1>8 DEF TimerCall, SleepStep

\* The thread itself.
LEMMA CallersSleep ==
  ASSUME SleepInv, OneClock, NEW t \in Threads \ {Idle}, TimerCall(t)
  PROVE  TimedSleep(t)'
<1>0. /\ AlarmInv /\ StartedInv /\ lock = 0 /\ DOMAIN pc = Threads
      /\ left \in [Threads -> Nat] /\ waiting \in [Threads -> BOOLEAN]
      /\ event \in [Threads -> Events \cup {NoEvent}] /\ TimedSleep(t)
  BY DEF SleepInv, BaseInv, AlarmInv, CallsOK, StartedInv, KInv, KernelTypeOK
<1>1. ASSUME NEW c \in Clocks, NEW m \in Durations, Sleep(t, c, m)
      PROVE  TimedSleep(t)'
  <2>1. pc'[t] = "insert"
    BY <1>0, <1>1 DEF Sleep, Goto
  <2>2. \A n \in Nat : ~On(t, n)'
    BY <1>0, <1>1, SleepAlarms DEF OneClock
  <2>3. QED
    BY <2>1, <2>2 DEF TimedSleep
<1>2. CASE SleepInsert(t)
  <2>1. CASE EventWaitPrepare(t, t) /\ left' = [left EXCEPT ![t] = call[t].ticks] /\ Goto(t, "perform")
    <3>1. /\ pc'[t] = "perform" /\ isrPc' = "off" /\ pc[t] = "insert"
          /\ waiting'[t] = TRUE /\ event'[t] = t /\ left'[t] = call[t].ticks
      BY <1>0, <1>2, <2>1 DEF Goto, EventWaitPrepare, SleepInsert, At, isrVars
    <3>2. call[t].ticks \in Nat
      BY <1>0, <3>1, TimerAssumption DEF AlarmInv, CallsOK
    <3>3. \A n \in Nat : On(t, n)' <=> n = left'[t]
      <4>1. call[t].clock = Ticks
        BY <1>0, <3>1 DEF AlarmInv, CallsOK, OneClock
      <4>2. QED
        BY <1>0, <1>2, <3>1, <4>1, SleepInsertAlarms DEF TimedSleep
    <3>4. On(t, left[t])'
      BY <3>1, <3>2, <3>3
    <3>5. QED
      BY <3>1, <3>3, <3>4 DEF TimedSleep
  <2>2. CASE Return(t, "main")
    <3>1. pc'[t] = "main"
      BY <1>0, <2>2 DEF Return, Goto
    <3>2. QED
      BY <3>1 DEF TimedSleep
  <2>3. QED
    BY <1>2, <2>1, <2>2 DEF SleepInsert
<1>3. CASE SleepPerform(t)
  <2>1. /\ pc[t] = "perform" /\ pc'[t] = "woken" /\ isrPc' = "off" /\ UNCHANGED <<list, left>>
        /\ UNCHANGED <<waiting, event, ret, threads, sweep>>
    BY <1>0, <1>3 DEF SleepPerform, At, Goto, PerformContextSwitch, clockVars, historyVars, isrVars,
      bootVars, sweepVars
  <2>2. \A n : On(t, n)' <=> On(t, n)
    BY <2>1, SameAlarms
  <2>3. left[t] \in Nat
    BY <1>0
  <2>4. waiting[t] => On(t, left[t])' \/ CancellationAhead(t)'
    BY <1>0, <2>1, <2>2, CancellationStays DEF TimedSleep
  <2>5. \A n \in Nat : On(t, n)' => n = left[t]
    BY <1>0, <2>1, <2>2 DEF TimedSleep
  <2>6. QED
    BY <1>0, <2>1, <2>4, <2>5 DEF TimedSleep
<1>4. CASE \/ SleepFull(t) \/ SleepReturn(t) \/ Rearm(t) \/ Arm(t)
           \/ \E x \in Timers :
                (\E m \in Durations, p \in BOOLEAN : StartTimer(t, x, m, p)) \/ StopTimer(t, x)
  <2>1. pc'[t] \in {"main", "rearm", "arm"}
    BY <1>0, <1>4 DEF SleepFull, SleepReturn, Rearm, Arm, StartTimer, StopTimer, Return, Goto, Free, At,
      threadVars
  <2>2. QED
    BY <2>1 DEF TimedSleep
<1>5. QED
  BY <1>1, <1>2, <1>3, <1>4 DEF TimerCall, SleepStep
-----------------------------------------------------------------------------
(***************************************************************************)
(* Every step keeps the invariant of the sleeps.                           *)
(***************************************************************************)

LEMMA TimerCallSleeps ==
  ASSUME SleepInv, OneClock, BaseInv', NEW t \in Threads \ {Idle}, TimerCall(t)
  PROVE  SleepInv'
<1>1. StartedInv' /\ Spares(t)
  BY TimerCallSpares DEF SleepInv, BaseInv
<1>2. /\ left' \in [Threads -> Nat]
      /\ \A u \in Threads \ {t} : left'[u] = left[u]
  BY CallLeft
<1>3. isrPc' = "off" /\ sweep' = sweep
  BY <1>1 DEF Spares, isrVars
<1>4. OnlyAlarmsSend'
  BY <1>1, <1>3 DEF SleepInv, BaseInv, OnlyAlarmsSend, Spares
<1>5. ASSUME NEW u \in Threads, u # t PROVE TimedSleep(u)'
  <2>1. pc'[u] = pc[u] /\ WaitsOrWakes(u)
    BY <1>1, <1>5 DEF Spares, WaitsOrWakes
  <2>2. \A n \in Nat : On(u, n)' <=> On(u, n)
    BY <1>5, OthersAlarms DEF SleepInv, BaseInv
  <2>3. Isr \in Contexts /\ SweepMoves(Isr, {})
    BY <1>1 DEF Contexts, SweepMoves, Spares
  <2>4. QED
    BY <1>2, <1>3, <1>5, <2>1, <2>2, <2>3, SleepsOn
<1>6. TimedSleep(t)'
  BY CallersSleep
<1>7. QED
  BY <1>1, <1>2, <1>3, <1>4, <1>5, <1>6 DEF SleepInv, BaseInv

LEMMA ClockTickSleeps ==
  ASSUME SleepInv, OneClock, BaseInv', NEW c \in Clocks, ClockTick(c)
  PROVE  SleepInv'
<1>1. StartedInv' /\ isrPc = "off" /\ UNCHANGED <<kernelVars, threadVars>>
  BY ClockTickSpares DEF SleepInv, BaseInv
<1>2. isrPc' \in {"expire", "tick"} /\ c = Ticks
  BY DEF ClockTick, AfterClock, IsrGoto, OneClock
<1>3. UNCHANGED <<sweep, waiting, event, ret, pc, threads>>
  BY <1>1 DEF kernelVars, threadVars, waitVars, sweepVars, bootVars
<1>4. OnlyAlarmsSend'
  BY <1>1, <1>2, <1>3 DEF SleepInv, BaseInv, OnlyAlarmsSend, StartedInv, SweepsQuiet
<1>5. /\ left' = [t \in Threads |-> IF call[t].clock = c /\ left[t] > 0 THEN left[t] - 1 ELSE left[t]]
      /\ left \in [Threads -> Nat]
  BY DEF ClockTick, SleepInv
<1>6. left' \in [Threads -> Nat]
  <2>1. \A t \in Threads : (IF call[t].clock = c /\ left[t] > 0 THEN left[t] - 1 ELSE left[t]) \in Nat
    BY <1>5
  <2>2. QED
    BY <1>5, <2>1
<1>7. ASSUME NEW t \in Threads PROVE TimedSleep(t)'
  <2>1. \A n \in Nat : (On(t, n)' <=> On(t, n + 1)) /\ ~On(t, 0)
    BY <1>2, TickAlarms DEF SleepInv, BaseInv
  <2>2. CASE pc[t] = "insert"
    <3>1. \A n \in Nat : ~On(t, n + 1)
      BY <2>2 DEF SleepInv, BaseInv, TimedSleep
    <3>2. QED
      BY <1>3, <2>1, <2>2, <3>1 DEF TimedSleep
  <2>3. CASE pc[t] \in {"perform", "woken"}
    <3>1. call[t].clock = c
      BY <1>2, <2>3 DEF SleepInv, BaseInv, AlarmInv, CallsOK, OneClock
    <3>2. left'[t] = (IF left[t] > 0 THEN left[t] - 1 ELSE left[t]) /\ left[t] \in Nat
      BY <1>5, <3>1
    <3>3. /\ \A n \in Nat : On(t, n) => n = left[t]
          /\ waiting[t] => On(t, left[t]) \/ CancellationAhead(t)
          /\ ~waiting[t] /\ ret[t] = "event" => left[t] = 0
      BY <2>3 DEF SleepInv, TimedSleep
    <3>4. \A n \in Nat : On(t, n)' => n = left'[t]
      BY <2>1, <3>2, <3>3
    <3>5. ASSUME waiting[t], On(t, left[t]) PROVE On(t, left[t])'
      <4>1. left[t] # 0
        BY <2>1, <3>3, <3>5
      <4>2. left'[t] \in Nat /\ left'[t] + 1 = left[t]
        BY <3>2, <4>1
      <4>3. PICK n \in Nat : n = left'[t]
        BY <4>2
      <4>4. On(t, n)' <=> On(t, n + 1)
        BY <2>1
      <4>5. On(t, n)'
        BY <3>3, <3>5, <4>2, <4>3, <4>4
      <4>6. QED
        BY <4>3, <4>5
    <3>6. CancellationAhead(t)' <=> CancellationAhead(t)
      BY <1>3, CancellationStays
    <3>7. QED
      BY <1>2, <1>3, <2>3, <3>2, <3>3, <3>4, <3>5, <3>6 DEF TimedSleep
  <2>4. CASE pc[t] \notin Sleeping
    BY <1>3, <2>4 DEF TimedSleep, Sleeping
  <2>5. QED
    BY <2>2, <2>3, <2>4 DEF Sleeping
<1>8. QED
  BY <1>4, <1>6, <1>7 DEF SleepInv

LEMMA ExpireSleeps ==
  ASSUME SleepInv, OneClock, BaseInv', Expire
  PROVE  SleepInv'
<1>1. /\ StartedInv' /\ isrPc' = "fire"
      /\ UNCHANGED <<bootVars, schedVars, waitVars, statusVars>>
      /\ \A c \in Threads : sweep'[c] = sweep[c]
  BY ExpireKeeps DEF SleepInv, BaseInv
<1>2. PICK ev \in Events, r \in Rets : Sends(ev, r) /\ SweepStart(Isr, ev, r)
  BY ExpireKeeps DEF SleepInv, BaseInv
<1>3. isrPc = "expire" /\ UNCHANGED <<pc, list, isrClock, left>>
  BY DEF Expire, threadVars, clockVars, historyVars
<1>4. Head1' = Head1
  BY <1>3 DEF Head1
<1>5. Isr \in Contexts /\ sweep \in [Contexts -> Sweeps] /\ KInv /\ Isr \notin Threads
  BY KernelAssumption DEF SleepInv, BaseInv, StartedInv, KInv, KernelTypeOK, Contexts
<1>6. sweep'[Isr].ev = ev /\ sweep'[Isr].ret = r
  BY <1>2, <1>5 DEF SweepStart, NoSweep
<1>7. OnlyAlarmsSend'
  <2>1. Sends(sweep[Isr].ev, sweep[Isr].ret)'
    BY <1>2, <1>4, <1>6 DEF Sends
  <2>2. \A c \in Contexts : sweep'[c].ret = "event" => c = Isr
    BY <1>1, <1>3 DEF SleepInv, BaseInv, OnlyAlarmsSend, Contexts
  <2>3. QED
    BY <1>1, <2>1, <2>2 DEF OnlyAlarmsSend
<1>8. SweepMoves(Isr, {r})
  BY <1>1, <1>3, <1>5, <1>6 DEF SweepMoves, SleepInv, OnlyAlarmsSend, Contexts, bootVars
<1>9. ASSUME NEW t \in Threads PROVE TimedSleep(t)'
  <2>1. t \in Registered
    BY StartedAssumption DEF SleepInv, BaseInv, StartedInv, Registered
  <2>2. AheadIn(Isr, t)'
    BY <1>2, <1>5, <2>1, SweepStartAhead
  <2>3. WaitsOrWakes(t) /\ pc'[t] = pc[t] /\ left'[t] = left[t]
    BY <1>1, <1>3 DEF WaitsOrWakes, waitVars
  <2>4. \A n \in Nat : On(t, n)' <=> On(t, n)
    BY <1>3, SameAlarms
  <2>5. QED
    BY <1>4, <1>5, <1>8, <2>2, <2>3, <2>4, SleepsOn
<1>10. QED
  BY <1>3, <1>7, <1>9 DEF SleepInv

LEMMA ExpireStepSleeps ==
  ASSUME SleepInv, OneClock, BaseInv', ExpireStep
  PROVE  SleepInv'
<1>1. /\ StartedInv' /\ UNCHANGED <<bootVars, lock, threadVars, isrVars>>
      /\ \A u \in Threads : StepWaits(u) /\ sweep'[u] = sweep[u]
  BY ExpireStepKeeps DEF SleepInv, BaseInv
<1>2. /\ isrPc = "fire" /\ isrPc' = "fire" /\ SweepStep(Isr) /\ UNCHANGED <<pc, list, isrClock, left>>
  BY DEF ExpireStep, threadVars, clockVars, historyVars, isrVars
<1>3. Head1' = Head1
  BY <1>2 DEF Head1
<1>4. Isr \in Contexts /\ Threads \subseteq Contexts \ {Isr} /\ KInv /\ lock = 0
  BY KernelAssumption DEF SleepInv, BaseInv, StartedInv, Contexts
<1>5. sweep'[Isr].ev = sweep[Isr].ev /\ sweep'[Isr].ret = sweep[Isr].ret
  BY <1>2, <1>4, SweepStepThread
<1>6. OnlyAlarmsSend'
  BY <1>1, <1>2, <1>3, <1>5 DEF SleepInv, BaseInv, OnlyAlarmsSend, Sends, Contexts
<1>7. SweepMoves(Isr, {})
  BY <1>1, <1>2, <1>4 DEF SweepMoves, bootVars, Contexts
<1>8. ASSUME NEW t \in Threads PROVE TimedSleep(t)'
  <2>1. WaitsOrWakes(t) /\ pc'[t] = pc[t] /\ left'[t] = left[t]
    BY <1>1, <1>2, <1>4 DEF StepWaits, WaitsOrWakes
  <2>2. \A n \in Nat : On(t, n)' <=> On(t, n)
    BY <1>2, SameAlarms
  <2>3. CASE pc[t] \notin {"perform", "woken"}
    BY <1>2, <2>2, <2>3 DEF SleepInv, TimedSleep
  <2>4. CASE pc[t] \in {"perform", "woken"}
    <3>1. ASSUME waiting[t], Head1.event = t PROVE ~waiting'[t] \/ AheadIn(Isr, t)'
      <4>1. event[t] = t /\ AheadIn(Isr, t) /\ ~suspended[t] /\ t \in Events
        BY <1>2, <2>4, <3>1, TimerAssumption DEF SleepInv, BaseInv, WaitsOK, TimedSleep, StartedInv
      <4>2. sweep[Isr].ev = t
        <5>1. t # CustomTimer
          BY TimerAssumption
        <5>2. QED
          BY <1>2, <3>1, <5>1 DEF SleepInv, BaseInv, OnlyAlarmsSend, Sends
      <4>3. QED
        BY <1>4, <1>7, <3>1, <4>1, <4>2, AheadComes
    <3>2. QED
      BY <1>3, <1>4, <1>7, <2>1, <2>2, <3>1, SleepsOn
  <2>5. QED
    BY <2>3, <2>4
<1>9. QED
  BY <1>2, <1>6, <1>8 DEF SleepInv

\* An alarm that goes off leaves the others, and none of a thread comes back.
LEMMA FiredAlarms ==
  ASSUME AlarmInv, OneClock, Fired, NEW u \in Threads \ {Idle}, NEW n \in Nat
  PROVE  /\ On(u, n)' => On(u, n)
         /\ On(u, n) => On(u, n)' \/ Head1.event = u
<1>1. isrClock = Ticks /\ Firing(isrClock) /\ SetList(Ticks, AfterFire) /\ Ticks \in Clocks
  BY DEF Fired, Firing, AlarmInv, ArraysOK, OneClock
<1>2. PICK l \in Seq(Entries) : l = list[Ticks] /\ l # <<>> /\ l[1].ticks = 0
  BY <1>1 DEF AlarmInv, ArraysOK
<1>3. PICK rest \in Seq(Entries) : rest = Tail(l) /\ DeadlinesOf(rest) = Tail(DeadlinesOf(l)) /\ Due(l, 1) = 0
  BY <1>2, TailDeadlines
<1>4. PICK a \in Seq(D!Alarms) : a = DeadlinesOf(l) /\ Len(a) = Len(l) /\ a # <<>>
  BY <1>2, DeadlinesType
<1>5. Deadlines = a /\ Tail(a) = DeadlinesOf(rest)
  BY <1>1, <1>2, <1>3, <1>4, Arrays DEF AlarmInv
<1>6. /\ AfterFire \in Seq(Entries)
      /\ \/ DeadlinesOf(AfterFire) = DeadlinesOf(rest)
         \/ \E x \in Timers, m \in Durations :
              DeadlinesOf(AfterFire) = D!Put(DeadlinesOf(rest), [left |-> m, mark |-> x])
  BY <1>1, <1>2, <1>3, AfterFireDeadlines
<1>7. Deadlines' = DeadlinesOf(AfterFire)
  BY <1>1, <1>6, ArrayMoves DEF AlarmInv
<1>8. On(u, n)' <=> HasAlarm(Tail(a), [left |-> n, mark |-> u])
  <2>1. CASE DeadlinesOf(AfterFire) = DeadlinesOf(rest)
    BY <1>5, <1>7, <2>1 DEF On, HasAlarm
  <2>2. ASSUME NEW x \in Timers, NEW m \in Durations,
               DeadlinesOf(AfterFire) = D!Put(DeadlinesOf(rest), [left |-> m, mark |-> x])
        PROVE  On(u, n)' <=> HasAlarm(Tail(a), [left |-> n, mark |-> u])
    <3>1. [left |-> m, mark |-> x].left \in Nat /\ [left |-> n, mark |-> u] # [left |-> m, mark |-> x]
      BY TimerAssumption
    <3>2. HasAlarm(D!Put(DeadlinesOf(rest), [left |-> m, mark |-> x]), [left |-> n, mark |-> u])
            <=> HasAlarm(DeadlinesOf(rest), [left |-> n, mark |-> u])
      BY <3>1, PutHas
    <3>3. QED
      BY <1>5, <1>7, <2>2, <3>2 DEF On, HasAlarm
  <2>3. QED
    BY <1>6, <2>1, <2>2
<1>9. On(u, n) <=> HasAlarm(a, [left |-> n, mark |-> u])
  BY <1>5 DEF On
<1>10. ASSUME [left |-> n, mark |-> u] = a[1] PROVE Head1.event = u
  <2>1. 1 \in 1..Len(l) /\ l[1] \in Entries
    BY <1>2
  <2>2. a[1].mark = Mark(l[1])
    BY <1>4, <2>1 DEF DeadlinesOf
  <2>3. Mark(l[1]) \in {u}
    BY <1>10, <2>2
  <2>4. QED
    BY <1>1, <1>2, <2>1, <2>3, ThreadEntry DEF Head1
<1>11. QED
  BY <1>4, <1>8, <1>9, <1>10, TailHas

LEMMA FiredSleeps ==
  ASSUME SleepInv, OneClock, BaseInv', Fired
  PROVE  SleepInv'
<1>1. /\ StartedInv' /\ UNCHANGED <<bootVars, schedVars, waitVars, statusVars, threadVars>>
      /\ \A u \in Threads : sweep'[u] = sweep[u]
      /\ sweep'[Isr] = NoSweep
  BY FiredKeeps DEF SleepInv, BaseInv
<1>2. isrPc = "fire" /\ isrPc' \in {"expire", "tick"} /\ SweepDone(Isr) /\ UNCHANGED left
  BY DEF Fired, AfterClock, IsrGoto, SweepEnd
<1>3. UNCHANGED <<pc, waiting, event, ret, lock>>
  BY <1>1 DEF threadVars, waitVars, schedVars
<1>4. OnlyAlarmsSend'
  BY <1>1, <1>2 DEF SleepInv, OnlyAlarmsSend, Contexts, NoSweep
<1>0. StartedInv /\ WaitsOK /\ Isr \in Contexts /\ SweepMoves(Isr, {})
  BY <1>1 DEF SleepInv, BaseInv, SweepMoves, Fired, bootVars, Contexts
<1>5. ASSUME NEW t \in Threads PROVE TimedSleep(t)'
  <2>1. CASE pc[t] \notin Sleeping
    BY <1>3, <2>1 DEF TimedSleep, Sleeping
  <2>2. CASE pc[t] \in Sleeping
    <3>1. t # Idle /\ left[t] \in Nat
      BY <2>2 DEF SleepInv, BaseInv, AlarmInv, CallsOK, Sleeping
    <3>2. \A n \in Nat : (On(t, n)' => On(t, n)) /\ (On(t, n) => On(t, n)' \/ Head1.event = t)
      BY <3>1, FiredAlarms DEF SleepInv, BaseInv
    <3>3. CASE pc[t] = "insert"
      BY <1>3, <3>2, <3>3 DEF SleepInv, BaseInv, TimedSleep
    <3>4. CASE pc[t] \in {"perform", "woken"}
      <4>1. /\ \A n \in Nat : On(t, n) => n = left[t]
            /\ waiting[t] => On(t, left[t]) \/ CancellationAhead(t)
            /\ waiting[t] /\ Head1.event = t => AheadIn(Isr, t)
            /\ ~waiting[t] /\ ret[t] = "event" => left[t] = 0
        BY <1>2, <3>4 DEF SleepInv, BaseInv, TimedSleep
      <4>2. ~AheadIn(Isr, t)
        BY <1>2, SweepDoneAhead DEF SleepInv, BaseInv, StartedInv, Contexts
      <4>3. PICK n \in Nat : n = left[t]
        BY <3>1
      <4>4. waiting[t] => On(t, n)' \/ CancellationAhead(t)'
        BY <1>0, <1>3, <3>2, <4>1, <4>2, <4>3, CancellationComes
      <4>5. waiting[t] => On(t, left[t])' \/ CancellationAhead(t)'
        BY <1>2, <4>3, <4>4
      <4>6. QED
        BY <1>2, <1>3, <3>2, <3>4, <4>1, <4>5 DEF TimedSleep
    <3>5. QED
      BY <2>2, <3>3, <3>4 DEF Sleeping
  <2>3. QED
    BY <2>1, <2>2
<1>6. QED
  BY <1>2, <1>4, <1>5 DEF SleepInv

\* What the kernel does to the alarms: those of a thread go when a cancellation of
\* its wait starts.
LEMMA KernelAlarms ==
  ASSUME BaseInv, Kernel, NEW t, NEW n \in Nat
  PROVE  /\ On(t, n)' => On(t, n)
         /\ On(t, n) => On(t, n)' \/ (t \in Threads /\ CancellationAhead(t)')
<1>1. /\ ArraysOK /\ StartedInv /\ WaitsOK /\ UNCHANGED isrClock
      /\ isrPc \notin {"expire", "fire"} /\ isrPc' \notin {"expire", "fire"}
  BY KernelSpares DEF BaseInv, AlarmInv
<1>2. CASE UNCHANGED list
  BY <1>2, SameAlarms
<1>3. ASSUME NEW u \in Threads, Cancelled(u), waiting[u]
      PROVE  (On(t, n)' <=> On(t, n) /\ t # u) /\ CancellationAhead(u)'
  <2>1. Deadlines' = D!Without(Deadlines, {u})
    BY <1>1, <1>3, WithoutAlarmsRefines DEF Cancelled
  <2>2. PICK c \in Contexts : SweepStart(c, u, "OS_CANCELLED")
    BY <1>3 DEF Cancelled
  <2>3. u \in Registered /\ KInv /\ sweep \in [Contexts -> Sweeps]
    BY <1>1, StartedAssumption DEF StartedInv, KInv, KernelTypeOK, Registered
  <2>4. sweep'[c].ev = u /\ AheadIn(c, u)'
    BY <2>2, <2>3, SweepStartAhead
  <2>5. sweep'[c].ret = "OS_CANCELLED"
    BY <2>2, <2>3 DEF SweepStart, NoSweep
  <2>6. CancellationAhead(u)'
    BY <2>4, <2>5 DEF CancellationAhead, AheadIn
  <2>7. QED
    BY <1>1, <2>1, <2>6, CancelledAlarms
<1>4. ASSUME NEW u \in Threads, Cancelled(u), ~waiting[u] PROVE UNCHANGED list
  BY <1>1, <1>4, WithoutAlarmsRefines DEF Cancelled
<1>5. QED
  BY <1>1, <1>2, <1>3, <1>4, KernelCancels

LEMMA KernelSleeps ==
  ASSUME SleepInv, OneClock, BaseInv', Kernel
  PROVE  SleepInv'
<1>1. /\ isrPc \notin {"expire", "fire"} /\ isrPc' \notin {"expire", "fire"}
      /\ UNCHANGED left
  BY KernelSpares DEF historyVars
<1>2. StartedStep
  BY DEF Kernel, TickHandler, CancelThread, StartedStep
<1>3. StartedInv /\ BaseInv /\ lock = 0
  BY DEF SleepInv, BaseInv
<1>4. \A u \in Threads : StepWaits(u) /\ StepStays(u)
  BY <1>2, <1>3, StartedStepKeeps DEF KeepsObjects
<1>5. PICK c \in Contexts : SweepMoves(c, {"OS_CANCELLED"})
  BY <1>2, <1>3, StartedStepMoves
<1>6. OnlyAlarmsSend'
  <2>1. \A d \in Contexts : sweep[d].ret # "event"
    BY <1>1 DEF SleepInv, OnlyAlarmsSend
  <2>2. sweep'[c].ret # "event"
    <3>1. CASE SweepStep(c)
      BY <1>3, <2>1, <3>1, SweepStepThread DEF StartedInv
    <3>2. CASE SweepEnd(c)
      BY <1>3, <3>2 DEF SweepEnd, NoSweep, StartedInv, KInv, KernelTypeOK
    <3>3. QED
      BY <1>5, <2>1, <3>1, <3>2 DEF SweepMoves
  <2>3. \A d \in Contexts : sweep'[d].ret # "event"
    BY <1>5, <2>1, <2>2 DEF SweepMoves
  <2>4. QED
    BY <1>1, <2>3 DEF OnlyAlarmsSend
<1>7. ASSUME NEW t \in Threads PROVE TimedSleep(t)'
  <2>1. pc'[t] = pc[t] \/ pc'[t] \notin Sleeping
    BY <1>4 DEF StepStays, Sleeping
  <2>2. WaitsOrWakes(t)
    BY <1>3, <1>4 DEF StepWaits, WaitsOrWakes
  <2>3. \A n \in Nat : (On(t, n)' => On(t, n)) /\ (On(t, n) => On(t, n)' \/ CancellationAhead(t)')
    BY <1>3, KernelAlarms
  <2>4. left'[t] = left[t]
    BY <1>1
  <2>5. QED
    BY <1>1, <1>5, <2>1, <2>2, <2>3, <2>4, SleepsOn
<1>8. QED
  BY <1>1, <1>6, <1>7 DEF SleepInv

LEMMA SleepInit ==
  ASSUME Init
  PROVE  SleepInv
<1>1. BaseInv
  BY BaseInit
<1>2. /\ left \in [Threads -> Nat] /\ isrPc = "off"
      /\ \A c \in Contexts : sweep[c] = NoSweep
      /\ \A t \in Threads : pc[t] = "main"
  BY DEF Init, StartedInit
<1>3. OnlyAlarmsSend
  BY <1>2 DEF OnlyAlarmsSend, NoSweep
<1>4. \A t \in Threads : TimedSleep(t)
  BY <1>2 DEF TimedSleep
<1>5. QED
  BY <1>1, <1>2, <1>3, <1>4 DEF SleepInv

LEMMA SleepStutter ==
  ASSUME SleepInv, OneClock, BaseInv', UNCHANGED vars
  PROVE  SleepInv'
<1>1. UNCHANGED <<list, isrClock, left, pc, sweep, isrPc, waiting, event, ret, threads>>
  BY DEF vars, kernelVars, clockVars, historyVars, threadVars, schedVars, sweepVars, isrVars, waitVars,
    bootVars
<1>2. Head1' = Head1
  BY <1>1 DEF Head1
<1>3. OnlyAlarmsSend'
  BY <1>1, <1>2 DEF SleepInv, OnlyAlarmsSend, Sends
<1>4. ASSUME NEW t \in Threads PROVE TimedSleep(t)'
  <2>1. \A n : On(t, n)' <=> On(t, n)
    BY <1>1, SameAlarms
  <2>2. (AheadIn(Isr, t)' <=> AheadIn(Isr, t)) /\ (CancellationAhead(t)' <=> CancellationAhead(t))
    BY <1>1, CancellationStays DEF AheadIn
  <2>3. QED
    BY <1>1, <1>2, <2>1, <2>2 DEF SleepInv, TimedSleep
<1>5. QED
  BY <1>1, <1>3, <1>4 DEF SleepInv

LEMMA SleepNext ==
  ASSUME SleepInv, OneClock, [Next]_vars
  PROVE  SleepInv'
<1>1. BaseInv'
  BY BaseStep DEF SleepInv
<1>2. ASSUME NEW t \in Threads \ {Idle}, TimerCall(t)
      PROVE  SleepInv'
  BY <1>1, <1>2, TimerCallSleeps
<1>3. ASSUME NEW c \in Clocks, ClockTick(c)
      PROVE  SleepInv'
  BY <1>1, <1>3, ClockTickSleeps
<1>4. CASE ClockHandler
  BY <1>1, <1>4, ExpireSleeps, ExpireStepSleeps, FiredSleeps DEF ClockHandler
<1>5. CASE Kernel
  BY <1>1, <1>5, KernelSleeps
<1>6. CASE UNCHANGED vars
  BY <1>1, <1>6, SleepStutter
<1>7. QED
  BY <1>2, <1>3, <1>4, <1>5, <1>6 DEF Next, TimerCall

LEMMA SleepInvTimes ==
  ASSUME SleepInv, OneClock
  PROVE  SleepIsTimed
<1> SUFFICES ASSUME NEW t \in Threads, pc[t] \in {"perform", "woken"}
             PROVE  /\ waiting[t] /\ ~CancellationAhead(t) =>
                         /\ \E i \in 1..Len(list[call[t].clock]) :
                              list[call[t].clock][i].event = t /\ Due(list[call[t].clock], i) = left[t]
                         /\ left[t] = 0 => isrPc \in {"expire", "fire"}
                    /\ ~waiting[t] /\ ret[t] = "event" => left[t] = 0
  BY DEF SleepIsTimed
<1>1. /\ t # Idle /\ call[t].clock = Ticks /\ Ticks \in Clocks
      /\ waiting[t] /\ ~CancellationAhead(t) => On(t, left[t])
      /\ ~waiting[t] /\ ret[t] = "event" => left[t] = 0
  BY TimerAssumption DEF SleepInv, BaseInv, AlarmInv, CallsOK, TimedSleep, OneClock
<1>2. PICK l \in Seq(Entries) : l = list[Ticks] /\ Deadlines = DeadlinesOf(l) /\ Len(Deadlines) = Len(l)
  BY <1>1, Arrays DEF SleepInv, BaseInv, AlarmInv
<1>3. ASSUME waiting[t], ~CancellationAhead(t) PROVE \E i \in 1..Len(l) : l[i].event = t /\ Due(l, i) = left[t]
  <2>1. PICK i \in 1..Len(l) : DeadlinesOf(l)[i] = [left |-> left[t], mark |-> t]
    BY <1>1, <1>2, <1>3 DEF On, HasAlarm
  <2>2. Due(l, i) = left[t] /\ Mark(l[i]) = t
    BY <2>1 DEF DeadlinesOf
  <2>3. l[i] \in Entries
    OBVIOUS
  <2>4. l[i].event = t
    BY <1>1, <2>2, <2>3, ThreadEntry
  <2>5. QED
    BY <2>2, <2>4
<1>4. waiting[t] /\ ~CancellationAhead(t) /\ left[t] = 0 => isrPc \in {"expire", "fire"}
  BY <1>1, OnIsFiring DEF SleepInv, BaseInv
<1>5. QED
  BY <1>1, <1>2, <1>3, <1>4

\* OSTimer::sleep: a thread that sleeps and is not being cancelled is woken by its
\* alarm at the tick it asked for, neither before nor after, whatever other threads,
\* timers and the cancellations of others do to the array; where there is but one
\* clock.
THEOREM SleepsAreTimed ==
  ASSUME OneClock
  PROVE  Spec => []SleepIsTimed
<1>1. SleepInv /\ [Next]_vars => SleepInv'
  BY SleepNext
<1>2. Init => SleepInv
  BY SleepInit
<1>3. SleepInv => SleepIsTimed
  BY SleepInvTimes
<1>4. QED
  BY <1>1, <1>2, <1>3, PTL DEF Spec
-----------------------------------------------------------------------------
(***************************************************************************)
(* Timers.  All Timer objects share one event, and starting one removes    *)
(* the alarms of the others: that is the only other way out of the array.  *)
(***************************************************************************)

HasTimer(x) == \E n \in Nat : On(x, n)

ArmedInv ==
  /\ armed \subseteq Timers
  /\ \A x \in armed : HasTimer(x)

TimerInv == BaseInv /\ ArmedInv

\* A step that leaves the alarms of timers.
LEMMA TimersStay ==
  ASSUME ArmedInv, UNCHANGED armed, \A x \in Timers, n \in Nat : On(x, n) => HasTimer(x)'
  PROVE  ArmedInv'
BY DEF ArmedInv, HasTimer

LEMMA TimersStutter ==
  ASSUME ArmedInv, UNCHANGED <<list, armed>>
  PROVE  ArmedInv'
BY SameAlarms DEF ArmedInv, HasTimer

\* The calls of a thread.
LEMMA CallTimers ==
  ASSUME TimerInv, NEW t \in Threads \ {Idle}, TimerCall(t)
  PROVE  ArmedInv'
<1>0. AlarmInv /\ t \notin Timers /\ Ticks \in Clocks /\ ArmedInv
  BY TimerAssumption DEF TimerInv, BaseInv
<1>1. ASSUME NEW c \in Clocks, NEW m \in Durations, Sleep(t, c, m)
      PROVE  ArmedInv'
  <2>1. \A x \in Timers, n \in Nat : On(x, n) => On(x, n)'
    BY <1>0, <1>1, SleepAlarms
  <2>2. UNCHANGED armed
    BY <1>1 DEF Sleep, historyVars
  <2>3. QED
    BY <1>0, <2>1, <2>2, TimersStay DEF HasTimer
<1>2. CASE SleepInsert(t)
  <2>1. \A x \in Timers, n \in Nat : On(x, n) => On(x, n)'
    BY <1>0, <1>2, SleepInsertAlarms
  <2>2. UNCHANGED armed
    BY <1>2 DEF SleepInsert
  <2>3. QED
    BY <1>0, <2>1, <2>2, TimersStay DEF HasTimer
<1>3. CASE SleepFull(t) \/ SleepPerform(t) \/ SleepReturn(t)
  BY <1>0, <1>3, TimersStutter DEF SleepFull, SleepPerform, SleepReturn, clockVars, historyVars
<1>4. CASE \E x \in Timers :
             (\E m \in Durations, p \in BOOLEAN : StartTimer(t, x, m, p)) \/ StopTimer(t, x)
  BY <1>0, <1>4, TimersStutter DEF StartTimer, StopTimer, historyVars
<1>5. CASE Rearm(t)
  BY <1>5 DEF Rearm, ArmedInv
<1>6. CASE Arm(t)
  <2>1. PICK x \in Timers, m \in Durations : x = call[t].timer /\ m = call[t].ticks /\ m \in Nat
    BY <1>0, <1>6, TimerAssumption DEF AlarmInv, CallsOK, Arm, At
  <2>2. isrPc = "off" /\ UNCHANGED <<isrPc, isrClock>>
    BY <1>6 DEF Arm, At, Return, Goto, isrVars
  <2>3. ASSUME Len(list[Ticks]) < Size, SetList(Ticks, InsertAlarm(list[Ticks], m, CustomTimer, x)),
               armed' = armed \cup {x}
        PROVE  ArmedInv'
    <3>1. /\ \A k \in Nat : [ticks |-> k, event |-> CustomTimer, arg |-> x] \in Entries
          /\ \A k \in Nat : Mark([ticks |-> k, event |-> CustomTimer, arg |-> x]) = x
          /\ x \in UNION Groups
      BY TimerEntry
    <3>2. Deadlines' = D!Put(Deadlines, [left |-> m, mark |-> x])
      BY <1>0, <2>1, <2>2, <2>3, <3>1, SetRefines DEF AlarmInv
    <3>3. \A y, k : k \in Nat => (On(y, k)' <=> On(y, k) \/ (k = m /\ y = x))
      BY <1>0, <2>1, <3>2, SetAlarms DEF AlarmInv
    <3>4. HasTimer(x)' /\ \A y \in armed : HasTimer(y)'
      BY <1>0, <2>1, <3>3 DEF ArmedInv, HasTimer
    <3>5. QED
      BY <1>0, <2>1, <2>3, <3>4 DEF ArmedInv
  <2>4. CASE UNCHANGED <<list, armed>>
    BY <1>0, <2>4, TimersStutter
  <2>5. QED
    BY <1>6, <2>1, <2>3, <2>4 DEF Arm
<1>7. QED
  BY <1>1, <1>2, <1>3, <1>4, <1>5, <1>6 DEF TimerCall, SleepStep

\* The interrupt of the ticks: an alarm that goes off leaves the array for good
\* only with the timer.
LEMMA TicksFired ==
  ASSUME TimerInv, Fired, isrClock = Ticks
  PROVE  ArmedInv'
<1>1. Firing(Ticks) /\ SetList(Ticks, AfterFire) /\ Ticks \in Clocks /\ AlarmInv /\ ArmedInv
  BY TimerAssumption DEF Fired, Firing, TimerInv, BaseInv
<1>2. PICK l \in Seq(Entries) : l = list[Ticks] /\ l # <<>> /\ l[1].ticks = 0
  BY <1>1 DEF AlarmInv, ArraysOK
<1>3. PICK rest \in Seq(Entries) : rest = Tail(l) /\ DeadlinesOf(rest) = Tail(DeadlinesOf(l)) /\ Due(l, 1) = 0
  BY <1>2, TailDeadlines
<1>4. PICK a \in Seq(D!Alarms) : a = DeadlinesOf(l) /\ Len(a) = Len(l) /\ a # <<>>
  BY <1>2, DeadlinesType
<1>5. Deadlines = a /\ Tail(a) = DeadlinesOf(rest)
  BY <1>1, <1>2, <1>3, <1>4, Arrays DEF AlarmInv
<1>6. 1 \in 1..Len(l) /\ l[1] \in Entries /\ l[1] = Head1 /\ a[1].mark = Mark(l[1])
  <2>1. 1 \in 1..Len(l) /\ l[1] \in Entries /\ l[1] = Head1
    BY <1>2 DEF Head1
  <2>2. QED
    BY <1>4, <2>1 DEF DeadlinesOf
<1>7. ASSUME NEW y, NEW n \in Nat, On(y, n), y # Mark(l[1])
      PROVE  HasAlarm(DeadlinesOf(rest), [left |-> n, mark |-> y])
  <2>1. HasAlarm(a, [left |-> n, mark |-> y])
    BY <1>5, <1>7 DEF On
  <2>2. [left |-> n, mark |-> y] # a[1]
    BY <1>6, <1>7
  <2>3. QED
    BY <1>4, <1>5, <2>1, <2>2, TailHas
<1>8. AfterFire \in Seq(Entries)
  BY <1>1, AfterFireDeadlines
<1>9. Deadlines' = DeadlinesOf(AfterFire)
  BY <1>1, <1>8, ArrayMoves DEF AlarmInv
<1>10. CASE Head1.event = CustomTimer /\ periodic[Head1.arg]
  <2>1. PICK x \in Timers, m \in Durations : x = Head1.arg /\ m = start[x] /\ m \in Nat
    BY <1>1, <1>6, <1>10, TimerAssumption DEF Entries, AlarmInv, CallsOK
  <2>2. AfterFire = InsertAlarm(rest, m, CustomTimer, x) /\ Mark(l[1]) = x
    BY <1>2, <1>3, <1>6, <1>10, <2>1 DEF AfterFire, Mark
  <2>3. /\ [ticks |-> m, event |-> CustomTimer, arg |-> x] \in Entries
        /\ Mark([ticks |-> m, event |-> CustomTimer, arg |-> x]) = x
    BY <2>1, TimerEntry
  <2>4. Deadlines' = D!Put(DeadlinesOf(rest), [left |-> m, mark |-> x])
    BY <1>9, <2>1, <2>2, <2>3, InsertPuts
  <2>5. ASSUME NEW y, NEW n \in Nat,
               HasAlarm(DeadlinesOf(rest), [left |-> n, mark |-> y]) \/ (n = m /\ y = x)
        PROVE  HasTimer(y)'
    <3>1. [left |-> m, mark |-> x].left \in Nat
      BY <2>1
    <3>2. HasAlarm(D!Put(DeadlinesOf(rest), [left |-> m, mark |-> x]), [left |-> n, mark |-> y])
      BY <2>5, <3>1, PutHas
    <3>3. QED
      BY <2>4, <3>2 DEF HasTimer, On, HasAlarm
  <2>6. \A y \in armed : HasTimer(y)'
    BY <1>1, <1>7, <2>1, <2>2, <2>5 DEF ArmedInv, HasTimer
  <2>7. armed' = armed
    BY <1>10 DEF Fired
  <2>8. QED
    BY <1>1, <2>6, <2>7 DEF ArmedInv
<1>11. CASE ~(Head1.event = CustomTimer /\ periodic[Head1.arg])
  <2>1. Deadlines' = DeadlinesOf(rest)
    BY <1>2, <1>3, <1>9, <1>11 DEF AfterFire
  <2>2. ASSUME NEW y \in armed' PROVE y \in armed /\ y # Mark(l[1])
    <3>1. y \in armed /\ y \in Timers
      BY <1>1, <2>2 DEF Fired, ArmedInv
    <3>2. CASE Head1.event = CustomTimer
      <4>1. armed' = armed \ {Head1.arg} /\ Mark(l[1]) = Head1.arg
        BY <1>6, <1>11, <3>2 DEF Fired, Mark
      <4>2. QED
        BY <2>2, <3>1, <4>1
    <3>3. CASE Head1.event # CustomTimer
      BY <1>6, <3>1, <3>3, TimerEntry
    <3>4. QED
      BY <3>2, <3>3
  <2>3. \A y \in armed' : HasTimer(y)'
    BY <1>1, <1>7, <2>1, <2>2 DEF ArmedInv, HasTimer, On, HasAlarm
  <2>4. QED
    BY <1>1, <2>2, <2>3 DEF ArmedInv
<1>12. QED
  BY <1>10, <1>11

\* The interrupts of the other clocks.
LEMMA FiredTimers ==
  ASSUME TimerInv, Fired
  PROVE  ArmedInv'
<1>1. CASE isrClock = Ticks
  BY <1>1, TicksFired
<1>2. CASE isrClock # Ticks
  <2>1. PICK c \in Clocks : c = isrClock /\ Firing(c) /\ SetList(c, AfterFire)
    BY DEF Fired, Firing, TimerInv, BaseInv, AlarmInv, ArraysOK
  <2>2. AfterFire \in Seq(Entries) /\ ArraysOK /\ ArmedInv
    BY <2>1, AfterFireDeadlines DEF TimerInv, BaseInv, AlarmInv
  <2>3. UNCHANGED Deadlines
    BY <1>2, <2>1, <2>2, ArrayMoves
  <2>4. armed' \subseteq armed
    BY DEF Fired
  <2>5. \A x \in Timers, n \in Nat : On(x, n)' <=> On(x, n)
    BY <2>3 DEF On, HasAlarm
  <2>6. QED
    BY <2>2, <2>4, <2>5 DEF ArmedInv, HasTimer
<1>3. QED
  BY <1>1, <1>2

\* A clock's tick, and a cancellation: the alarms of its thread are none of a
\* timer.
LEMMA OtherTimers ==
  ASSUME TimerInv,
         Kernel \/ Expire \/ ExpireStep \/ (\E c \in Clocks : ClockTick(c)) \/ UNCHANGED vars
  PROVE  ArmedInv'
<1>0. BaseInv /\ AlarmInv /\ ArmedInv
  BY DEF TimerInv, BaseInv
<1>1. ASSUME NEW c \in Clocks, ClockTick(c)
      PROVE  ArmedInv'
  <2>1. UNCHANGED armed
    BY <1>1 DEF ClockTick
  <2>2. ASSUME NEW x \in Timers, NEW n \in Nat, On(x, n) PROVE HasTimer(x)'
    <3>1. CASE c # Ticks
      BY <1>0, <1>1, <2>2, <3>1, TickAlarms DEF HasTimer
    <3>2. CASE c = Ticks
      <4>1. n # 0
        BY <1>0, <1>1, <2>2, TickAlarms
      <4>2. PICK k \in Nat : k + 1 = n
        <5>1. n - 1 \in Nat /\ (n - 1) + 1 = n
          BY <4>1
        <5>2. QED
          BY <5>1
      <4>3. On(x, k)' <=> On(x, k + 1)
        BY <1>0, <1>1, <3>2, TickAlarms
      <4>4. QED
        BY <2>2, <4>2, <4>3 DEF HasTimer
    <3>3. QED
      BY <3>1, <3>2
  <2>3. QED
    BY <1>0, <2>1, <2>2, TimersStay
<1>2. CASE Expire \/ ExpireStep \/ UNCHANGED vars
  <2>1. UNCHANGED <<list, armed>>
    BY <1>2 DEF Expire, ExpireStep, clockVars, historyVars, vars
  <2>2. QED
    BY <1>0, <2>1, TimersStutter
<1>3. CASE Kernel
  <2>1. UNCHANGED armed
    BY <1>3, KernelSpares DEF historyVars
  <2>2. \A x \in Timers, n \in Nat : On(x, n) => On(x, n)'
    BY <1>0, <1>3, KernelAlarms, TimerAssumption
  <2>3. QED
    BY <1>0, <2>1, <2>2, TimersStay DEF HasTimer
<1>4. QED
  BY <1>1, <1>2, <1>3

LEMMA TimerNext ==
  ASSUME TimerInv, [Next]_vars
  PROVE  TimerInv'
<1>1. BaseInv'
  BY BaseStep DEF TimerInv
<1>2. ASSUME NEW t \in Threads \ {Idle}, TimerCall(t)
      PROVE  ArmedInv'
  BY <1>2, CallTimers
<1>3. ASSUME Fired PROVE ArmedInv'
  BY <1>3, FiredTimers
<1>4. ASSUME Kernel \/ Expire \/ ExpireStep \/ (\E c \in Clocks : ClockTick(c)) \/ UNCHANGED vars
      PROVE  ArmedInv'
  BY <1>4, OtherTimers
<1>5. ArmedInv'
  BY <1>2, <1>3, <1>4 DEF Next, TimerCall, ClockHandler
<1>6. QED
  BY <1>1, <1>5 DEF TimerInv

LEMMA TimerInvGoesOff ==
  ASSUME TimerInv
  PROVE  StartedTimerGoesOff
<1> SUFFICES ASSUME NEW x \in armed
             PROVE  \E i \in 1..Len(list[Ticks]) : list[Ticks][i].arg = x
  BY DEF StartedTimerGoesOff
<1>1. x \in Timers
  BY DEF TimerInv, ArmedInv
<1>2. PICK n \in Nat : On(x, n)
  BY DEF TimerInv, ArmedInv, HasTimer
<1>3. PICK l \in Seq(Entries) : l = list[Ticks] /\ Deadlines = DeadlinesOf(l) /\ Len(Deadlines) = Len(l)
  BY Arrays DEF TimerInv, BaseInv, AlarmInv
<1>4. PICK i \in 1..Len(l) : DeadlinesOf(l)[i] = [left |-> n, mark |-> x]
  BY <1>2, <1>3 DEF On, HasAlarm
<1>5. Mark(l[i]) = x /\ l[i] \in Entries
  BY <1>4 DEF DeadlinesOf
<1>6. l[i].event = CustomTimer
  BY <1>1, <1>5, TimerEntry
<1>7. QED
  BY <1>3, <1>5, <1>6 DEF Mark

\* Timer::start: a timer whose alarm was put into the array stays there until it
\* goes off or a timer is started, through the sleeps and cancellations of any
\* number of threads and the ticks of every clock.
THEOREM StartedTimersGoOff == Spec => []StartedTimerGoesOff
<1>1. Init => TimerInv
  BY BaseInit DEF Init, TimerInv, ArmedInv
<1>2. TimerInv /\ [Next]_vars => TimerInv'
  BY TimerNext
<1>3. TimerInv => StartedTimerGoesOff
  BY TimerInvGoesOff
<1>4. QED
  BY <1>1, <1>2, <1>3, PTL DEF Spec

=============================================================================
