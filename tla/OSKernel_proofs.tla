--------------------------- MODULE OSKernel_proofs ---------------------------
(***************************************************************************)
(* The kernel: what insert and remove do to the ready list, for lists of   *)
(* any length; the inductive invariant of the kernel's state, and that each *)
(* kernel routine of OSKernel preserves it; what an interrupt preserves,   *)
(* whatever threads it interrupts.  The proofs about a module that runs    *)
(* threads are left with its control state.                                *)
(***************************************************************************)
EXTENDS OSInterrupts, FiniteSetTheorems, WellFoundedInduction, TLAPS

-----------------------------------------------------------------------------
(***************************************************************************)
(* The ready list (OSActiveThreads)                                        *)
(***************************************************************************)

\* A non-empty set of naturals has a smallest member: among the intervals 0..x
\* for its members x one is minimal under inclusion, since these are finite.
LEMMA SmallestNat ==
  ASSUME NEW T, T \subseteq Nat, T # {}
  PROVE  \E x \in T : \A y \in T : x <= y
<1> DEFINE F == { 0..x : x \in T }
<1>1. F \subseteq FiniteSubsetsOf(Nat)
  <2>1. \A x \in T : IsFiniteSet(0..x) /\ 0..x \subseteq Nat
    BY FS_Interval
  <2>2. QED
    BY <2>1 DEF FiniteSubsetsOf
<1>2. \E D \in F : \A E \in F : ~(<<E, D>> \in StrictSubsetOrdering(Nat))
  <2>1. F # {}
    OBVIOUS
  <2>2. IsWellFoundedOn(StrictSubsetOrdering(Nat), FiniteSubsetsOf(Nat))
    BY FS_StrictSubsetOrderingWellFounded
  <2> HIDE DEF F
  <2>3. QED
    BY <1>1, <2>1, <2>2, WFMin, Zenon
<1>3. PICK x \in T : \A y \in T : ~(<<0..y, 0..x>> \in StrictSubsetOrdering(Nat))
  BY <1>2
<1>4. ASSUME NEW y \in T, y < x
      PROVE  FALSE
  <2>1. 0..y \subseteq 0..x /\ 0..y # 0..x
    <3>1. x \in 0..x /\ x \notin 0..y
      BY <1>4
    <3>2. QED
      BY <1>4, <3>1
  <2>2. 0..y \subseteq Nat /\ 0..x \subseteq Nat
    BY <1>4
  <2>3. QED
    BY <1>3, <2>1, <2>2 DEF StrictSubsetOrdering
<1>5. QED
  BY <1>4

\* There is a slot to insert at, so the CHOOSE of InsertAt finds one.
LEMMA InsertAtSlot ==
  ASSUME NEW S, NEW list \in Seq(S), NEW pri \in [S -> Nat], NEW p \in Nat
  PROVE  LET i == InsertAt(list, p, pri)
         IN  /\ i \in 1..Len(list) + 1
             /\ i <= Len(list) => p > pri[list[i]]
             /\ \A j \in 1..i - 1 : p <= pri[list[j]]
<1> DEFINE Lower == { i \in 1..Len(list) : p > pri[list[i]] }
           Slot(i) == /\ i <= Len(list) => p > pri[list[i]]
                      /\ \A j \in 1..i - 1 : p <= pri[list[j]]
<1>1. \A i \in 1..Len(list) : list[i] \in S /\ pri[list[i]] \in Nat
  OBVIOUS
<1>2. \E i \in 1..Len(list) + 1 : Slot(i)
  <2>1. CASE Lower = {}
    <3>1. Slot(Len(list) + 1)
      BY <1>1, <2>1
    <3>2. QED
      BY <3>1
  <2>2. CASE Lower # {}
    <3>0. Lower \subseteq Nat
      OBVIOUS
    <3>1. PICK i \in Lower : \A j \in Lower : i <= j
      <4> HIDE DEF Lower
      <4> QED BY <2>2, <3>0, SmallestNat
    <3>2. Slot(i)
      BY SMTT(30), <1>1, <3>1
    <3>3. QED
      BY <3>1, <3>2
  <2>3. QED
    BY <2>1, <2>2
<1>3. QED
  BY <1>2 DEF InsertAt

\* The first thread of a list that has one.
LEMMA GetTopMember ==
  ASSUME NEW S, NEW list \in Seq(S)
  PROVE  /\ Members(list) \subseteq S
         /\ Members(list) # {} => GetTop(list) \in Members(list)
<1>1. /\ Len(list) \in Nat
      /\ \A i \in 1..Len(list) : list[i] \in S
  OBVIOUS
<1>2. ASSUME Members(list) # {}
      PROVE  GetTop(list) \in Members(list)
  <2>1. Len(list) # 0
    BY <1>1, <1>2 DEF Members
  <2>2. QED
    BY <1>1, <2>1 DEF Members, GetTop
<1>3. QED
  BY <1>1, <1>2 DEF Members

-----------------------------------------------------------------------------
(***************************************************************************)
(* Insertion.                                                              *)
(***************************************************************************)

\* Moving the tail right and filling the gap adds exactly the new thread.
LEMMA ShiftRightList ==
  ASSUME NEW S, NEW list \in Seq(S), NEW t \in S, NEW i \in 1..Len(list) + 1
  PROVE  LET new == ShiftRight(list, i, t)
         IN  /\ new \in Seq(S)
             /\ Len(new) = Len(list) + 1
             /\ Members(new) = Members(list) \cup {t}
             /\ NoDuplicates(list) /\ ~Find(list, t) => NoDuplicates(new)
<1> DEFINE new == ShiftRight(list, i, t)
<1>1. /\ Len(list) \in Nat
      /\ \A j \in 1..Len(list) : list[j] \in S
  OBVIOUS
<1>2. /\ new \in [1..Len(list) + 1 -> S]
      /\ \A j \in 1..Len(list) + 1 :
           new[j] = IF j < i THEN list[j] ELSE IF j = i THEN t ELSE list[j - 1]
  BY <1>1 DEF ShiftRight
<1>3. new \in Seq(S) /\ Len(new) = Len(list) + 1
  BY SMTT(30), <1>1, <1>2
<1>4. Members(new) = Members(list) \cup {t}
  <2>1. \A j \in 1..Len(list) + 1 : new[j] \in Members(list) \cup {t}
    <3>1. TAKE j \in 1..Len(list) + 1
    <3>2. new[j] = IF j < i THEN list[j] ELSE IF j = i THEN t ELSE list[j - 1]
      BY <1>2
    <3>3. j < i => j \in 1..Len(list)
      BY <1>1
    <3>4. j > i => j - 1 \in 1..Len(list)
      BY <1>1
    <3>5. QED
      BY <1>1, <3>2, <3>3, <3>4 DEF Members
  <2>2. t \in Members(new)
    <3>1. new[i] = t
      BY <1>2
    <3>2. QED
      BY <1>3, <3>1 DEF Members
  <2>3. ASSUME NEW j \in 1..Len(list)
        PROVE  list[j] \in Members(new)
    <3>1. CASE j < i
      <4>1. new[j] = list[j] /\ j \in 1..Len(new)
        BY <1>1, <1>2, <1>3, <3>1
      <4>2. QED
        BY <4>1 DEF Members
    <3>2. CASE j >= i
      <4>1. new[j + 1] = list[j] /\ j + 1 \in 1..Len(new)
        BY <1>1, <1>2, <1>3, <3>2
      <4>2. QED
        BY <4>1 DEF Members
    <3>3. QED
      BY <1>1, <3>1, <3>2
  <2>4. QED
    BY <1>3, <2>1, <2>2, <2>3 DEF Members
<1>5. ASSUME NoDuplicates(list), ~Find(list, t)
      PROVE  NoDuplicates(new)
  <2>1. SUFFICES ASSUME NEW j \in 1..Len(list) + 1, NEW k \in 1..Len(list) + 1,
                        new[j] = new[k]
                 PROVE  j = k
    BY <1>3 DEF NoDuplicates
  <2>2. \A l \in 1..Len(list) : list[l] # t
    BY <1>5 DEF Find
  <2>3. \A l, m \in 1..Len(list) : list[l] = list[m] => l = m
    BY <1>5 DEF NoDuplicates
  <2>4. \A l \in 1..Len(list) + 1 :
          /\ l < i => l \in 1..Len(list) /\ new[l] = list[l]
          /\ l = i => new[l] = t
          /\ l > i => l - 1 \in 1..Len(list) /\ new[l] = list[l - 1]
    BY <1>1, <1>2
  <2> HIDE DEF new
  <2>5. CASE j < i
    BY <1>1, <2>1, <2>2, <2>3, <2>4, <2>5
  <2>6. CASE j = i
    BY <1>1, <2>1, <2>2, <2>4, <2>6
  <2>7. CASE j > i
    BY <1>1, <2>1, <2>2, <2>3, <2>4, <2>7
  <2>8. QED
    BY <1>1, <2>5, <2>6, <2>7
<1>6. QED
  BY <1>3, <1>4, <1>5

\* insert adds the thread, once.
LEMMA InsertList ==
  ASSUME NEW S, NEW list \in Seq(S), NEW t \in S, NEW pri \in [S -> Nat]
  PROVE  LET new == Insert(list, t, pri)
         IN  /\ new \in Seq(S)
             /\ Members(new) = Members(list) \cup {t}
             /\ NoDuplicates(list) => NoDuplicates(new)
<1>1. CASE Find(list, t)
  <2>1. Insert(list, t, pri) = list
    BY <1>1 DEF Insert
  <2>2. t \in Members(list)
    BY <1>1 DEF Find, Members
  <2>3. QED
    BY <2>1, <2>2
<1>2. CASE ~Find(list, t)
  <2> DEFINE i == InsertAt(list, pri[t], pri)
  <2>1. i \in 1..Len(list) + 1
    BY InsertAtSlot
  <2>2. Insert(list, t, pri) = ShiftRight(list, i, t)
    BY <1>2 DEF Insert
  <2> HIDE DEF i
  <2>3. QED
    BY <1>2, <2>1, <2>2, ShiftRightList
<1>3. QED
  BY <1>1, <1>2

\* insert keeps the list in decreasing priority order.
LEMMA InsertSorted ==
  ASSUME NEW S, NEW list \in Seq(S), NEW t \in S, NEW pri \in [S -> Nat],
         Sorted(list, pri)
  PROVE  Sorted(Insert(list, t, pri), pri)
<1>1. CASE Find(list, t)
  BY <1>1 DEF Insert
<1>2. CASE ~Find(list, t)
  <2> DEFINE i == InsertAt(list, pri[t], pri)
             new == ShiftRight(list, i, t)
  <2>1. /\ Len(list) \in Nat
        /\ \A j \in 1..Len(list) : list[j] \in S /\ pri[list[j]] \in Nat
        /\ pri[t] \in Nat
    OBVIOUS
  <2>2. /\ i \in 1..Len(list) + 1
        /\ i <= Len(list) => pri[t] > pri[list[i]]
        /\ \A j \in 1..i - 1 : pri[t] <= pri[list[j]]
    BY InsertAtSlot
  <2> HIDE DEF i
  <2>3. /\ Len(new) = Len(list) + 1
        /\ \A j \in 1..Len(list) + 1 :
             new[j] = IF j < i THEN list[j] ELSE IF j = i THEN t ELSE list[j - 1]
    BY <2>1, <2>2, ShiftRightList DEF ShiftRight
  <2> HIDE DEF new
  <2>4. \A j, k \in 1..Len(list) : j < k => pri[list[j]] >= pri[list[k]]
    BY DEF Sorted
  <2>5. \A j \in i..Len(list) : pri[t] > pri[list[j]]
    BY <2>1, <2>2, <2>4
  <2>6. ASSUME NEW j \in 1..Len(list) + 1, NEW k \in 1..Len(list) + 1, j < k
        PROVE  pri[new[j]] >= pri[new[k]]
    <3>0. /\ new[j] = IF j < i THEN list[j] ELSE IF j = i THEN t ELSE list[j - 1]
          /\ new[k] = IF k < i THEN list[k] ELSE IF k = i THEN t ELSE list[k - 1]
          /\ i \in Nat /\ j \in Nat /\ k \in Nat /\ Len(list) \in Nat
      BY <2>1, <2>2, <2>3
    <3>1. CASE k < i
      <4>1. j \in 1..Len(list) /\ k \in 1..Len(list) /\ j < i
        BY <2>1, <2>2, <2>6, <3>1
      <4>2. new[j] = list[j] /\ new[k] = list[k]
        BY <3>0, <3>1, <4>1
      <4>3. QED
        BY <2>4, <2>6, <4>1, <4>2
    <3>2. CASE k = i
      <4>1. j \in 1..i - 1 /\ j \in 1..Len(list) /\ j < i
        BY <2>1, <2>2, <2>6, <3>2
      <4>2. new[j] = list[j] /\ new[k] = t
        BY <3>0, <3>2, <4>1
      <4>3. pri[t] <= pri[list[j]]
        BY <2>2, <4>1
      <4>4. QED
        BY <2>1, <4>1, <4>2, <4>3
    <3>3. CASE k > i /\ j < i
      <4>1. /\ j \in 1..i - 1 /\ k - 1 \in i..Len(list)
            /\ j \in 1..Len(list) /\ k - 1 \in 1..Len(list)
            /\ ~(k < i) /\ k # i
        BY <2>1, <2>2, <3>3
      <4>2. new[j] = list[j] /\ new[k] = list[k - 1]
        BY <3>0, <3>3, <4>1
      <4>3. pri[t] <= pri[list[j]] /\ pri[t] > pri[list[k - 1]]
        BY <2>2, <2>5, <4>1
      <4>4. QED
        BY <2>1, <4>1, <4>2, <4>3
    <3>4. CASE k > i /\ j = i
      <4>1. /\ k - 1 \in i..Len(list) /\ k - 1 \in 1..Len(list)
            /\ ~(k < i) /\ k # i /\ ~(j < i)
        BY <2>1, <2>2, <2>6, <3>4
      <4>2. new[j] = t /\ new[k] = list[k - 1]
        BY <3>0, <3>4, <4>1
      <4>3. pri[t] > pri[list[k - 1]]
        BY <2>5, <4>1
      <4>4. QED
        BY <2>1, <4>1, <4>2, <4>3
    <3>5. CASE k > i /\ j > i
      <4>1. /\ j - 1 \in 1..Len(list) /\ k - 1 \in 1..Len(list) /\ j - 1 < k - 1
            /\ ~(k < i) /\ k # i /\ ~(j < i) /\ j # i
        BY <2>1, <2>2, <2>6, <3>5
      <4>2. new[j] = list[j - 1] /\ new[k] = list[k - 1]
        BY <3>0, <4>1
      <4>3. QED
        BY <2>4, <4>1, <4>2
    <3>6. QED
      BY <2>2, <3>1, <3>2, <3>3, <3>4, <3>5
  <2>7. Sorted(new, pri)
    BY <2>3, <2>6 DEF Sorted
  <2>8. Insert(list, t, pri) = new
    BY <1>2 DEF Insert, new, i
  <2>9. QED
    BY <2>7, <2>8
<1>3. QED
  BY <1>1, <1>2

-----------------------------------------------------------------------------
(***************************************************************************)
(* Removal.                                                                *)
(***************************************************************************)

\* remove takes the thread out, unless it is the idle thread, and nothing
\* else: not the others, not their order.
LEMMA RemoveList ==
  ASSUME NEW S, NEW list \in Seq(S), NEW t, NoDuplicates(list)
  PROVE  LET new == Remove(list, t)
         IN  /\ new \in Seq(S)
             /\ Members(new) = IF t = Idle THEN Members(list) ELSE Members(list) \ {t}
             /\ NoDuplicates(new)
             /\ \A pri \in [S -> Nat] : Sorted(list, pri) => Sorted(new, pri)
<1>1. CASE t = Idle \/ ~Find(list, t)
  <2>1. Remove(list, t) = list
    BY <1>1 DEF Remove
  <2>2. t = Idle \/ t \notin Members(list)
    BY <1>1 DEF Find, Members
  <2>3. QED
    BY <2>1, <2>2
<1>2. CASE t # Idle /\ Find(list, t)
  <2> DEFINE i == CHOOSE k \in 1..Len(list) : list[k] = t
             new == ShiftLeft(list, i)
  <2>1. i \in 1..Len(list) /\ list[i] = t
    BY <1>2 DEF Find
  <2> HIDE DEF i
  <2>2. /\ Len(list) \in Nat
        /\ \A j \in 1..Len(list) : list[j] \in S
    OBVIOUS
  <2>3. /\ new \in [1..Len(list) - 1 -> S]
        /\ \A j \in 1..Len(list) - 1 :
             new[j] = IF j < i THEN list[j] ELSE list[j + 1]
    BY <2>1, <2>2 DEF ShiftLeft
  <2> HIDE DEF new
  <2>4. new \in Seq(S) /\ Len(new) = Len(list) - 1
    <3>1. Len(list) - 1 \in Nat
      BY <2>1, <2>2
    <3>2. QED
      BY <2>3, <3>1
  <2>5. \A j, k \in 1..Len(list) : list[j] = list[k] => j = k
    BY DEF NoDuplicates
  <2>6. Members(new) = Members(list) \ {t}
    <3>1. \A j \in 1..Len(list) - 1 : new[j] \in Members(list) /\ new[j] # t
      BY SMTT(30), <2>1, <2>2, <2>3, <2>5 DEF Members
    <3>2. ASSUME NEW j \in 1..Len(list), list[j] # t
          PROVE  list[j] \in Members(new)
      <4>1. CASE j < i
        <5>1. new[j] = list[j] /\ j \in 1..Len(new)
          BY <2>1, <2>2, <2>3, <2>4, <4>1
        <5>2. QED
          BY <5>1 DEF Members
      <4>2. CASE j > i
        <5>1. new[j - 1] = list[j] /\ j - 1 \in 1..Len(new)
          BY <2>1, <2>2, <2>3, <2>4, <4>2
        <5>2. QED
          BY <5>1 DEF Members
      <4>3. QED
        BY <2>1, <2>2, <3>2, <4>1, <4>2
    <3>3. QED
      BY <2>4, <3>1, <3>2 DEF Members
  <2>7. NoDuplicates(new)
    BY <2>1, <2>2, <2>3, <2>4, <2>5 DEF NoDuplicates
  <2>8. ASSUME NEW pri \in [S -> Nat], Sorted(list, pri)
        PROVE  Sorted(new, pri)
    <3>1. \A j, k \in 1..Len(list) : j < k => pri[list[j]] >= pri[list[k]]
      BY <2>8 DEF Sorted
    <3>2. ASSUME NEW j \in 1..Len(new), NEW k \in 1..Len(new), j < k
          PROVE  pri[new[j]] >= pri[new[k]]
      <4> DEFINE old(l) == IF l < i THEN l ELSE l + 1
      <4>1. /\ old(j) \in 1..Len(list) /\ old(k) \in 1..Len(list)
            /\ old(j) < old(k)
        BY SMTT(30), <2>1, <2>2, <2>4, <3>2
      <4>2. new[j] = list[old(j)] /\ new[k] = list[old(k)]
        BY <2>3, <2>4
      <4>3. QED
        BY <3>1, <4>1, <4>2
    <3>3. QED
      BY <3>2 DEF Sorted
  <2>9. Remove(list, t) = new
    BY <1>2 DEF Remove, new, i
  <2>10. QED
    BY <1>2, <2>4, <2>6, <2>7, <2>8, <2>9
<1>3. QED
  BY <1>1, <1>2

-----------------------------------------------------------------------------
(***************************************************************************)
(* The kernel's routines (OSKernel)                                        *)
(***************************************************************************)

\* The indices of an eventNotify loop stay inside ms_threads.
SweepsInRange ==
  /\ notifyIndex = 0 \/ notifyIndex < Len(threads)
  /\ \A c \in Contexts :
       /\ sweep[c].first < Len(threads)
       /\ IF RoundRobinNotify THEN sweep[c].at = 0 \/ sweep[c].at < Len(threads)
          ELSE sweep[c].at = sweep[c].i

\* What NoLostThread and ReadyListSound need of the other fields: once the
\* scheduler runs a thread it knows is running, the idle thread is never
\* suspended, and only a thread the scheduler knows is.
StatusSound ==
  /\ isRunning => running \in Registered
  /\ ~suspended[Idle]
  /\ \A t \in Threads : suspended[t] => t \in Registered

KInv ==
  /\ KernelTypeOK
  /\ SweepsInRange
  /\ StatusSound
  /\ ReadyListSound
  /\ NoLostThread

-----------------------------------------------------------------------------

\* A step that does not touch the kernel.
LEMMA KernelStutter ==
  ASSUME KInv, UNCHANGED kernelVars
  PROVE  KInv'
BY DEF KInv, KernelTypeOK, SweepsInRange, StatusSound, ReadyListSound,
       NoLostThread, Registered, NextIndex, kernelVars, bootVars, schedVars,
       waitVars, statusVars, sweepVars

\* The list after a switch: the idle thread and every thread but the running
\* one are still in it, and the running one is if it can still run.
LEMMA RescheduledList ==
  ASSUME KInv, isRunning
  PROVE  /\ Rescheduled \in Seq(Threads)
         /\ NoDuplicates(Rescheduled)
         /\ Members(Rescheduled) =
              IF suspended[running] \/ waiting[running]
              THEN IF running = Idle THEN Members(ready) ELSE Members(ready) \ {running}
              ELSE Members(ready) \cup {running}
         /\ Idle \in Members(Rescheduled)
         /\ GetTop(Rescheduled) \in Registered
<1> DEFINE others == Remove(ready, running)
<1>1. /\ ready \in Seq(Threads) /\ NoDuplicates(ready)
      /\ running \in Registered /\ Idle \in Members(ready)
      /\ Members(ready) \subseteq Registered
      /\ prio \in [Threads -> Nat]
  BY DEF KInv, KernelTypeOK, StatusSound, ReadyListSound
<1>2. running \in Threads /\ suspended[running] \in BOOLEAN /\ waiting[running] \in BOOLEAN
  <2>1. threads \in Seq(Threads)
    BY DEF KInv, KernelTypeOK
  <2>2. running \in Threads
    BY <1>1, <2>1, GetTopMember DEF Registered
  <2>3. QED
    BY <2>2 DEF KInv, KernelTypeOK
<1>3. /\ others \in Seq(Threads) /\ NoDuplicates(others)
      /\ Members(others) =
           IF running = Idle THEN Members(ready) ELSE Members(ready) \ {running}
  BY <1>1, RemoveList
<1> HIDE DEF others
<1>4. /\ Insert(others, running, prio) \in Seq(Threads)
      /\ Members(Insert(others, running, prio)) = Members(others) \cup {running}
      /\ NoDuplicates(Insert(others, running, prio))
  BY <1>1, <1>2, <1>3, InsertList
<1>5. Rescheduled = IF suspended[running] \/ waiting[running] THEN others
                    ELSE Insert(others, running, prio)
  BY DEF Rescheduled, others
<1>6. /\ Rescheduled \in Seq(Threads)
      /\ NoDuplicates(Rescheduled)
      /\ Members(Rescheduled) =
           IF suspended[running] \/ waiting[running] THEN Members(others)
           ELSE Members(others) \cup {running}
  BY <1>3, <1>4, <1>5
<1>7. Idle \in Members(Rescheduled)
  BY <1>1, <1>3, <1>6
<1>8. GetTop(Rescheduled) \in Members(Rescheduled)
  BY <1>6, <1>7, GetTopMember
<1>9. Members(Rescheduled) \subseteq Registered
  BY <1>1, <1>3, <1>6
<1>10. Members(Rescheduled) =
         IF suspended[running] \/ waiting[running]
         THEN IF running = Idle THEN Members(ready) ELSE Members(ready) \ {running}
         ELSE Members(ready) \cup {running}
  BY <1>1, <1>3, <1>6
<1>11. QED
  BY <1>6, <1>7, <1>8, <1>9, <1>10

\* A switch, or a yield under a locked scheduler.
LEMMA PerformContextSwitchSafe ==
  ASSUME KInv, isRunning, PerformContextSwitch
  PROVE  KInv'
<1>0. /\ KernelTypeOK /\ SweepsInRange /\ StatusSound /\ ReadyListSound /\ NoLostThread
      /\ Registered \subseteq Threads
  BY GetTopMember DEF KInv, KernelTypeOK, Registered
<1>1. CASE lock = 0 /\ ready' = Rescheduled /\ running' = GetTop(Rescheduled) /\ UNCHANGED ret
  <2>1. UNCHANGED <<isPreemptive, lock, event, waiting, ret, bootVars,
                    statusVars, sweepVars>>
    BY <1>1 DEF PerformContextSwitch
  <2>2. /\ ready' \in Seq(Threads) /\ NoDuplicates(ready')
        /\ running' \in Registered
        /\ Idle \in Members(ready')
        /\ Members(ready') =
              IF suspended[running] \/ waiting[running]
              THEN IF running = Idle THEN Members(ready) ELSE Members(ready) \ {running}
              ELSE Members(ready) \cup {running}
    BY <1>1, RescheduledList
  <2>3. KernelTypeOK'
    BY <1>0, <2>1, <2>2 DEF KernelTypeOK, bootVars, statusVars, sweepVars
  <2>4. SweepsInRange'
    BY <1>0, <2>1 DEF SweepsInRange, bootVars, sweepVars
  <2>5. StatusSound'
    BY <1>0, <2>1, <2>2 DEF StatusSound, Registered, bootVars, statusVars
  <2>6. ReadyListSound'
    BY <1>0, <2>1, <2>2 DEF ReadyListSound, StatusSound, Registered, bootVars, statusVars
  <2>7. NoLostThread'
    BY <1>0, <2>1, <2>2 DEF NoLostThread, Registered, bootVars, statusVars
  <2>8. QED
    BY <2>3, <2>4, <2>5, <2>6, <2>7 DEF KInv
<1>2. CASE lock # 0 /\ ret' = [ret EXCEPT ![running] = "OS_LOCKED"] /\ UNCHANGED <<ready, running>>
  <2>1. UNCHANGED <<isPreemptive, running, ready, lock, event, waiting,
                    bootVars, statusVars, sweepVars>>
    BY <1>2 DEF PerformContextSwitch
  <2>2. ret' \in [Threads -> Rets]
    BY <1>0, <1>2 DEF KernelTypeOK, Rets
  <2>3. QED
    BY <1>0, <2>1, <2>2 DEF KInv, KernelTypeOK, SweepsInRange, StatusSound,
       ReadyListSound, NoLostThread, Registered, bootVars, statusVars, sweepVars
<1>3. QED
  BY <1>1, <1>2 DEF PerformContextSwitch

-----------------------------------------------------------------------------
(***************************************************************************)
(* Waiting and notifying.                                                  *)
(***************************************************************************)

LEMMA EventWaitRefusedSafe ==
  ASSUME KInv, NEW t \in Threads, NEW ev, EventWaitRefused(t, ev)
  PROVE  KInv'
<1>1. ret' \in [Threads -> Rets]
  BY DEF KInv, KernelTypeOK, EventWaitRefused, PrepareRefusal, Rets
<1>2. QED
  BY <1>1 DEF EventWaitRefused, KInv, KernelTypeOK, SweepsInRange, StatusSound,
     ReadyListSound, NoLostThread, Registered, bootVars, schedVars, statusVars,
     sweepVars

LEMMA EventWaitSetEventSafe ==
  ASSUME KInv, NEW t \in Threads, NEW ev \in Events \cup {NoEvent},
         EventWaitSetEvent(t, ev)
  PROVE  KInv'
<1>1. event' \in [Threads -> Events \cup {NoEvent}]
  BY DEF KInv, KernelTypeOK, EventWaitSetEvent
<1>2. QED
  BY <1>1 DEF EventWaitSetEvent, KInv, KernelTypeOK, SweepsInRange, StatusSound,
     ReadyListSound, NoLostThread, Registered, bootVars, schedVars, statusVars,
     sweepVars

LEMMA EventWaitSetWaitingSafe ==
  ASSUME KInv, NEW t \in Threads, EventWaitSetWaiting(t)
  PROVE  KInv'
<1>1. waiting' = [waiting EXCEPT ![t] = TRUE]
  BY DEF EventWaitSetWaiting
<1>2. waiting' \in [Threads -> BOOLEAN] /\ \A u \in Threads : waiting[u] => waiting'[u]
  BY <1>1 DEF KInv, KernelTypeOK
<1>3. Registered \subseteq Threads
  BY GetTopMember DEF KInv, KernelTypeOK, Registered
<1>4. QED
  BY <1>2, <1>3 DEF EventWaitSetWaiting, KInv, KernelTypeOK, SweepsInRange,
     StatusSound, ReadyListSound, NoLostThread, Registered, bootVars, schedVars,
     statusVars, sweepVars

LEMMA EventWaitPrepareSafe ==
  ASSUME KInv, NEW t \in Threads, NEW ev \in Events \cup {NoEvent},
         EventWaitPrepare(t, ev)
  PROVE  KInv'
<1>1. /\ waiting' = [waiting EXCEPT ![t] = TRUE]
      /\ event' = [event EXCEPT ![t] = ev]
  BY DEF EventWaitPrepare
<1>2. /\ event' \in [Threads -> Events \cup {NoEvent}]
      /\ waiting' \in [Threads -> BOOLEAN]
      /\ \A u \in Threads : waiting[u] => waiting'[u]
  BY <1>1 DEF KInv, KernelTypeOK
<1>3. Registered \subseteq Threads
  BY GetTopMember DEF KInv, KernelTypeOK, Registered
<1>4. QED
  BY <1>2, <1>3 DEF EventWaitPrepare, KInv, KernelTypeOK, SweepsInRange,
     StatusSound, ReadyListSound, NoLostThread, Registered, bootVars, schedVars,
     statusVars, sweepVars

\* One thread is offered the event: it is put in the ready list as it stops
\* waiting, and only if it is not suspended.
LEMMA NotifyThreadSafe ==
  ASSUME KInv, NEW t \in Registered, NEW ev, NEW r \in Rets,
         NotifyThread(t, ev, r)
  PROVE  /\ ready' \in Seq(Threads)
         /\ NoDuplicates(ready')
         /\ Members(ready') \subseteq Registered
         /\ Members(ready) \subseteq Members(ready')
         /\ \A u \in Threads : suspended[u] => u \notin Members(ready')
         /\ waiting' \in [Threads -> BOOLEAN]
         /\ \A u \in Threads : waiting[u] /\ ~waiting'[u] => u \in Members(ready')
         /\ event' \in [Threads -> Events \cup {NoEvent}]
         /\ ret' \in [Threads -> Rets]
<1>1. /\ ready \in Seq(Threads) /\ NoDuplicates(ready)
      /\ Members(ready) \subseteq Registered
      /\ \A u \in Threads : suspended[u] => u \notin Members(ready)
      /\ prio \in [Threads -> Nat]
      /\ waiting \in [Threads -> BOOLEAN]
      /\ event \in [Threads -> Events \cup {NoEvent}]
      /\ ret \in [Threads -> Rets]
      /\ t \in Threads
  BY GetTopMember DEF KInv, KernelTypeOK, ReadyListSound, Registered
<1>2. CASE Notifiable(t, ev)
  <2>1. /\ waiting' = [waiting EXCEPT ![t] = FALSE]
        /\ event' = [event EXCEPT ![t] = NoEvent]
        /\ ret' = [ret EXCEPT ![t] = r]
        /\ ready' = Insert(ready, t, prio)
    BY <1>2 DEF NotifyThread
  <2>2. ~suspended[t]
    BY <1>2 DEF Notifiable
  <2>3. /\ ready' \in Seq(Threads) /\ NoDuplicates(ready')
        /\ Members(ready') = Members(ready) \cup {t}
    <3>1. LET new == Insert(ready, t, prio)
          IN  /\ new \in Seq(Threads)
              /\ Members(new) = Members(ready) \cup {t}
              /\ NoDuplicates(ready) => NoDuplicates(new)
      BY <1>1, InsertList
    <3>2. QED
      BY <1>1, <2>1, <3>1
  <2>4. QED
    BY <1>1, <2>1, <2>2, <2>3
<1>3. CASE ~Notifiable(t, ev)
  BY <1>1, <1>3 DEF NotifyThread
<1>4. QED
  BY <1>2, <1>3

LEMMA EventNotifyThreadSafe ==
  ASSUME KInv, NEW t \in Registered, NEW ev, NEW r \in Rets,
         EventNotifyThread(t, ev, r)
  PROVE  KInv'
<1>1. UNCHANGED <<isPreemptive, running, lock, bootVars, statusVars, sweepVars>>
  BY DEF EventNotifyThread
<1>2. /\ ready' \in Seq(Threads) /\ NoDuplicates(ready')
      /\ Members(ready') \subseteq Registered
      /\ Members(ready) \subseteq Members(ready')
      /\ \A u \in Threads : suspended[u] => u \notin Members(ready')
      /\ waiting' \in [Threads -> BOOLEAN]
      /\ \A u \in Threads : waiting[u] /\ ~waiting'[u] => u \in Members(ready')
      /\ event' \in [Threads -> Events \cup {NoEvent}]
      /\ ret' \in [Threads -> Rets]
  BY NotifyThreadSafe DEF EventNotifyThread
<1>3. Registered \subseteq Threads
  BY GetTopMember DEF KInv, KernelTypeOK, Registered
<1>4. QED
  BY <1>1, <1>2, <1>3 DEF KInv, KernelTypeOK, SweepsInRange, StatusSound,
     ReadyListSound, NoLostThread, Registered, bootVars, statusVars, sweepVars

LEMMA SweepStartSafe ==
  ASSUME KInv, NEW c \in Contexts, NEW ev \in Events \cup {NoEvent},
         NEW r \in Rets, SweepStart(c, ev, r)
  PROVE  KInv'
<1> DEFINE s == [NoSweep EXCEPT !.ev = ev, !.ret = r,
                                !.at = IF RoundRobinNotify THEN notifyIndex ELSE 0]
<1>1. UNCHANGED <<notifyIndex, bootVars, schedVars, waitVars, statusVars>>
  BY DEF SweepStart
<1>2. sweep' = [sweep EXCEPT ![c] = s]
  BY DEF SweepStart
<1>3. /\ notifyIndex \in Nat /\ Len(threads) \in Nat
      /\ sweep \in [Contexts -> Sweeps]
  BY DEF KInv, KernelTypeOK
<1>4. s \in Sweeps /\ s.first = -1 /\ s.i = 0
      /\ s.at = IF RoundRobinNotify THEN notifyIndex ELSE 0
  BY <1>3 DEF NoSweep, Sweeps
<1> HIDE DEF s
<1>5. sweep' \in [Contexts -> Sweeps]
  BY <1>2, <1>3, <1>4
<1>6. SweepsInRange'
  <2>1. \A d \in Contexts : d # c => sweep'[d] = sweep[d]
    BY <1>2, <1>3
  <2>2. sweep'[c] = s
    BY <1>2, <1>3
  <2>3. QED
    BY <1>1, <1>3, <1>4, <2>1, <2>2 DEF KInv, SweepsInRange, bootVars
<1>7. QED
  BY <1>1, <1>5, <1>6 DEF KInv, KernelTypeOK, StatusSound, ReadyListSound,
     NoLostThread, Registered, bootVars, schedVars, waitVars, statusVars

\* The index after one in range is in range.
LEMMA NextIndexInRange ==
  ASSUME KInv, NEW i \in Nat
  PROVE  /\ NextIndex(i) \in Nat
         /\ NextIndex(i) = 0 \/ NextIndex(i) < Len(threads)
BY DEF KInv, KernelTypeOK, NextIndex

LEMMA SweepStepSafe ==
  ASSUME KInv, NEW c \in Contexts, SweepStep(c)
  PROVE  KInv'
<1> DEFINE s == sweep[c]
           t == threads[s.at + 1]
           hit == s.first = -1 /\ Notifiable(t, s.ev)
           new == [s EXCEPT !.i = s.i + 1,
                     !.at = IF RoundRobinNotify THEN NextIndex(s.at) ELSE s.at + 1,
                     !.first = IF hit THEN s.at ELSE s.first]
<1>0. /\ KernelTypeOK /\ SweepsInRange /\ StatusSound /\ ReadyListSound /\ NoLostThread
      /\ Registered \subseteq Threads
  BY GetTopMember DEF KInv, KernelTypeOK, Registered
<1>1. /\ ~SweepDone(c)
      /\ NotifyThread(t, s.ev, s.ret)
      /\ sweep' = [sweep EXCEPT ![c] = new]
      /\ UNCHANGED <<isPreemptive, running, lock, notifyIndex, bootVars, statusVars>>
  BY DEF SweepStep
<1>2. s \in Sweeps /\ Len(threads) \in Nat
  BY <1>0 DEF KernelTypeOK
<1>3. /\ s.i \in Nat /\ s.i < Len(threads) /\ s.at \in Nat /\ s.ret \in Rets
      /\ s.first \in Nat \cup {-1}
  BY <1>1, <1>2 DEF SweepDone, Sweeps
<1>4. s.at < Len(threads)
  BY <1>0, <1>2, <1>3 DEF SweepsInRange
<1>5. t \in Registered
  BY <1>2, <1>3, <1>4 DEF Registered, Members
<1>6. /\ new \in Sweeps
      /\ new.first < Len(threads)
      /\ new.i = s.i + 1
      /\ new.at = IF RoundRobinNotify THEN NextIndex(s.at) ELSE s.at + 1
  <2>1. NextIndex(s.at) \in Nat
    BY <1>3, NextIndexInRange
  <2>2. s.first < Len(threads)
    BY <1>0 DEF SweepsInRange
  <2> HIDE DEF t, hit
  <2>3. new \in Sweeps
    <3> DEFINE at == IF RoundRobinNotify THEN NextIndex(s.at) ELSE s.at + 1
               first == IF hit THEN s.at ELSE s.first
    <3>1. at \in Nat /\ first \in Nat \cup {-1} /\ s.i + 1 \in Nat
      BY <1>3, <2>1
    <3>2. new = [s EXCEPT !.i = s.i + 1, !.at = at, !.first = first]
      OBVIOUS
    <3> HIDE DEF at, first, new
    <3>3. QED
      BY <1>2, <3>1, <3>2 DEF Sweeps
  <2>4. /\ new.first = IF hit THEN s.at ELSE s.first
        /\ new.i = s.i + 1
        /\ new.at = IF RoundRobinNotify THEN NextIndex(s.at) ELSE s.at + 1
    BY <1>2 DEF Sweeps
  <2>5. QED
    BY <1>4, <2>2, <2>3, <2>4
<1> HIDE DEF new, t
<1>7. sweep' \in [Contexts -> Sweeps]
  BY <1>0, <1>1, <1>6 DEF KernelTypeOK
<1>8. SweepsInRange'
  <2>1. \A d \in Contexts : sweep'[d] = IF d = c THEN new ELSE sweep[d]
    BY <1>0, <1>1 DEF KernelTypeOK
  <2>2. NextIndex(s.at) = 0 \/ NextIndex(s.at) < Len(threads)
    BY <1>3, NextIndexInRange
  <2>3. ~RoundRobinNotify => s.at = s.i
    BY <1>0 DEF SweepsInRange
  <2>4. QED
    BY <1>0, <1>1, <1>6, <2>1, <2>2, <2>3 DEF SweepsInRange, bootVars
<1>9. /\ ready' \in Seq(Threads)
      /\ NoDuplicates(ready')
      /\ Members(ready') \subseteq Registered
      /\ Members(ready) \subseteq Members(ready')
      /\ \A u \in Threads : suspended[u] => u \notin Members(ready')
      /\ waiting' \in [Threads -> BOOLEAN]
      /\ \A u \in Threads : waiting[u] /\ ~waiting'[u] => u \in Members(ready')
      /\ event' \in [Threads -> Events \cup {NoEvent}]
      /\ ret' \in [Threads -> Rets]
  BY <1>1, <1>3, <1>5, NotifyThreadSafe
<1>10. KernelTypeOK'
  BY <1>0, <1>1, <1>7, <1>9 DEF KernelTypeOK, bootVars, statusVars
<1>11. StatusSound'
  BY <1>0, <1>1 DEF StatusSound, Registered, bootVars, statusVars
<1>12. ReadyListSound'
  BY <1>0, <1>1, <1>9 DEF ReadyListSound, Registered, bootVars, statusVars
<1>13. NoLostThread'
  BY <1>0, <1>1, <1>9 DEF NoLostThread, Registered, bootVars, statusVars
<1>14. QED
  BY <1>8, <1>10, <1>11, <1>12, <1>13 DEF KInv

LEMMA SweepEndSafe ==
  ASSUME KInv, NEW c \in Contexts, SweepEnd(c)
  PROVE  KInv'
<1>1. /\ sweep' = [sweep EXCEPT ![c] = NoSweep]
      /\ notifyIndex' =
           IF ~RoundRobinNotify THEN notifyIndex
           ELSE NextIndex(IF sweep[c].first > 0 THEN sweep[c].first ELSE notifyIndex)
      /\ UNCHANGED <<bootVars, schedVars, waitVars, statusVars>>
  BY DEF SweepEnd
<1>2. /\ KernelTypeOK /\ SweepsInRange
      /\ notifyIndex \in Nat /\ Len(threads) \in Nat
      /\ sweep \in [Contexts -> Sweeps]
  BY DEF KInv, KernelTypeOK
<1>3. notifyIndex' \in Nat /\ (notifyIndex' = 0 \/ notifyIndex' < Len(threads))
  <2>1. sweep[c].first \in Nat \cup {-1}
    BY <1>2 DEF Sweeps
  <2> DEFINE from == IF sweep[c].first > 0 THEN sweep[c].first ELSE notifyIndex
  <2>2. from \in Nat
    BY <1>2, <2>1
  <2> HIDE DEF from
  <2>3. /\ NextIndex(from) \in Nat
        /\ NextIndex(from) = 0 \/ NextIndex(from) < Len(threads)
    BY <2>2, NextIndexInRange
  <2>4. notifyIndex' = IF ~RoundRobinNotify THEN notifyIndex ELSE NextIndex(from)
    BY <1>1 DEF from
  <2>5. QED
    BY <1>1, <1>2, <2>3, <2>4 DEF SweepsInRange, bootVars
<1>4. /\ NoSweep \in Sweeps /\ NoSweep.first = -1
      /\ NoSweep.at = 0 /\ NoSweep.i = 0
  BY DEF NoSweep, Sweeps, Rets
<1>5. sweep' \in [Contexts -> Sweeps]
  BY <1>1, <1>2, <1>4
<1>6. SweepsInRange'
  <2>1. \A d \in Contexts : sweep'[d] = IF d = c THEN NoSweep ELSE sweep[d]
    BY <1>1, <1>2
  <2>2. QED
    BY <1>1, <1>2, <1>3, <1>4, <2>1 DEF SweepsInRange, bootVars
<1>7. QED
  BY <1>1, <1>3, <1>5, <1>6 DEF KInv, KernelTypeOK, StatusSound, ReadyListSound,
     NoLostThread, Registered, bootVars, schedVars, waitVars, statusVars

-----------------------------------------------------------------------------
(***************************************************************************)
(* Thread control.                                                         *)
(***************************************************************************)

LEMMA SuspendThreadSafe ==
  ASSUME KInv, NEW t \in Registered \ {Idle}, SuspendThread(t)
  PROVE  KInv'
<1>1. /\ suspended' = [suspended EXCEPT ![t] = TRUE]
      /\ ready' = Remove(ready, t)
      /\ UNCHANGED <<isPreemptive, running, lock, interrupted, prio, bootVars,
                     waitVars, sweepVars>>
  BY DEF SuspendThread
<1>2. /\ KernelTypeOK /\ SweepsInRange /\ StatusSound /\ ReadyListSound /\ NoLostThread
      /\ Registered \subseteq Threads
  BY GetTopMember DEF KInv, KernelTypeOK, Registered
<1>3. ready \in Seq(Threads) /\ NoDuplicates(ready)
  BY <1>2 DEF KernelTypeOK, ReadyListSound
<1>4. LET new == Remove(ready, t)
      IN  /\ new \in Seq(Threads)
          /\ Members(new) = IF t = Idle THEN Members(ready) ELSE Members(ready) \ {t}
          /\ NoDuplicates(new)
  BY <1>3, RemoveList
<1>5. /\ ready' \in Seq(Threads) /\ NoDuplicates(ready')
      /\ Members(ready') = Members(ready) \ {t}
  BY <1>1, <1>4
<1>6. /\ suspended' \in [Threads -> BOOLEAN]
      /\ \A u \in Threads : suspended'[u] = (u = t \/ suspended[u])
  BY <1>1, <1>2 DEF KernelTypeOK
<1>7. KernelTypeOK' /\ SweepsInRange'
  BY <1>1, <1>2, <1>5, <1>6 DEF KernelTypeOK, SweepsInRange, bootVars, waitVars, sweepVars
<1>8. StatusSound'
  BY <1>1, <1>2, <1>6, KernelAssumption DEF StatusSound, Registered, bootVars
<1>9. ReadyListSound'
  BY <1>1, <1>2, <1>5, <1>6 DEF ReadyListSound, Registered, bootVars
<1>10. NoLostThread'
  BY <1>1, <1>2, <1>5, <1>6 DEF NoLostThread, Registered, bootVars, waitVars
<1>11. QED
  BY <1>7, <1>8, <1>9, <1>10 DEF KInv

LEMMA ResumeThreadSafe ==
  ASSUME KInv, NEW t \in Registered, ResumeThread(t)
  PROVE  KInv'
<1>1. /\ suspended' = [suspended EXCEPT ![t] = FALSE]
      /\ ready' = Insert(ready, t, prio)
      /\ UNCHANGED <<isPreemptive, running, lock, interrupted, prio, bootVars,
                     waitVars, sweepVars>>
  BY DEF ResumeThread
<1>2. /\ KernelTypeOK /\ SweepsInRange /\ StatusSound /\ ReadyListSound /\ NoLostThread
      /\ Registered \subseteq Threads
  BY GetTopMember DEF KInv, KernelTypeOK, Registered
<1>3. ready \in Seq(Threads) /\ NoDuplicates(ready) /\ prio \in [Threads -> Nat]
      /\ t \in Threads
  BY <1>2 DEF KernelTypeOK, ReadyListSound
<1>4. LET new == Insert(ready, t, prio)
      IN  /\ new \in Seq(Threads)
          /\ Members(new) = Members(ready) \cup {t}
          /\ NoDuplicates(ready) => NoDuplicates(new)
  BY <1>3, InsertList
<1>5. /\ ready' \in Seq(Threads) /\ NoDuplicates(ready')
      /\ Members(ready') = Members(ready) \cup {t}
  BY <1>1, <1>3, <1>4
<1>6. /\ suspended' \in [Threads -> BOOLEAN]
      /\ \A u \in Threads : suspended'[u] = (u # t /\ suspended[u])
  BY <1>1, <1>2 DEF KernelTypeOK
<1>7. KernelTypeOK' /\ SweepsInRange'
  BY <1>1, <1>2, <1>5, <1>6 DEF KernelTypeOK, SweepsInRange, bootVars, waitVars, sweepVars
<1>8. StatusSound'
  BY <1>1, <1>2, <1>6, KernelAssumption DEF StatusSound, Registered, bootVars
<1>9. ReadyListSound'
  BY <1>1, <1>2, <1>5, <1>6 DEF ReadyListSound, Registered, bootVars
<1>10. NoLostThread'
  BY <1>1, <1>2, <1>5, <1>6 DEF NoLostThread, Registered, bootVars, waitVars
<1>11. QED
  BY <1>7, <1>8, <1>9, <1>10 DEF KInv

LEMMA SetInterruptionSafe ==
  ASSUME KInv, NEW t \in Threads, NEW flag \in BOOLEAN, SetInterruption(t, flag)
  PROVE  KInv'
<1>1. interrupted' \in [Threads -> BOOLEAN]
  BY DEF KInv, KernelTypeOK, SetInterruption
<1>2. QED
  BY <1>1 DEF SetInterruption, KInv, KernelTypeOK, SweepsInRange, StatusSound,
     ReadyListSound, NoLostThread, Registered, bootVars, schedVars, waitVars,
     sweepVars

LEMMA SetPrioritySafe ==
  ASSUME KInv, NEW t \in Threads, NEW p \in Nat, SetPriority(t, p)
  PROVE  KInv'
<1>1. prio' \in [Threads -> Nat]
  BY DEF KInv, KernelTypeOK, SetPriority
<1>2. QED
  BY <1>1 DEF SetPriority, KInv, KernelTypeOK, SweepsInRange, StatusSound,
     ReadyListSound, NoLostThread, Registered, bootVars, schedVars, waitVars,
     sweepVars

LEMMA SetPreemptiveSafe ==
  ASSUME KInv, NEW flag \in BOOLEAN, SetPreemptive(flag)
  PROVE  KInv'
BY DEF SetPreemptive, KInv, KernelTypeOK, SweepsInRange, StatusSound,
   ReadyListSound, NoLostThread, Registered, bootVars, waitVars, statusVars,
   sweepVars

LEMMA SetLockSafe ==
  ASSUME KInv, NEW n \in Nat, SetLock(n)
  PROVE  KInv'
BY DEF SetLock, KInv, KernelTypeOK, SweepsInRange, StatusSound, ReadyListSound,
   NoLostThread, Registered, bootVars, waitVars, statusVars, sweepVars

\* What appending to ms_threads does.
LEMMA AppendMembers ==
  ASSUME NEW S, NEW list \in Seq(S), NEW t \in S
  PROVE  /\ Append(list, t) \in Seq(S)
         /\ Len(Append(list, t)) = Len(list) + 1
         /\ Members(Append(list, t)) = Members(list) \cup {t}
<1> DEFINE new == Append(list, t)
<1>1. /\ new \in Seq(S) /\ Len(new) = Len(list) + 1 /\ Len(list) \in Nat
      /\ \A i \in 1..Len(list) : new[i] = list[i]
      /\ new[Len(list) + 1] = t
  OBVIOUS
<1> HIDE DEF new
<1>2. Members(new) \subseteq Members(list) \cup {t}
  <2>1. ASSUME NEW i \in 1..Len(new)
        PROVE  new[i] \in Members(list) \cup {t}
    BY <1>1 DEF Members
  <2>2. QED
    BY <2>1 DEF Members
<1>3. \A i \in 1..Len(list) : list[i] \in Members(new)
  <2>1. ASSUME NEW i \in 1..Len(list)
        PROVE  list[i] \in Members(new)
    <3>1. i \in 1..Len(new) /\ new[i] = list[i]
      BY <1>1
    <3>2. QED
      BY <3>1 DEF Members
  <2>2. QED
    BY <2>1
<1>4. t \in Members(new)
  <2>1. Len(list) + 1 \in 1..Len(new)
    BY <1>1
  <2>2. QED
    BY <1>1, <2>1 DEF Members
<1>5. Members(new) = Members(list) \cup {t}
  BY <1>2, <1>3, <1>4 DEF Members
<1>6. QED
  BY <1>1, <1>5 DEF new

\* The scheduler takes a new thread, or refuses it because the table is full.
LEMMA ThreadRegisterSafe ==
  ASSUME KInv, NEW t \in Threads \ Registered, ThreadRegister(t)
  PROVE  KInv'
<1>1. /\ KernelTypeOK /\ SweepsInRange /\ StatusSound /\ ReadyListSound /\ NoLostThread
      /\ UNCHANGED <<isRunning, isPreemptive, running, lock, waitVars,
                     statusVars, sweepVars>>
  BY DEF KInv, ThreadRegister
<1>2. CASE Len(threads) < MaxThreads
  <2>1. /\ threads' = Append(threads, t)
        /\ ready' = IF isRunning THEN Insert(ready, t, prio) ELSE ready
    BY <1>2 DEF ThreadRegister
  <2>2. /\ threads \in Seq(Threads) /\ ready \in Seq(Threads)
        /\ NoDuplicates(ready) /\ prio \in [Threads -> Nat]
    BY <1>1 DEF KernelTypeOK, ReadyListSound
  <2>3. /\ threads' \in Seq(Threads)
        /\ Len(threads') = Len(threads) + 1
        /\ Registered' = Registered \cup {t}
    BY <2>1, <2>2, AppendMembers DEF Registered
  <2>4. LET new == Insert(ready, t, prio)
        IN  /\ new \in Seq(Threads)
            /\ Members(new) = Members(ready) \cup {t}
            /\ NoDuplicates(ready) => NoDuplicates(new)
    BY <2>2, InsertList
  <2>5. /\ ready' \in Seq(Threads) /\ NoDuplicates(ready')
        /\ Members(ready') = IF isRunning THEN Members(ready) \cup {t} ELSE Members(ready)
    BY <2>1, <2>2, <2>4
  <2>6. KernelTypeOK'
    BY <1>1, <2>3, <2>5 DEF KernelTypeOK, waitVars, statusVars, sweepVars
  <2>7. SweepsInRange'
    <3>1. Len(threads) \in Nat /\ notifyIndex \in Nat
          /\ \A c \in Contexts : sweep[c].at \in Nat /\ sweep[c].first \in Nat \cup {-1}
      BY <1>1 DEF KernelTypeOK, Sweeps
    <3>2. QED
      BY <1>1, <2>3, <3>1 DEF SweepsInRange, sweepVars
  <2>8. StatusSound'
    BY <1>1, <2>3 DEF StatusSound, statusVars
  <2>9. ReadyListSound'
    BY <1>1, <2>3, <2>5 DEF ReadyListSound, StatusSound, statusVars
  <2>10. NoLostThread'
    BY <1>1, <2>3, <2>5 DEF NoLostThread, waitVars, statusVars
  <2>11. QED
    BY <2>6, <2>7, <2>8, <2>9, <2>10 DEF KInv
<1>3. CASE ~(Len(threads) < MaxThreads)
  <2>1. UNCHANGED kernelVars
    BY <1>1, <1>3 DEF ThreadRegister, kernelVars, bootVars, schedVars
  <2>2. QED
    BY <2>1, KernelStutter
<1>4. QED
  BY <1>2, <1>3

-----------------------------------------------------------------------------
(***************************************************************************)
(* Interrupts (OSInterrupts)                                               *)
(***************************************************************************)

\* The state of the interrupt; one is served only once the scheduler runs.
IsrSound ==
  /\ isrPc \in {"off", "notify", "tick", "cancel", "expire", "fire", "delivered"}
  /\ isrIdx \in Nat
  /\ isrPc # "off" => isRunning

LEMMA IsrGotoSafe ==
  ASSUME IsrSound, isRunning, UNCHANGED isRunning,
         NEW l \in {"off", "notify", "tick", "cancel", "expire", "fire", "delivered"}, NEW i \in Nat,
         IsrGoto(l, i)
  PROVE  IsrSound'
BY DEF IsrSound, IsrGoto

LEMMA IsrNotifySafe ==
  ASSUME KInv, IsrSound, isRunning,
         NEW ev \in Events, NEW r \in Rets, IsrNotify(ev, r)
  PROVE  KInv' /\ IsrSound' /\ UNCHANGED isRunning
<1>1. KInv'
  BY SweepStartSafe DEF IsrNotify, Contexts
<1>2. UNCHANGED isRunning
  BY DEF IsrNotify, SweepStart, bootVars
<1>3. QED
  BY <1>1, <1>2, IsrGotoSafe DEF IsrNotify

LEMMA IsrTickSafe ==
  ASSUME KInv, IsrSound, isRunning, IsrTick
  PROVE  KInv' /\ IsrSound' /\ UNCHANGED isRunning
<1>1. UNCHANGED isRunning
  BY DEF IsrTick, kernelVars, bootVars
<1>2. QED
  BY <1>1, KernelStutter, IsrGotoSafe DEF IsrTick

LEMMA HandlerStepSafe ==
  ASSUME KInv, IsrSound, HandlerStep
  PROVE  KInv' /\ IsrSound' /\ isRunning /\ UNCHANGED isRunning
<1>0. /\ Isr \in Contexts
      /\ isrIdx \in Nat /\ Len(threads) \in Nat
      /\ \A i \in 1..Len(threads) : threads[i] \in Threads
      /\ isRunning
  BY DEF Contexts, IsrSound, KInv, KernelTypeOK, HandlerStep, TickThread,
     IsrSweepStep, TickCancelled, IsrNotified, IsrExit
<1>1. CASE TickThread
  <2> DEFINE u == threads[isrIdx + 1]
  <2>1. /\ \/ SweepStart(Isr, event[u], "OS_CANCELLED") /\ IsrGoto("cancel", isrIdx)
           \/ IsrGoto("tick", isrIdx + 1) /\ UNCHANGED kernelVars
        /\ u \in Threads
    BY <1>0, <1>1 DEF TickThread
  <2>2. event[u] \in Events \cup {NoEvent} /\ "OS_CANCELLED" \in Rets
    BY <2>1 DEF KInv, KernelTypeOK, Rets
  <2> HIDE DEF u
  <2>3. KInv'
    BY <1>0, <2>1, <2>2, SweepStartSafe, KernelStutter
  <2>4. UNCHANGED isRunning
    BY <2>1 DEF SweepStart, kernelVars, bootVars
  <2>5. QED
    BY <1>0, <2>1, <2>3, <2>4, IsrGotoSafe
<1>2. CASE IsrSweepStep
  <2>1. KInv'
    BY <1>0, <1>2, SweepStepSafe DEF IsrSweepStep
  <2>2. UNCHANGED isRunning
    BY <1>2 DEF IsrSweepStep, SweepStep, bootVars
  <2>3. QED
    BY <1>0, <1>2, <2>1, <2>2 DEF IsrSweepStep, IsrSound, isrVars
<1>3. CASE TickCancelled \/ IsrNotified
  <2>1. KInv'
    BY <1>0, <1>3, SweepEndSafe DEF TickCancelled, IsrNotified
  <2>2. UNCHANGED isRunning
    BY <1>3 DEF TickCancelled, IsrNotified, SweepEnd, bootVars
  <2>3. QED
    BY <1>0, <1>3, <2>1, <2>2, IsrGotoSafe DEF TickCancelled, IsrNotified
<1>4. CASE IsrExit
  <2>1. IsrGoto("off", 0) /\ (PerformContextSwitch \/ UNCHANGED kernelVars)
    BY <1>4 DEF IsrExit
  <2>2. KInv'
    BY <1>0, <2>1, PerformContextSwitchSafe, KernelStutter
  <2>3. UNCHANGED isRunning
    BY <2>1 DEF PerformContextSwitch, kernelVars, bootVars
  <2>4. QED
    BY <1>0, <2>1, <2>2, <2>3, IsrGotoSafe
<1>5. QED
  BY <1>1, <1>2, <1>3, <1>4 DEF HandlerStep

=============================================================================
