---------------------------- MODULE OSMutex_proofs ----------------------------
(***************************************************************************)
(* The mutex has one owner at most, its list holds exactly the threads     *)
(* that wait for it, and none of them is left waiting, for any number of   *)
(* threads and any interrupt.                                              *)
(***************************************************************************)
EXTENDS OSMutex, OSStarted_proofs

\* Inductive: acquire() finds the flag clear only when no thread is between
\* its acquire() and its release(), and release() clears it for its owner.
OwnerInv ==
  /\ DOMAIN pc = Threads
  /\ MutualExclusion

-----------------------------------------------------------------------------

\* A step of thread t, to a place where it is not the owner, that leaves the
\* mutex alone.
LEMMA GotoKeeps ==
  ASSUME OwnerInv, NEW t \in Threads, NEW l, l # "owner",
         pc' = [pc EXCEPT ![t] = l], UNCHANGED <<isAcquired, owner>>
  PROVE  OwnerInv'
BY DEF OwnerInv, MutualExclusion

\* A step of nobody's control state does, too.
LEMMA StutterKeeps ==
  ASSUME OwnerInv, UNCHANGED <<pc, isAcquired, owner>>
  PROVE  OwnerInv'
BY DEF OwnerInv, MutualExclusion

\* acquire(): the flag was clear, so no other thread is the owner.
LEMMA AcquireKeeps ==
  ASSUME OwnerInv, NEW t \in Threads, Acquire(t)
  PROVE  OwnerInv'
<1>1. CASE AcquireFree(t)
  BY <1>1 DEF AcquireFree, Goto, OwnerInv, MutualExclusion
<1>2. CASE AcquireWait(t)
  BY <1>2, GotoKeeps DEF AcquireWait, Goto
<1>3. CASE AcquireRefused(t)
  BY <1>3, GotoKeeps DEF AcquireRefused, Goto, mutexVars
<1>4. QED
  BY <1>1, <1>2, <1>3 DEF Acquire

\* release(): its caller is the only owner.
LEMMA ReleaseKeeps ==
  ASSUME OwnerInv, NEW t \in Threads, Release(t)
  PROVE  OwnerInv'
BY DEF Release, Goto, OwnerInv, MutualExclusion

\* The rest of the two calls leaves the mutex alone.
LEMMA MutexStepKeeps ==
  ASSUME OwnerInv, NEW t \in Threads, MutexStep(t)
  PROVE  OwnerInv'
<1>1. CASE Perform(t)
  <2>1. CASE HasList
    BY <1>1, <2>1, GotoKeeps DEF Perform, Goto, mutexVars
  <2>2. CASE ~HasList
    BY <1>1, <2>2, GotoKeeps DEF Perform, Goto, mutexVars
  <2>3. QED
    BY <2>1, <2>2
<1>2. CASE Unlist(t)
  BY <1>2, GotoKeeps DEF Unlist, Goto
<1>3. CASE CheckEvent(t)
  <2>1. CASE ret[t] = "event"
    BY <1>3, <2>1, GotoKeeps DEF CheckEvent, Goto, mutexVars
  <2>2. CASE ret[t] # "event"
    BY <1>3, <2>2, GotoKeeps DEF CheckEvent, Goto, mutexVars
  <2>3. QED
    BY <2>1, <2>2
<1>4. CASE NotifyAll(t)
  BY <1>4, GotoKeeps DEF NotifyAll, Goto, mutexVars
<1>5. CASE NotifyAllStep(t)
  BY <1>5, GotoKeeps, StutterKeeps DEF NotifyAllStep, mutexVars
<1>6. CASE NotifyWaiters(t)
  BY <1>6, GotoKeeps DEF NotifyWaiters, Goto, mutexVars
<1>7. CASE NotifyWaiter(t)
  BY <1>7, GotoKeeps, StutterKeeps DEF NotifyWaiter, mutexVars
<1>8. CASE ReleaseYield(t)
  BY <1>8, GotoKeeps DEF ReleaseYield, Goto, mutexVars
<1>9. QED
  BY <1>1, <1>2, <1>3, <1>4, <1>5, <1>6, <1>7, <1>8 DEF MutexStep

\* Nor do interruptions, the idle thread and interrupts touch it.
LEMMA KernelKeeps ==
  ASSUME OwnerInv, Kernel
  PROVE  OwnerInv'
<1>1. UNCHANGED <<isAcquired, owner>>
  BY DEF Kernel, mutexVars
<1>2. CASE IdleYield
  BY <1>1, <1>2, StutterKeeps DEF IdleYield, threadVars
<1>3. ASSUME NEW t \in Threads, StartInterruption(t)
      PROVE  OwnerInv'
  BY <1>1, <1>3, GotoKeeps, StutterKeeps
     DEF StartInterruption, AckInterruption, RequestInterruption, threadVars
<1>4. ASSUME NEW t \in Threads, Cancel(t)
      PROVE  OwnerInv'
  BY <1>1, <1>4, GotoKeeps DEF Cancel, Goto
<1>5. ASSUME NEW t \in Threads, CancelStep(t)
      PROVE  OwnerInv'
  BY <1>1, <1>5, GotoKeeps, StutterKeeps DEF CancelStep, threadVars
<1>6. CASE Tick(Critical)
  BY <1>1, <1>6, StutterKeeps DEF Tick, threadVars
<1>7. CASE Handler
  BY <1>1, <1>7, StutterKeeps DEF Handler, threadVars
<1>8. QED
  BY <1>2, <1>3, <1>4, <1>5, <1>6, <1>7 DEF Kernel

LEMMA OwnerInitSafe == Init => OwnerInv
BY DEF Init, StartedInit, OwnerInv, MutualExclusion

LEMMA OwnerStep ==
  ASSUME OwnerInv, [Next]_vars
  PROVE  OwnerInv'
<1>1. ASSUME NEW t \in Threads, Acquire(t) \/ Release(t) \/ MutexStep(t)
      PROVE  OwnerInv'
  BY <1>1, AcquireKeeps, ReleaseKeeps, MutexStepKeeps
<1>2. CASE Kernel
  BY <1>2, KernelKeeps
<1>3. CASE UNCHANGED vars
  BY <1>3, StutterKeeps DEF vars, threadVars, mutexVars
<1>4. QED
  BY <1>1, <1>2, <1>3 DEF Next

-----------------------------------------------------------------------------

\* OSMutex::acquire and OSMutex::release: two threads are never between the
\* two at the same time.
THEOREM MutexHasOneOwner == Spec => []MutualExclusion
<1>1. OwnerInv => MutualExclusion
  BY DEF OwnerInv
<1>2. QED
  BY <1>1, OwnerInitSafe, OwnerStep, PTL DEF Spec

-----------------------------------------------------------------------------
(***************************************************************************)
(* The list of waiting threads.                                            *)
(***************************************************************************)

\* OSMutexWaitingThreads::remove takes the thread out and nothing else.
LEMMA RemoveLastList ==
  ASSUME NEW list \in Seq(Threads), NoDuplicates(list), NEW t \in Threads, t # Idle
  PROVE  LET new == RemoveLast(list, t)
         IN  /\ new \in Seq(Threads) /\ NoDuplicates(new)
             /\ Members(new) = Members(list) \ {t}
             /\ Len(new) <= Len(list)
<1>1. CASE ~Find(list, t)
  BY <1>1 DEF RemoveLast, Find, Members
<1>2. CASE Find(list, t)
  <2>1. Len(list) \in Nat
    OBVIOUS
  <2>2. PICK i \in 1..Len(list) : list[i] = t
    BY <1>2 DEF Find
  <2>3. \A j \in i + 1..Len(list) : list[j] # t
    BY <2>1, <2>2 DEF NoDuplicates
  <2>4. (CHOOSE k \in 1..Len(list) : list[k] = t /\ \A j \in k + 1..Len(list) : list[j] # t) = i
    BY <2>2, <2>3 DEF NoDuplicates
  <2>5. (CHOOSE k \in 1..Len(list) : list[k] = t) = i
    BY <2>2 DEF NoDuplicates
  <2>6. RemoveLast(list, t) = ShiftLeft(list, i) /\ Remove(list, t) = ShiftLeft(list, i)
    BY <1>2, <2>4, <2>5 DEF RemoveLast, Remove
  <2>7. Len(ShiftLeft(list, i)) <= Len(list)
    <3>1. DOMAIN ShiftLeft(list, i) = 1..Len(list) - 1
      BY DEF ShiftLeft
    <3>2. ShiftLeft(list, i) \in Seq(Threads)
      BY <2>6, RemoveList
    <3>3. Len(ShiftLeft(list, i)) = Len(list) - 1
      BY <2>1, <2>2, <3>1, <3>2
    <3>4. QED
      BY <2>1, <3>3
  <2>8. QED
    BY <2>6, <2>7, RemoveList
<1>3. QED
  BY <1>1, <1>2

\* Apart from the idle thread, the one that asks for the mutex and its owner
\* there are as many threads as places at most.
LEMMA WaitersFit ==
  ASSUME NEW list \in Seq(Threads), NoDuplicates(list),
         NEW t \in Threads, NEW u \in Threads, t # u, t # Idle, u # Idle,
         {t, u, Idle} \cap Members(list) = {}
  PROVE  Len(list) < Len(Initial) - 2
<1> DEFINE n == Len(Initial)
           S1 == Threads \ {t}
           S2 == S1 \ {u}
           S == S2 \ {Idle}
<1>1. n \in Nat
  BY StartedAssumption
<1> HIDE DEF n
<1>2. IsFiniteSet(Threads) /\ Cardinality(Threads) <= n
  BY ThreadsFit DEF n
<1>3. IsFiniteSet(S) /\ Cardinality(S) = Cardinality(Threads) - 3 /\ Cardinality(Threads) \in Nat
  <2>1. IsFiniteSet(S1) /\ Cardinality(S1) = Cardinality(Threads) - 1
    BY <1>2, FS_RemoveElement
  <2>2. IsFiniteSet(S2) /\ Cardinality(S2) = Cardinality(S1) - 1
    BY <2>1, FS_RemoveElement
  <2>3. IsFiniteSet(S) /\ Cardinality(S) = Cardinality(S2) - 1
    BY <2>2, FS_RemoveElement, KernelAssumption
  <2>4. Cardinality(Threads) \in Nat
    BY <1>2, FS_CardinalityType
  <2> HIDE DEF S1, S2, S
  <2>5. QED
    BY <2>1, <2>2, <2>3, <2>4
<1>4. list \in Seq(S)
  <2>1. \A i \in 1..Len(list) : list[i] \in S
    BY SMTT(30) DEF Members
  <2>2. QED
    BY <2>1
<1>5. Len(list) <= Cardinality(S)
  BY <1>3, <1>4, ListIsShort
<1>6. QED
  BY <1>1, <1>2, <1>3, <1>5 DEF n

-----------------------------------------------------------------------------
(***************************************************************************)
(* The mutex and the kernel.                                               *)
(***************************************************************************)

\* Where a thread can be.
Places == Releasing \cup {"main", "cancel", "cancelSweep", "acquire",
                          "perform", "unlist", "check", "owner"}

\* Where it is outside of the two calls.
Elsewhere == {"main", "cancel", "cancelSweep"}

IsrInRange ==
  /\ isrPc \in {"off", "tick", "cancel"} /\ isrIdx \in 0..Len(threads)
  /\ isrPc = "cancel" => isrIdx < Len(threads)

\* A list, if there is one, has room for all the threads that may wait at once:
\* all but the idle thread and the owner.
ListsSuffice == \A n \in Lists : n > 0 => n >= Len(Initial) - 2

ListInv ==
  /\ waiters \in Seq(Threads) /\ NoDuplicates(waiters)
  /\ waiters = <<>> \/ Len(waiters) <= listSize
  /\ \A t \in Threads : t \in Members(waiters) => pc[t] \in {"perform", "unlist"}
  /\ listSize > 0 /\ ListsSuffice =>
       \A t \in Threads : pc[t] \in {"perform", "unlist"} => t \in Members(waiters)

\* The idle thread never asks for the mutex, and who holds it has yet to release
\* it.
MutexData ==
  /\ pc \in [Threads -> Places]
  /\ \A t \in Threads : pc[t] \notin Elsewhere => t # Idle
  /\ IsrInRange
  /\ isAcquired \in BOOLEAN /\ owner \in Threads \cup {NoThread}
  /\ isAcquired => owner \in Threads /\ pc[owner] = "owner"
  /\ listSize \in Lists
  /\ next \in [Threads -> Nat]
  /\ ListInv

MutexInv == StartedInv /\ OwnerInv /\ MutexData

LEMMA MutexInitSafe == Init => MutexInv
<1> SUFFICES ASSUME Init PROVE MutexInv
  OBVIOUS
<1>1. StartedInv /\ OwnerInv
  BY StartedInitSafe, OwnerInitSafe DEF Init
<1>2. /\ pc = [t \in Threads |-> "main"] /\ isrPc = "off" /\ isrIdx = 0
      /\ threads = Initial /\ Len(Initial) \in Nat
  BY StartedAssumption DEF Init, StartedInit
<1>3. ListInv
  BY <1>2 DEF Init, ListInv, NoDuplicates, Members
<1>4. pc \in [Threads -> Places] /\ \A t \in Threads : pc[t] \in Elsewhere
  BY <1>2 DEF Places, Elsewhere
<1>5. IsrInRange /\ isAcquired = FALSE /\ owner = NoThread /\ listSize \in Lists
  BY <1>2 DEF Init, IsrInRange
<1>6. next \in [Threads -> Nat]
  BY DEF Init
<1>7. MutexData
  BY <1>3, <1>4, <1>5, <1>6 DEF MutexData
<1>8. QED
  BY <1>1, <1>7 DEF MutexInv

\* What the calls do to the kernel.
LEMMA MutexKeepsStarted ==
  ASSUME MutexInv, NEW t \in Threads, Acquire(t) \/ Release(t) \/ MutexStep(t)
  PROVE  StartedInv'
<1> USE DEF Goto, At
<1>0. /\ StartedInv /\ KInv /\ running \in Members(ready) /\ MutexEvent \in Events
      /\ Registered = Threads /\ "event" \in Rets /\ waiters \in Seq(Threads)
      /\ next \in [Threads -> Nat]
  BY MutexAssumption, StartedAssumption
     DEF MutexInv, MutexData, ListInv, StartedInv, Registered, Rets
<1>1. ASSUME NEW m, pc[t] = m, m \notin Sweeping, NEW l, l \notin Sweeping \cup {"cancel"},
             pc' = [pc EXCEPT ![t] = l], UNCHANGED <<target, isrVars>>,
             KInv', UNCHANGED <<bootVars, schedVars, suspended, sweep>>
      PROVE  StartedInv'
  BY <1>0, <1>1, GotoKeepsStarted DEF schedVars
<1>2. ASSUME NEW m, pc[t] = m, m \notin Sweeping, NEW l, l \notin Sweeping \cup {"cancel"},
             pc' = [pc EXCEPT ![t] = l], UNCHANGED <<target, isrVars, kernelVars>>
      PROVE  StartedInv'
  BY <1>0, <1>1, <1>2, KernelStutter DEF kernelVars, statusVars, sweepVars
<1>3. CASE AcquireFree(t) \/ Release(t) \/ Unlist(t) \/ NotifyWaiters(t)
  BY <1>2, <1>3 DEF AcquireFree, Acquires, Release, Unlist, NotifyWaiters, Sweeping
<1>4. CASE CheckEvent(t)
  <2>1. PICK l \in {"acquire", "main"} : Goto(t, l)
    BY <1>4 DEF CheckEvent
  <2>2. QED
    BY <1>2, <1>4, <2>1 DEF CheckEvent, Sweeping
<1>5. CASE AcquireWait(t)
  <2>1. EventWaitPrepare(t, MutexEvent) /\ pc[t] \in {"main", "acquire"}
    BY <1>5 DEF AcquireWait, Acquires
  <2>2. KInv'
    BY <1>0, <2>1, EventWaitPrepareSafe
  <2>3. QED
    BY <1>1, <1>5, <2>1, <2>2 DEF AcquireWait, EventWaitPrepare, statusVars, sweepVars, Sweeping
<1>6. CASE AcquireRefused(t)
  <2>1. EventWaitRefused(t, MutexEvent) /\ pc[t] \in {"main", "acquire"}
    BY <1>6 DEF AcquireRefused, Acquires
  <2>2. KInv'
    BY <1>0, <2>1, EventWaitRefusedSafe
  <2>3. QED
    BY <1>1, <1>6, <2>1, <2>2 DEF AcquireRefused, EventWaitRefused, statusVars, sweepVars, Sweeping
<1>7. CASE Perform(t) \/ ReleaseYield(t)
  <2>1. PICK l \in {"unlist", "check", "main"} : Goto(t, l)
    BY <1>7 DEF Perform, ReleaseYield
  <2>2. /\ PerformContextSwitch /\ pc[t] \in {"perform", "yield"}
    BY <1>7 DEF Perform, ReleaseYield
  <2>3. /\ KInv' /\ running' \in Members(ready')
        /\ UNCHANGED <<bootVars, statusVars, sweepVars>>
    BY <1>0, <2>2, SwitchPicks DEF StartedInv
  <2>4. QED
    BY <1>0, <2>1, <2>2, <2>3, GotoKeepsStarted DEF statusVars, sweepVars, Sweeping
<1>8. CASE NotifyAll(t)
  BY <1>0, <1>8, SweepStartKeepsStarted DEF NotifyAll, Sweeping
<1>9. CASE NotifyAllStep(t)
  BY <1>0, <1>9, SweepStepKeepsStarted, SweepEndKeepsStarted DEF NotifyAllStep, Sweeping, threadVars
<1>10. CASE NotifyWaiter(t)
  <2>1. CASE /\ pc[t] = "notify" /\ pc' = [pc EXCEPT ![t] = "yield"]
             /\ UNCHANGED <<target, isrVars, kernelVars>>
    BY <1>2, <2>1 DEF Sweeping
  <2>2. CASE /\ next[t] < Len(waiters)
             /\ EventNotifyThread(waiters[next[t] + 1], MutexEvent, "event")
             /\ UNCHANGED <<pc, target, isrVars>>
    <3>1. waiters[next[t] + 1] \in Threads
      <4>1. next[t] \in Nat /\ Len(waiters) \in Nat
        BY <1>0
      <4>2. next[t] + 1 \in 1..Len(waiters)
        BY <2>2, <4>1
      <4>3. QED
        BY <1>0, <4>2
    <3>2. KInv'
      BY <1>0, <2>2, <3>1, EventNotifyThreadSafe
    <3>3. /\ UNCHANGED <<bootVars, running, statusVars, sweepVars>>
          /\ Members(ready) \subseteq Members(ready')
      BY <1>0, <2>2, <3>1, NotifyWakes DEF EventNotifyThread
    <3>4. QED
      BY <1>0, <2>2, <3>2, <3>3, StutterKeepsStarted DEF statusVars, sweepVars, threadVars
  <2>3. QED
    BY <1>10, <2>1, <2>2 DEF NotifyWaiter
<1>11. QED
  BY <1>3, <1>4, <1>5, <1>6, <1>7, <1>8, <1>9, <1>10 DEF Acquire, MutexStep

-----------------------------------------------------------------------------

\* A step of t from one place to another, neither of them where a thread is in
\* the list or is the owner.
LEMMA DataGotoKeeps ==
  ASSUME MutexData, NEW t \in Threads, pc[t] \notin {"perform", "unlist", "owner"},
         NEW l \in Places \ {"perform", "unlist", "owner"}, l \in Elsewhere \/ t # Idle,
         pc' = [pc EXCEPT ![t] = l], UNCHANGED <<threads, isrVars, mutexVars>>,
         next' \in [Threads -> Nat]
  PROVE  MutexData'
<1>1. pc' \in [Threads -> Places] /\ \A u \in Threads : pc'[u] \notin Elsewhere => u # Idle
  BY DEF MutexData
<1>2. ListInv'
  BY <1>1 DEF MutexData, ListInv, mutexVars
<1>3. QED
  BY <1>1, <1>2 DEF MutexData, IsrInRange, isrVars, mutexVars

\* A step that leaves the mutex and the places alone.
LEMMA DataStays ==
  ASSUME MutexData, UNCHANGED <<pc, threads, isrVars, mutexVars>>,
         next' \in [Threads -> Nat]
  PROVE  MutexData'
BY DEF MutexData, ListInv, IsrInRange, isrVars, mutexVars

\* acquire() takes the mutex, and release() gives it up.
LEMMA DataOwnerKeeps ==
  ASSUME MutexInv, NEW t \in Threads, AcquireFree(t) \/ Release(t)
  PROVE  MutexData'
<1> USE DEF Goto, At
<1>1. UNCHANGED <<threads, isrVars, waiters, listSize, next>> /\ MutexData
  BY DEF AcquireFree, Release, kernelVars, bootVars, MutexInv
<1>2. PICK l \in {"owner", "released"} :
        /\ pc' = [pc EXCEPT ![t] = l]
        /\ pc[t] \in {"main", "acquire", "owner"} /\ t # Idle
        /\ l = "owner" => isAcquired' = TRUE /\ owner' = t
        /\ l = "released" => isAcquired' = FALSE /\ owner' = NoThread
  BY <1>1 DEF AcquireFree, Release, Acquires, MutexData, Elsewhere
<1>3. pc' \in [Threads -> Places] /\ \A u \in Threads : pc'[u] \notin Elsewhere => u # Idle
  BY <1>1, <1>2 DEF MutexData, Places, Releasing
<1>4. ListInv'
  BY <1>1, <1>2 DEF MutexData, ListInv
<1>5. (isAcquired => owner \in Threads /\ pc[owner] = "owner")'
  BY <1>1, <1>2 DEF MutexData
<1>6. QED
  BY <1>1, <1>2, <1>3, <1>4, <1>5 DEF MutexData, IsrInRange, isrVars

\* acquire() has to wait: there is room for the thread in the list.
LEMMA DataWaitKeeps ==
  ASSUME MutexInv, NEW t \in Threads, AcquireWait(t)
  PROVE  MutexData'
<1> USE DEF Goto, At
<1>1. /\ pc' = [pc EXCEPT ![t] = "perform"] /\ pc[t] \in {"main", "acquire"} /\ t # Idle
      /\ UNCHANGED <<threads, isrVars, isAcquired, owner, listSize, next>>
      /\ waiters' = IF HasList THEN Add(waiters, t) ELSE waiters
      /\ isAcquired /\ MutexData
  BY DEF AcquireWait, Acquires, EventWaitPrepare, bootVars, MutexInv
<1>2. pc' \in [Threads -> Places] /\ \A u \in Threads : pc'[u] \notin Elsewhere => u # Idle
  BY <1>1 DEF MutexData, Places
<1>3. /\ waiters \in Seq(Threads) /\ NoDuplicates(waiters) /\ Len(waiters) \in Nat
      /\ listSize \in Lists /\ listSize \in Int
      /\ \A u \in Threads : u \in Members(waiters) => pc[u] \in {"perform", "unlist"}
  BY <1>1, MutexAssumption DEF MutexData, ListInv, NoList
<1>4. t \notin Members(waiters) /\ Idle \notin Members(waiters) /\ owner \notin Members(waiters)
  BY <1>1, <1>3, KernelAssumption DEF MutexData, Elsewhere
<1>5. owner \in Threads /\ owner # t /\ owner # Idle
  BY <1>1 DEF MutexData, Elsewhere
<1>6. CASE HasList /\ Len(waiters) < listSize
  <2>1. waiters' = Append(waiters, t)
    BY <1>1, <1>6 DEF Add
  <2>2. /\ waiters' \in Seq(Threads) /\ Len(waiters') = Len(waiters) + 1
        /\ Members(waiters') = Members(waiters) \cup {t}
    BY <1>3, <2>1, AppendMembers
  <2>3. NoDuplicates(waiters')
    <3>1. \A i \in 1..Len(waiters) : waiters'[i] = waiters[i] /\ waiters[i] # t
      BY <1>3, <1>4, <2>1 DEF Members
    <3>2. waiters'[Len(waiters) + 1] = t
      BY <1>3, <2>1
    <3>3. QED
      BY <1>3, <2>2, <3>1, <3>2 DEF NoDuplicates
  <2>4. Len(waiters') <= listSize'
    BY <1>1, <1>3, <1>6, <2>2
  <2>5. ListInv'
    BY <1>1, <2>2, <2>3, <2>4 DEF MutexData, ListInv
  <2>6. QED
    BY <1>1, <1>2, <2>5 DEF MutexData, IsrInRange, isrVars
<1>7. CASE ~(HasList /\ Len(waiters) < listSize)
  <2>1. waiters' = waiters
    BY <1>1, <1>7 DEF Add
  <2>2. ~(listSize > 0 /\ ListsSuffice)
    <3> SUFFICES ASSUME listSize > 0, ListsSuffice PROVE FALSE
      OBVIOUS
    <3>1. listSize >= Len(Initial) - 2 /\ Len(Initial) \in Nat
      BY <1>3, StartedAssumption DEF ListsSuffice
    <3>2. Len(waiters) < Len(Initial) - 2
      BY <1>1, <1>3, <1>4, <1>5, WaitersFit
    <3>3. QED
      BY <1>3, <1>7, <3>1, <3>2 DEF HasList, NoList
  <2>3. ListInv'
    BY <1>1, <2>1, <2>2 DEF MutexData, ListInv
  <2>4. QED
    BY <1>1, <1>2, <2>3 DEF MutexData, IsrInRange, isrVars
<1>8. QED
  BY <1>6, <1>7

\* It comes back from the context switch, and leaves the list.
LEMMA DataWokenKeeps ==
  ASSUME MutexInv, NEW t \in Threads, Perform(t) \/ Unlist(t)
  PROVE  MutexData'
<1> USE DEF Goto, At
<1>1. /\ UNCHANGED <<threads, isrVars, isAcquired, owner, listSize, next>>
      /\ MutexData /\ pc[t] \in {"perform", "unlist"} /\ t # Idle
  BY DEF Perform, PerformContextSwitch, Unlist, kernelVars, bootVars, mutexVars, MutexInv,
    MutexData, Elsewhere
<1>2. PICK l \in {"unlist", "check"} : pc' = [pc EXCEPT ![t] = l]
  BY DEF Perform, Unlist
<1>3. pc' \in [Threads -> Places] /\ \A u \in Threads : pc'[u] \notin Elsewhere => u # Idle
  BY <1>1, <1>2 DEF MutexData, Places
<1>4. /\ waiters \in Seq(Threads) /\ NoDuplicates(waiters) /\ Len(waiters) \in Nat
      /\ listSize \in Int
  BY <1>1, MutexAssumption DEF MutexData, ListInv, NoList
<1>5. CASE Perform(t) /\ HasList
  <2>1. pc' = [pc EXCEPT ![t] = "unlist"] /\ UNCHANGED waiters
    BY <1>5 DEF Perform, mutexVars
  <2>2. ListInv'
    BY <1>1, <2>1 DEF MutexData, ListInv
  <2>3. QED
    BY <1>1, <1>2, <1>3, <2>2 DEF MutexData, IsrInRange, isrVars
<1>6. CASE Perform(t) /\ ~HasList
  <2>1. UNCHANGED waiters /\ listSize = -1
    BY <1>6 DEF Perform, mutexVars, HasList, NoList
  <2>2. waiters = <<>> /\ ~(listSize > 0)
    BY <1>1, <1>4, <2>1 DEF MutexData, ListInv
  <2>3. Members(waiters) = {}
    BY <2>2 DEF Members
  <2>4. ListInv'
    BY <1>1, <2>1, <2>2, <2>3 DEF MutexData, ListInv
  <2>5. QED
    BY <1>1, <1>2, <1>3, <2>4 DEF MutexData, IsrInRange, isrVars
<1>7. CASE Unlist(t)
  <2>1. pc' = [pc EXCEPT ![t] = "check"] /\ waiters' = RemoveLast(waiters, t)
    BY <1>7 DEF Unlist
  <2>2. /\ waiters' \in Seq(Threads) /\ NoDuplicates(waiters')
        /\ Members(waiters') = Members(waiters) \ {t}
        /\ Len(waiters') <= Len(waiters)
    BY <1>1, <1>4, <2>1, RemoveLastList
  <2>3. waiters' = <<>> \/ Len(waiters') <= listSize'
    <3>1. CASE waiters = <<>>
      <4>1. ~Find(waiters, t)
        BY <3>1 DEF Find
      <4>2. QED
        BY <2>1, <3>1, <4>1 DEF RemoveLast
    <3>2. CASE waiters # <<>>
      <4>1. Len(waiters) <= listSize /\ Len(waiters') \in Nat
        BY <1>1, <2>2, <3>2 DEF MutexData, ListInv
      <4>2. QED
        BY <1>1, <1>4, <2>2, <4>1
    <3>3. QED
      BY <3>1, <3>2
  <2>4. ListInv'
    BY <1>1, <2>1, <2>2, <2>3 DEF MutexData, ListInv
  <2>5. QED
    BY <1>1, <1>2, <1>3, <2>4 DEF MutexData, IsrInRange, isrVars
<1>8. QED
  BY <1>5, <1>6, <1>7

\* The rest of the two calls.
LEMMA DataOthersKeep ==
  ASSUME MutexInv, NEW t \in Threads,
         \/ AcquireRefused(t) \/ CheckEvent(t) \/ ReleaseYield(t)
         \/ NotifyAll(t) \/ NotifyAllStep(t) \/ NotifyWaiters(t) \/ NotifyWaiter(t)
  PROVE  MutexData'
<1> USE DEF Goto, At, bootVars, Places, Releasing, Elsewhere, mutexVars
<1>0. /\ MutexData /\ next \in [Threads -> Nat] /\ t \in Contexts
      /\ (pc[t] \notin Elsewhere => t # Idle)
  BY DEF MutexInv, MutexData, Contexts
<1>1. CASE AcquireRefused(t)
  BY <1>0, <1>1, DataGotoKeeps DEF AcquireRefused, Acquires, EventWaitRefused
<1>2. CASE CheckEvent(t)
  <2>1. PICK l \in {"acquire", "main"} : Goto(t, l)
    BY <1>2 DEF CheckEvent
  <2>2. QED
    BY <1>0, <1>2, <2>1, DataGotoKeeps DEF CheckEvent, kernelVars
<1>3. CASE ReleaseYield(t)
  BY <1>0, <1>3, DataGotoKeeps DEF ReleaseYield, PerformContextSwitch
<1>4. CASE NotifyAll(t)
  BY <1>0, <1>4, DataGotoKeeps DEF NotifyAll, SweepStart
<1>5. CASE NotifyAllStep(t)
  BY <1>0, <1>5, DataGotoKeeps, DataStays DEF NotifyAllStep, SweepStep, SweepEnd
<1>6. CASE NotifyWaiters(t)
  BY <1>0, <1>6, DataGotoKeeps DEF NotifyWaiters, kernelVars
<1>7. CASE NotifyWaiter(t)
  <2>1. next' \in [Threads -> Nat]
    BY <1>0, <1>7 DEF NotifyWaiter
  <2>2. QED
    BY <1>0, <1>7, <2>1, DataGotoKeeps, DataStays DEF NotifyWaiter, EventNotifyThread, kernelVars
<1>8. QED
  BY <1>1, <1>2, <1>3, <1>4, <1>5, <1>6, <1>7

\* The idle thread, interruptions and interrupts.
LEMMA StartedStepPlaces ==
  ASSUME MutexInv, StartedStep
  PROVE  /\ pc' \in [Threads -> Places]
         /\ IsrInRange'
<1> USE DEF Goto, At, threadVars, isrVars, IsrInRange, IsrGoto
<1>0. /\ pc \in [Threads -> Places] /\ IsrInRange
      /\ {"main", "cancel", "cancelSweep"} \subseteq Places
      /\ threads' = threads /\ Len(threads) \in Nat
  <2>1. StartedInv /\ MutexData
    BY DEF MutexInv
  <2>2. UNCHANGED threads
    BY <2>1, StartedStepKeeps DEF KeepsObjects, bootVars
  <2>3. Len(threads) \in Nat
    BY <2>1 DEF StartedInv, KInv, KernelTypeOK
  <2>4. QED
    BY <2>1, <2>2, <2>3 DEF MutexData, Places
<1>1. CASE IdleYield
  BY <1>0, <1>1 DEF IdleYield
<1>2. ASSUME NEW t \in Threads, StartInterruption(t)
      PROVE  pc' \in [Threads -> Places] /\ IsrInRange'
  BY <1>0, <1>2 DEF StartInterruption, AckInterruption, RequestInterruption
<1>3. ASSUME NEW t \in Threads, Cancel(t)
      PROVE  pc' \in [Threads -> Places] /\ IsrInRange'
  BY <1>0, <1>3 DEF Cancel
<1>4. ASSUME NEW t \in Threads, CancelStep(t)
      PROVE  pc' \in [Threads -> Places] /\ IsrInRange'
  BY <1>0, <1>4 DEF CancelStep
<1>5. ASSUME NEW critical, Tick(critical)
      PROVE  pc' \in [Threads -> Places] /\ IsrInRange'
  BY <1>0, <1>5 DEF Tick, IsrTick
<1>6. CASE Handler
  <2>1. UNCHANGED threadVars
    BY <1>6 DEF Handler
  <2>2. IsrInRange'
    BY <1>0, <1>6 DEF Handler, HandlerStep, TickThread, IsrSweepStep, TickCancelled,
      IsrNotified, IsrExit
  <2>3. QED
    BY <1>0, <2>1, <2>2
<1>7. QED
  BY <1>1, <1>2, <1>3, <1>4, <1>5, <1>6 DEF StartedStep

LEMMA DataKernelKeeps ==
  ASSUME MutexInv, StartedStep, UNCHANGED <<mutexVars, next>>
  PROVE  StartedInv' /\ MutexData'
<1>1. StartedInv' /\ \A u \in Threads : StepStays(u)
  BY StartedStepKeeps DEF MutexInv, KeepsObjects
<1>2. pc' \in [Threads -> Places] /\ IsrInRange'
  BY StartedStepPlaces
<1>3. \A u \in Threads : pc'[u] = pc[u] \/ {pc[u], pc'[u]} \subseteq Elsewhere
  BY <1>1 DEF StepStays, Elsewhere
<1>4. ListInv'
  BY <1>3 DEF MutexInv, MutexData, ListInv, mutexVars, Elsewhere
<1>5. QED
  BY <1>1, <1>2, <1>3, <1>4 DEF MutexInv, MutexData, mutexVars, Elsewhere

LEMMA MutexInvStep ==
  ASSUME MutexInv, [Next]_vars
  PROVE  MutexInv'
<1>0. OwnerInv'
  BY OwnerStep DEF MutexInv
<1>1. ASSUME NEW t \in Threads, Acquire(t) \/ Release(t) \/ MutexStep(t)
      PROVE  MutexInv'
  <2>1. StartedInv'
    BY <1>1, MutexKeepsStarted
  <2>2. MutexData'
    BY <1>1, DataOwnerKeeps, DataWaitKeeps, DataWokenKeeps, DataOthersKeep DEF Acquire, MutexStep
  <2>3. QED
    BY <1>0, <2>1, <2>2 DEF MutexInv
<1>2. CASE Kernel
  BY <1>0, <1>2, DataKernelKeeps DEF Kernel, StartedStep, MutexInv
<1>3. CASE UNCHANGED vars
  <2>1. UNCHANGED <<bootVars, schedVars, statusVars, sweepVars, isrVars,
                    threadVars, mutexVars, next, kernelVars>>
    BY <1>3 DEF vars, kernelVars
  <2>2. StartedInv'
    BY <2>1, KernelStutter, StutterKeepsStarted DEF MutexInv, StartedInv,
      schedVars, statusVars, sweepVars
  <2>3. MutexData'
    BY <2>1, DataStays DEF MutexInv, MutexData, threadVars, bootVars
  <2>4. QED
    BY <1>0, <2>2, <2>3 DEF MutexInv
<1>4. QED
  BY <1>1, <1>2, <1>3 DEF Next

\* Every variable has its type; the list is never longer than its array.
THEOREM MutexTypesCorrect == Spec => []TypeOK
<1>1. MutexInv => TypeOK
  BY DEF MutexInv, StartedInv, KInv, MutexData, ListInv, IsrInRange, Places, TypeOK
<1>2. QED
  BY <1>1, MutexInitSafe, MutexInvStep, PTL DEF Spec

\* OSMutexWaitingThreads: the threads in the list are those between their add()
\* and their remove(), each of them once, when the array has room for all the
\* threads that may wait.
THEOREM ListHoldsTheWaiters ==
  ASSUME ListsSuffice
  PROVE  Spec => []WaitersListed
<1>1. MutexInv => WaitersListed
  BY DEF MutexInv, MutexData, ListInv, WaitersListed
<1>2. QED
  BY <1>1, MutexInitSafe, MutexInvStep, PTL DEF Spec

-----------------------------------------------------------------------------
(***************************************************************************)
(* No thread is left waiting.                                              *)
(***************************************************************************)

\* The threads of a mutex with a list are not interrupted.  (A thread that was
\* cancelled stays in the list, and takes the notification of its release with
\* it: then the property is false.)
ListUninterrupted == (\E n \in Lists : n > 0) => Interruptible = {}

\* Where thread t is in acquire(), against the kernel: it waits for the mutex
\* between the preparation of the wait and its return; back from the context
\* switch it is out of the ready list or does not wait any more.
MutexWait(t) ==
  /\ waiting[t] => event[t] = MutexEvent /\ pc[t] \in {"perform", "unlist", "check"}
  /\ waiting[t] /\ pc[t] \in {"unlist", "check"} => t \notin Members(ready)
  /\ pc[t] = "check" /\ HasList => ~waiting[t]

WaitInv == lock = 0 /\ \A t \in Threads : MutexWait(t)

\* With a list nothing but a release wakes the threads that are in it.
ListCalm ==
  listSize > 0 =>
    /\ isrPc # "cancel"
    /\ \A t \in Threads :
         /\ ~interrupted[t]
         /\ pc[t] \notin {"sweep", "cancel", "cancelSweep"}
         /\ pc[t] \in {"perform", "unlist"} /\ ~waiting[t] => ret[t] = "event"

\* The mutex is taken, or nobody waits, or somebody is about to try again.
Safe ==
  \/ isAcquired
  \/ \A t \in Threads : ~waiting[t]
  \/ \E t \in Threads : OnItsWay(t)

\* The release by t has not woken anybody yet, and it will wake somebody.
WillWake(t) ==
  \/ pc[t] = "released"
  \/ /\ pc[t] = "sweep" /\ sweep[t].ev = MutexEvent /\ sweep[t].ret = "event"
     /\ \A u \in Threads : waiting[u] => AheadIn(t, u)
  \/ pc[t] = "notify" /\ next[t] = 0 /\ listSize > 0

StrandInv ==
  /\ MutexInv /\ WaitInv /\ ListCalm
  /\ Safe \/ \E t \in Threads : WillWake(t)

\* What a step may do to the waits: what OSStarted may, or the one notification
\* that is made without eventNotify.
MutexWaits(u) == StepWaits(u) \/ (waiting[u] /\ ~waiting'[u] /\ ret'[u] = "event")

LEMMA StrandInitSafe == Init => StrandInv
<1> SUFFICES ASSUME Init PROVE StrandInv
  OBVIOUS
<1>1. MutexInv
  BY MutexInitSafe
<1>2. lock = 0 /\ isrPc = "off" /\ \A t \in Threads : ~waiting[t] /\ ~interrupted[t] /\ pc[t] = "main"
  BY DEF Init, StartedInit
<1>3. WaitInv /\ ListCalm /\ Safe
  BY <1>2 DEF WaitInv, MutexWait, ListCalm, Safe
<1>4. QED
  BY <1>1, <1>3 DEF StrandInv

\* Where the running thread cannot be waiting.
LEMMA RunnerDoesNotWait ==
  ASSUME StrandInv, NEW t \in Threads, NEW l, At(t, l), l # "perform"
  PROVE  ~waiting[t]
BY DEF StrandInv, WaitInv, MutexWait, MutexInv, StartedInv, At

\* The two calls, but for the beginning of a wait.
LEMMA MutexStepWaits ==
  ASSUME StrandInv, NEW t \in Threads, AcquireFree(t) \/ Release(t) \/ MutexStep(t)
  PROVE  /\ UNCHANGED <<threads, lock, interrupted, isrPc, listSize>>
         /\ \A u \in Threads : MutexWaits(u)
         /\ \A u \in Threads \ {t} : pc'[u] = pc[u] /\ sweep'[u] = sweep[u] /\ next'[u] = next[u]
<1> USE DEF Goto, bootVars, schedVars, statusVars, sweepVars, isrVars, mutexVars
<1>0. /\ StartedInv /\ t \in Contexts /\ pc \in [Threads -> Places] /\ next \in [Threads -> Nat]
      /\ sweep \in [Contexts -> Sweeps] /\ Threads \subseteq Contexts
  BY DEF StrandInv, MutexInv, MutexData, Contexts, StartedInv, KInv, KernelTypeOK
<1>1. ASSUME UNCHANGED kernelVars
      PROVE  /\ UNCHANGED <<threads, lock, interrupted, sweep, waiting, ret>>
             /\ \A u \in Threads : MutexWaits(u)
  BY <1>1, QuietWaits DEF kernelVars, MutexWaits, waitVars
<1>2. CASE AcquireFree(t) \/ Release(t) \/ Unlist(t) \/ CheckEvent(t) \/ NotifyWaiters(t)
  BY <1>0, <1>1, <1>2 DEF AcquireFree, Release, Unlist, CheckEvent, NotifyWaiters
<1>3. CASE Perform(t) \/ ReleaseYield(t)
  <2>1. PerformContextSwitch
    BY <1>3 DEF Perform, ReleaseYield
  <2>2. UNCHANGED <<threads, lock, interrupted, sweep>> /\ \A u \in Threads : MutexWaits(u)
    BY <1>0, <2>1, SwitchWaits DEF MutexWaits, PerformContextSwitch
  <2>3. QED
    BY <1>0, <1>3, <2>2 DEF Perform, ReleaseYield
<1>4. CASE NotifyAll(t)
  <2>1. /\ UNCHANGED <<threads, lock, interrupted>> /\ \A u \in Threads : MutexWaits(u)
        /\ \A u \in Threads \ {t} : sweep'[u] = sweep[u]
    BY <1>0, <1>4, QuietWaits DEF NotifyAll, SweepStart, MutexWaits
  <2>2. QED
    BY <1>0, <1>4, <2>1 DEF NotifyAll
<1>5. CASE NotifyAllStep(t) /\ SweepStep(t)
  <2>1. /\ UNCHANGED <<threads, lock, interrupted>> /\ \A u \in Threads : MutexWaits(u)
        /\ \A u \in Threads \ {t} : sweep'[u] = sweep[u]
    BY <1>0, <1>5, SweepStepWaits DEF MutexWaits, SweepStep
  <2>2. QED
    BY <1>0, <1>5, <2>1 DEF NotifyAllStep
<1>6. CASE NotifyAllStep(t) /\ SweepEnd(t)
  <2>1. /\ UNCHANGED <<threads, lock, interrupted>> /\ \A u \in Threads : MutexWaits(u)
        /\ \A u \in Threads \ {t} : sweep'[u] = sweep[u]
    BY <1>0, <1>6, QuietWaits DEF SweepEnd, MutexWaits
  <2>2. QED
    BY <1>0, <1>6, <2>1 DEF NotifyAllStep
<1>7. CASE NotifyWaiter(t) /\ UNCHANGED kernelVars
  BY <1>0, <1>1, <1>7 DEF NotifyWaiter
<1>8. CASE NotifyWaiter(t) /\ EventNotifyThread(waiters[next[t] + 1], MutexEvent, "event")
  <2> DEFINE w == waiters[next[t] + 1]
  <2>1. ASSUME NotifyThread(w, MutexEvent, "event"), w \in Threads
        PROVE  \A u \in Threads : MutexWaits(u)
    <3>1. w \in Registered /\ "event" \in Rets
      BY <2>1, <1>0, StartedAssumption DEF StartedInv, Registered, Rets
    <3>2. \A u \in Threads :
            \/ /\ waiting'[u] = waiting[u] /\ event'[u] = event[u] /\ ret'[u] = ret[u]
               /\ u \in Members(ready') <=> u \in Members(ready)
            \/ /\ u = w /\ Notifiable(w, MutexEvent)
               /\ ~waiting'[u] /\ ret'[u] = "event"
      BY <1>0, <2>1, <3>1, NotifyWakes DEF StartedInv
    <3>3. QED
      BY <3>2 DEF MutexWaits, StepWaits, Notifiable
  <2>2. CASE next[t] < Len(waiters)
    <3>1. waiters \in Seq(Threads) /\ next[t] \in Nat /\ Len(waiters) \in Nat
      BY <1>0 DEF StrandInv, MutexInv, MutexData, ListInv
    <3>2. next[t] + 1 \in 1..Len(waiters)
      BY <2>2, <3>1
    <3>3. w \in Threads
      BY <3>1, <3>2
    <3>4. UNCHANGED <<threads, lock, interrupted, sweep>> /\ NotifyThread(w, MutexEvent, "event")
      BY <1>8 DEF EventNotifyThread
    <3>5. \A u \in Threads : MutexWaits(u)
      BY <2>1, <3>3, <3>4
    <3>6. QED
      BY <1>0, <1>8, <3>4, <3>5 DEF NotifyWaiter
  <2>3. CASE ~(next[t] < Len(waiters))
    BY <1>7, <1>8, <2>3 DEF NotifyWaiter
  <2>4. QED
    BY <2>2, <2>3
<1>9. QED
  BY <1>2, <1>3, <1>4, <1>5, <1>6, <1>7, <1>8 DEF MutexStep, NotifyAllStep, NotifyWaiter

\* Threads that do not move keep their wait.
LEMMA WaitStays ==
  ASSUME StrandInv, NEW u \in Threads, MutexWaits(u), UNCHANGED <<lock, listSize>>,
         \/ pc'[u] = pc[u]
         \/ {pc[u], pc'[u]} \cap {"perform", "unlist", "check"} = {}
  PROVE  MutexWait(u)'
BY DEF StrandInv, WaitInv, MutexWait, MutexWaits, StepWaits, HasList

LEMMA WaitInvKeeps ==
  ASSUME StrandInv, NEW t \in Threads, Acquire(t) \/ Release(t) \/ MutexStep(t)
  PROVE  WaitInv'
<1> USE DEF Goto, At
<1>0. /\ StartedInv /\ pc \in [Threads -> Places] /\ lock = 0
      /\ MutexWait(t) /\ (pc[t] \notin Elsewhere => t # Idle)
      /\ waiting \in [Threads -> BOOLEAN] /\ event \in [Threads -> Events \cup {NoEvent}]
      /\ ret \in [Threads -> Rets]
  BY DEF StrandInv, MutexInv, MutexData, WaitInv, StartedInv, KInv, KernelTypeOK
<1>1. ASSUME NEW l, pc' = [pc EXCEPT ![t] = l], UNCHANGED <<lock, listSize>>,
             \A u \in Threads \ {t} : MutexWaits(u),
             MutexWait(t)'
      PROVE  WaitInv'
  <2>1. \A u \in Threads \ {t} : pc'[u] = pc[u]
    BY <1>1
  <2>2. \A u \in Threads : MutexWait(u)'
    BY <1>1, <2>1, WaitStays
  <2>3. QED
    BY <1>0, <1>1, <2>2 DEF WaitInv
<1>2. CASE AcquireWait(t)
  <2>1. /\ event' = [event EXCEPT ![t] = MutexEvent] /\ waiting' = [waiting EXCEPT ![t] = TRUE]
        /\ pc' = [pc EXCEPT ![t] = "perform"]
        /\ UNCHANGED <<ret, ready, lock, listSize>>
    BY <1>2 DEF AcquireWait, EventWaitPrepare, schedVars
  <2>2. \A u \in Threads \ {t} : MutexWaits(u)
    BY <2>1 DEF MutexWaits, StepWaits
  <2>3. MutexWait(t)'
    BY <1>0, <2>1 DEF MutexWait
  <2>4. QED
    BY <1>1, <2>1, <2>2, <2>3
<1>3. CASE AcquireRefused(t)
  <2>1. /\ \A u \in Threads \ {t} : ret'[u] = ret[u]
        /\ pc' = [pc EXCEPT ![t] = "check"] /\ ~waiting[t]
        /\ UNCHANGED <<event, waiting, ready, lock, listSize>>
    BY <1>3, RunnerDoesNotWait
       DEF AcquireRefused, Acquires, EventWaitRefused, schedVars, mutexVars
  <2>2. \A u \in Threads \ {t} : MutexWaits(u)
    BY <2>1 DEF MutexWaits, StepWaits
  <2>3. MutexWait(t)'
    BY <2>1 DEF MutexWait
  <2>4. QED
    BY <1>1, <2>1, <2>2, <2>3
<1>4. CASE Perform(t)
  <2>1. /\ UNCHANGED <<lock, listSize, event, waiting>>
        /\ waiting[t] => t \notin Members(ready')
        /\ \A u \in Threads : MutexWaits(u)
    <3>1. PerformContextSwitch /\ pc[t] = "perform" /\ running = t
      BY <1>4 DEF Perform
    <3>2. UNCHANGED <<lock, event, waiting>> /\ (waiting[t] => t \notin Members(ready'))
      BY <1>0, <3>1, SwitchPicks DEF StartedInv, Elsewhere
    <3>3. QED
      BY <1>4, <3>2, MutexStepWaits DEF MutexStep
  <2>2. pc' = [pc EXCEPT ![t] = IF HasList THEN "unlist" ELSE "check"] /\ pc[t] = "perform"
    BY <1>4 DEF Perform
  <2>3. MutexWait(t)'
    BY <1>0, <2>1, <2>2 DEF MutexWait, HasList
  <2>4. QED
    BY <1>1, <2>1, <2>2, <2>3
<1>5. ASSUME NEW l, pc' = [pc EXCEPT ![t] = l], ~waiting[t], Release(t) \/ MutexStep(t) \/ AcquireFree(t)
      PROVE  WaitInv'
  <2>1. /\ UNCHANGED <<lock, listSize>> /\ \A u \in Threads : MutexWaits(u)
    BY <1>5, MutexStepWaits
  <2>2. ~waiting'[t]
    BY <1>5, <2>1 DEF MutexWaits, StepWaits
  <2>3. QED
    BY <1>1, <1>5, <2>1, <2>2 DEF MutexWait
<1>6. CASE AcquireFree(t) \/ Release(t) \/ Unlist(t) \/ NotifyAll(t) \/ NotifyWaiters(t)
           \/ ReleaseYield(t)
  <2>1. ~waiting[t]
    BY <1>6, RunnerDoesNotWait DEF AcquireFree, Acquires, Release, Unlist, NotifyAll,
      NotifyWaiters, ReleaseYield
  <2>2. QED
    BY <1>5, <1>6, <2>1 DEF AcquireFree, Release, Unlist, NotifyAll, NotifyWaiters,
      ReleaseYield, MutexStep
<1>7. CASE CheckEvent(t) \/ NotifyAllStep(t) \/ NotifyWaiter(t)
  <2>1. ~waiting[t]
    BY <1>7, RunnerDoesNotWait DEF CheckEvent, NotifyAllStep, NotifyWaiter
  <2>2. CASE UNCHANGED pc
    <3>1. pc' = [pc EXCEPT ![t] = pc[t]]
      BY <1>0, <2>2
    <3>2. QED
      BY <1>5, <1>7, <2>1, <3>1 DEF MutexStep
  <2>3. CASE ~UNCHANGED pc
    <3>1. PICK l \in {"acquire", "main", "yield"} : pc' = [pc EXCEPT ![t] = l]
      BY <1>7, <2>3 DEF CheckEvent, NotifyAllStep, NotifyWaiter
    <3>2. QED
      BY <1>5, <1>7, <2>1, <3>1 DEF MutexStep
  <2>4. QED
    BY <2>2, <2>3
<1>8. QED
  BY <1>2, <1>3, <1>4, <1>6, <1>7 DEF Acquire, MutexStep

\* With a list no eventNotify is in progress.
LEMMA NoSweepsInCalm ==
  ASSUME StrandInv, listSize > 0
  PROVE  \A c \in Contexts : sweep[c].ev = NoEvent
<1>1. SweepsQuiet /\ isrPc \in {"off", "tick"} /\ \A t \in Threads : pc[t] \notin Sweeping
  BY DEF StrandInv, ListCalm, MutexInv, MutexData, IsrInRange, StartedInv, Sweeping
<1>2. QED
  BY <1>1 DEF SweepsQuiet, NoSweep, Contexts

\* So who is woken in the list has been told "event".
LEMMA CalmWaits ==
  ASSUME StrandInv, listSize > 0, NEW u \in Threads, MutexWaits(u),
         pc'[u] \in {"perform", "unlist"} => pc[u] \in {"perform", "unlist"}
  PROVE  pc'[u] \in {"perform", "unlist"} /\ ~waiting'[u] => ret'[u] = "event"
<1>1. lock = 0 /\ \A c \in Contexts : sweep[c].ev = NoEvent
  BY NoSweepsInCalm DEF StrandInv, WaitInv
<1>2. QED
  BY <1>1 DEF MutexWaits, StepWaits, StrandInv, ListCalm

LEMMA CalmKeeps ==
  ASSUME StrandInv, NEW t \in Threads, Acquire(t) \/ Release(t) \/ MutexStep(t)
  PROVE  ListCalm'
<1> USE DEF Goto, At, MutexStep
<1>0. pc \in [Threads -> Places] /\ waiting \in [Threads -> BOOLEAN] /\ listSize \in Int
  BY MutexAssumption DEF StrandInv, MutexInv, MutexData, StartedInv, KInv, KernelTypeOK, NoList
<1>1. SUFFICES ASSUME listSize' > 0 PROVE ListCalm'
  BY DEF ListCalm
<1>2. UNCHANGED <<isrPc, interrupted, listSize>>
  <2>1. CASE AcquireWait(t) \/ AcquireRefused(t)
    BY <2>1 DEF AcquireWait, AcquireRefused, EventWaitPrepare, EventWaitRefused, statusVars,
      isrVars, mutexVars
  <2>2. CASE AcquireFree(t) \/ Release(t) \/ MutexStep(t)
    BY <2>2, MutexStepWaits
  <2>3. QED
    BY <2>1, <2>2 DEF Acquire
<1>3. listSize > 0 /\ HasList /\ ListCalm /\ \A u \in Threads : ~interrupted[u]
  BY <1>0, <1>1, <1>2 DEF StrandInv, ListCalm, HasList, NoList
<1>4. ASSUME NEW l, l \notin {"sweep", "cancel", "cancelSweep"},
             pc' = [pc EXCEPT ![t] = l],
             \A u \in Threads \ {t} : MutexWaits(u),
             l \in {"perform", "unlist"} /\ ~waiting'[t] => ret'[t] = "event"
      PROVE  ListCalm'
  <2>1. \A u \in Threads \ {t} : pc'[u] = pc[u]
    BY <1>4
  <2>2. \A u \in Threads \ {t} : pc'[u] \in {"perform", "unlist"} /\ ~waiting'[u] => ret'[u] = "event"
    BY <1>3, <1>4, <2>1, CalmWaits
  <2>3. pc'[t] = l
    BY <1>0, <1>4
  <2>4. QED
    BY <1>2, <1>3, <1>4, <2>1, <2>2, <2>3 DEF ListCalm
<1>5. CASE AcquireWait(t)
  <2>1. /\ waiting' = [waiting EXCEPT ![t] = TRUE]
        /\ \A u \in Threads \ {t} : event'[u] = event[u]
        /\ pc' = [pc EXCEPT ![t] = "perform"]
        /\ UNCHANGED <<ret, ready>>
    BY <1>5 DEF AcquireWait, EventWaitPrepare, schedVars, StrandInv, MutexInv, StartedInv, KInv,
      KernelTypeOK
  <2>2. \A u \in Threads \ {t} : MutexWaits(u)
    BY <1>0, <2>1 DEF MutexWaits, StepWaits
  <2>3. waiting'[t]
    BY <1>0, <2>1
  <2>4. QED
    BY <1>4, <2>1, <2>2, <2>3
<1>6. CASE AcquireRefused(t)
  <2>1. interrupted[t] \/ lock # 0 \/ MutexEvent = NoEvent
    BY <1>6 DEF AcquireRefused, EventWaitRefused, PrepareRefused
  <2>2. QED
    BY <1>3, <2>1, MutexAssumption, KernelAssumption DEF StrandInv, WaitInv
<1>7. ASSUME NEW l, l \notin {"sweep", "cancel", "cancelSweep", "perform"},
             pc' = [pc EXCEPT ![t] = l],
             l = "unlist" => pc[t] = "perform",
             AcquireFree(t) \/ Release(t) \/ MutexStep(t)
      PROVE  ListCalm'
  <2>1. \A u \in Threads : MutexWaits(u)
    BY <1>7, MutexStepWaits
  <2>2. pc'[t] = l
    BY <1>0, <1>7
  <2>3. pc'[t] \in {"perform", "unlist"} /\ ~waiting'[t] => ret'[t] = "event"
    BY <1>3, <1>7, <2>1, <2>2, CalmWaits
  <2>4. QED
    BY <1>4, <1>7, <2>1, <2>2, <2>3
<1>8. CASE AcquireFree(t) \/ Release(t) \/ Unlist(t) \/ NotifyWaiters(t) \/ ReleaseYield(t)
  BY <1>7, <1>8 DEF AcquireFree, Release, Unlist, NotifyWaiters, ReleaseYield
<1>9. CASE Perform(t)
  BY <1>3, <1>7, <1>9 DEF Perform
<1>10. CASE CheckEvent(t)
  <2>1. PICK l \in {"acquire", "main"} : pc' = [pc EXCEPT ![t] = l]
    BY <1>10 DEF CheckEvent
  <2>2. QED
    BY <1>7, <1>10, <2>1
<1>11. CASE NotifyAll(t)
  BY <1>3, <1>11 DEF NotifyAll
<1>12. CASE NotifyAllStep(t)
  BY <1>3, <1>12 DEF NotifyAllStep, ListCalm
<1>13. CASE NotifyWaiter(t)
  <2>1. pc' = [pc EXCEPT ![t] = "notify"] \/ pc' = [pc EXCEPT ![t] = "yield"]
    BY <1>0, <1>13 DEF NotifyWaiter
  <2>2. QED
    BY <1>7, <1>13, <2>1
<1>14. QED
  BY <1>5, <1>6, <1>8, <1>9, <1>10, <1>11, <1>12, <1>13 DEF Acquire

-----------------------------------------------------------------------------

\* Everything but the threads in M stays where it is, and nobody begins to wait.
LEMMA PromiseStays ==
  ASSUME StrandInv, NEW M \in SUBSET Threads,
         UNCHANGED <<threads, isAcquired, listSize>>,
         \A u \in Threads : MutexWaits(u),
         \A u \in Threads \ M :
           pc[u] \notin Elsewhere =>
             pc'[u] = pc[u] /\ sweep'[u] = sweep[u] /\ next'[u] = next[u],
         \A t \in M : OnItsWay(t) => Safe',
         \A t \in M : WillWake(t) => Safe' \/ WillWake(t)'
  PROVE  (Safe \/ \E t \in Threads : WillWake(t))'
<1>0. lock = 0
  BY DEF StrandInv, WaitInv
<1>1. \A u \in Threads : waiting'[u] => waiting[u]
  BY DEF MutexWaits, StepWaits
<1>2. ASSUME NEW u \in Threads \ M, OnItsWay(u)
      PROVE  OnItsWay(u)'
  <2>1. pc[u] \notin Elsewhere
    BY <1>2 DEF OnItsWay, Elsewhere
  <2>2. CASE pc[u] = "acquire"
    BY <2>1, <2>2 DEF OnItsWay
  <2>3. CASE pc[u] \in {"perform", "unlist", "check"} /\ ~waiting[u] /\ ret[u] = "event"
    <3>1. ~waiting'[u] /\ ret'[u] = "event"
      BY <1>0, <2>3 DEF MutexWaits, StepWaits
    <3>2. QED
      BY <2>1, <2>3, <3>1 DEF OnItsWay
  <2>4. QED
    BY <1>2, <2>2, <2>3 DEF OnItsWay
<1>3. ASSUME NEW u \in Threads \ M, WillWake(u)
      PROVE  WillWake(u)'
  <2>1. pc'[u] = pc[u] /\ sweep'[u] = sweep[u] /\ next'[u] = next[u]
    BY <1>3 DEF WillWake, Elsewhere
  <2>2. CASE pc[u] = "sweep" /\ sweep[u].ev = MutexEvent /\ sweep[u].ret = "event"
             /\ \A v \in Threads : waiting[v] => AheadIn(u, v)
    <3>1. \A v \in Threads : AheadIn(u, v) => AheadIn(u, v)'
      BY <2>1 DEF AheadIn
    <3>2. QED
      BY <1>1, <2>1, <2>2, <3>1 DEF WillWake
  <2>3. QED
    BY <1>3, <2>1, <2>2 DEF WillWake
<1>4. CASE \E t \in M : OnItsWay(t) \/ WillWake(t)
  BY <1>4
<1>5. CASE isAcquired \/ \A u \in Threads : ~waiting[u]
  BY <1>1, <1>5 DEF Safe
<1>6. CASE \E t \in Threads \ M : OnItsWay(t)
  BY <1>2, <1>6 DEF Safe
<1>7. CASE \E t \in Threads \ M : WillWake(t)
  BY <1>3, <1>7
<1>8. QED
  BY <1>4, <1>5, <1>6, <1>7 DEF StrandInv, Safe

\* An iteration of the eventNotify of a release: it wakes somebody, or those who
\* wait are still ahead.
LEMMA ReleaseSweepWakes ==
  ASSUME StrandInv, NEW t \in Threads, NotifyAllStep(t), SweepStep(t), WillWake(t)
  PROVE  Safe' \/ WillWake(t)'
<1>0. /\ KInv /\ t \in Contexts /\ Threads \subseteq Contexts /\ MutexEvent \in Events /\ MutexEvent # NoEvent
      /\ sweep[t] \in Sweeps /\ pc[t] = "sweep" /\ "event" \in Rets
      /\ lock = 0
  BY MutexAssumption, KernelAssumption
     DEF StrandInv, WaitInv, MutexInv, StartedInv, KInv, KernelTypeOK, Contexts, NotifyAllStep, At, Rets
<1> DEFINE w == threads[sweep[t].at + 1]
<1>1. /\ w \in Registered /\ NotifyThread(w, sweep[t].ev, sweep[t].ret)
      /\ sweep'[t].ev = sweep[t].ev /\ sweep'[t].ret = sweep[t].ret
  BY <1>0, SweepStepThread
<1>2. /\ sweep[t].ev = MutexEvent /\ sweep[t].ret = "event"
      /\ \A u \in Threads : waiting[u] => AheadIn(t, u)
  BY <1>0 DEF WillWake
<1>3. pc' = pc
  BY <1>0 DEF NotifyAllStep, SweepStep, SweepEnd
<1>4. w \in Threads
  BY <1>1, StartedAssumption DEF Registered, StrandInv, MutexInv, StartedInv
<1> HIDE DEF w
<1>5. CASE waiting[w]
  <2>1. event[w] = MutexEvent /\ ~suspended[w] /\ pc[w] \in {"perform", "unlist", "check"}
    BY <1>4, <1>5 DEF StrandInv, WaitInv, MutexWait, MutexInv, StartedInv
  <2>2. Notifiable(w, MutexEvent)
    BY <1>0, <1>5, <2>1 DEF Notifiable
  <2>3. ~waiting'[w] /\ ret'[w] = "event"
    <3>1. \A u \in Threads :
            \/ waiting'[u] = waiting[u] /\ ret'[u] = ret[u]
            \/ ~waiting'[u] /\ ret'[u] = "event"
      BY <1>0, <1>1, <1>2, NotifyWakes
    <3>2. ~waiting'[w]
      BY <1>0, <1>1, <1>2, <2>2, NotifyWakes
    <3>3. QED
      BY <1>4, <1>5, <3>1, <3>2
  <2>4. QED
    BY <1>3, <1>4, <2>1, <2>3 DEF OnItsWay, Safe
<1>6. CASE ~waiting[w]
  <2>1. waiting' = waiting
    BY <1>1, <1>6 DEF NotifyThread, Notifiable
  <2>2. \A u \in Threads : waiting'[u] => AheadIn(t, u)'
    BY <1>0, <1>2, <1>6, <2>1, SweepStepAhead DEF w
  <2>3. QED
    BY <1>0, <1>1, <1>2, <1>3, <2>2 DEF WillWake
<1>7. QED
  BY <1>5, <1>6

\* With a list, the first notification of the release.
LEMMA ReleaseNotifyWakes ==
  ASSUME StrandInv, ListsSuffice, NEW t \in Threads, NotifyWaiter(t), WillWake(t)
  PROVE  Safe'
<1>0. /\ KInv /\ MutexEvent \in Events /\ MutexEvent # NoEvent
      /\ pc[t] = "notify" /\ next[t] = 0 /\ listSize > 0
      /\ "event" \in Rets /\ pc \in [Threads -> Places]
  BY MutexAssumption, KernelAssumption
     DEF StrandInv, MutexInv, MutexData, StartedInv, NotifyWaiter, At, WillWake, Rets
<1>1. /\ waiters \in Seq(Threads) /\ Len(waiters) \in Nat
      /\ \A u \in Threads : u \in Members(waiters) <=> pc[u] \in {"perform", "unlist"}
  BY <1>0 DEF StrandInv, MutexInv, MutexData, ListInv
<1>2. CASE Len(waiters) = 0
  <2>1. Members(waiters) = {}
    BY <1>2 DEF Members
  <2>2. \A u \in Threads : ~waiting[u]
    <3>1. HasList
      BY <1>0 DEF HasList, NoList
    <3>2. QED
      BY <1>1, <2>1, <3>1 DEF StrandInv, WaitInv, MutexWait
  <2>3. waiting' = waiting
    BY <1>0, <1>2 DEF NotifyWaiter, kernelVars, waitVars
  <2>4. QED
    BY <2>2, <2>3 DEF Safe
<1>3. CASE Len(waiters) # 0
  <2> DEFINE w == waiters[1]
  <2>1. w \in Threads /\ w \in Members(waiters)
    BY <1>1, <1>3 DEF Members
  <2>2. pc[w] \in {"perform", "unlist"}
    BY <1>1, <2>1
  <2>3. NotifyThread(w, MutexEvent, "event") /\ pc' = pc
    BY <1>0, <1>1, <1>3 DEF NotifyWaiter, EventNotifyThread
  <2>4. w \in Registered
    BY <2>1, StartedAssumption DEF Registered, StrandInv, MutexInv, StartedInv
  <2> HIDE DEF w
  <2>5. CASE waiting[w]
    <3>1. event[w] = MutexEvent /\ ~suspended[w]
      BY <2>1, <2>5 DEF StrandInv, WaitInv, MutexWait, MutexInv, StartedInv
    <3>2. Notifiable(w, MutexEvent)
      BY <1>0, <2>5, <3>1 DEF Notifiable
    <3>3. ~waiting'[w] /\ ret'[w] = "event"
      <4>1. \A u \in Threads :
              \/ waiting'[u] = waiting[u] /\ ret'[u] = ret[u]
              \/ ~waiting'[u] /\ ret'[u] = "event"
        BY <1>0, <2>3, <2>4, NotifyWakes
      <4>2. ~waiting'[w]
        BY <1>0, <2>3, <2>4, <3>2, NotifyWakes
      <4>3. QED
        BY <2>1, <2>5, <4>1, <4>2
    <3>4. QED
      BY <2>1, <2>2, <2>3, <3>3 DEF OnItsWay, Safe
  <2>6. CASE ~waiting[w]
    <3>1. ret[w] = "event"
      BY <1>0, <2>1, <2>2, <2>6 DEF StrandInv, ListCalm
    <3>2. UNCHANGED <<waiting, ret>>
      BY <2>3, <2>6 DEF NotifyThread, Notifiable
    <3>3. QED
      BY <2>1, <2>2, <2>3, <2>6, <3>1, <3>2 DEF OnItsWay, Safe
  <2>7. QED
    BY <2>5, <2>6
<1>4. QED
  BY <1>2, <1>3

\* The two calls keep the promise.
LEMMA PromiseKept ==
  ASSUME StrandInv, ListsSuffice, NEW t \in Threads, Acquire(t) \/ Release(t) \/ MutexStep(t)
  PROVE  (Safe \/ \E u \in Threads : WillWake(u))'
<1> USE DEF Goto, At, MutexStep
<1>0. /\ StartedInv /\ KInv /\ pc \in [Threads -> Places] /\ lock = 0 /\ MutexWait(t)
      /\ t \in Contexts /\ next \in [Threads -> Nat] /\ listSize \in Int
      /\ Registered = Threads
  BY MutexAssumption, StartedAssumption DEF StrandInv, WaitInv, MutexInv, MutexData, StartedInv, Contexts, NoList, Registered
<1>1. CASE Acquire(t)
  <2>1. isAcquired'
    BY <1>1 DEF Acquire, AcquireFree, AcquireWait, AcquireRefused, mutexVars
  <2>2. QED
    BY <2>1 DEF Safe
<1>2. CASE Release(t)
  <2>1. pc'[t] = "released"
    BY <1>0, <1>2 DEF Release
  <2>2. WillWake(t)'
    BY <2>1 DEF WillWake
  <2>3. QED
    BY <2>2
<1>3. CASE NotifyWaiters(t)
  <2>1. pc'[t] = "notify" /\ next'[t] = 0 /\ listSize' > 0
    BY <1>0, <1>3 DEF NotifyWaiters, mutexVars
  <2>2. WillWake(t)'
    BY <2>1 DEF WillWake
  <2>3. QED
    BY <2>2
<1>4. CASE NotifyAll(t)
  <2>1. SweepStart(t, MutexEvent, "event") /\ pc'[t] = "sweep"
    BY <1>0, <1>4 DEF NotifyAll
  <2>2. \A u \in Threads : sweep'[t].ev = MutexEvent /\ AheadIn(t, u)'
    BY <1>0, <2>1, SweepStartAhead
  <2>3. sweep'[t].ret = "event"
    BY <1>0, <2>1 DEF SweepStart, NoSweep, KInv, KernelTypeOK
  <2>4. WillWake(t)'
    BY <2>1, <2>2, <2>3 DEF WillWake
  <2>5. QED
    BY <2>4
<1>5. ASSUME MutexStep(t), OnItsWay(t) => Safe', WillWake(t) => Safe' \/ WillWake(t)'
      PROVE  (Safe \/ \E u \in Threads : WillWake(u))'
  <2>1. /\ UNCHANGED <<threads, listSize>>
        /\ \A u \in Threads : MutexWaits(u)
        /\ \A u \in Threads \ {t} : pc'[u] = pc[u] /\ sweep'[u] = sweep[u] /\ next'[u] = next[u]
    BY <1>5, MutexStepWaits
  <2>2. UNCHANGED isAcquired
    BY <1>5 DEF Perform, Unlist, CheckEvent, NotifyAll, NotifyAllStep, NotifyWaiters, NotifyWaiter,
      ReleaseYield, mutexVars
  <2>3. {t} \in SUBSET Threads /\ \A u \in {t} : u = t
    OBVIOUS
  <2>4. /\ \A u \in {t} : OnItsWay(u) => Safe'
        /\ \A u \in {t} : WillWake(u) => Safe' \/ WillWake(u)'
    BY <1>5
  <2>5. QED
    BY <2>1, <2>2, <2>3, <2>4, PromiseStays
<1>6. CASE Perform(t) \/ Unlist(t)
  <2>1. PICK l \in {"unlist", "check"} : pc' = [pc EXCEPT ![t] = l]
    BY <1>6 DEF Perform, Unlist
  <2>2. pc[t] \in {"perform", "unlist"} /\ ~WillWake(t)
    BY <1>6 DEF Perform, Unlist, WillWake
  <2>3. UNCHANGED <<waiting, ret>>
    BY <1>0, <1>6 DEF Perform, Unlist, PerformContextSwitch, kernelVars, waitVars
  <2>4. OnItsWay(t) => OnItsWay(t)'
    BY <1>0, <2>1, <2>2, <2>3 DEF OnItsWay
  <2>5. OnItsWay(t) => Safe'
    BY <2>4 DEF Safe
  <2>6. QED
    BY <1>5, <1>6, <2>2, <2>5
<1>7. CASE CheckEvent(t)
  <2>1. pc[t] = "check" /\ ~WillWake(t)
    BY <1>7 DEF CheckEvent, WillWake
  <2>2. OnItsWay(t) => pc'[t] = "acquire"
    BY <1>0, <1>7, <2>1 DEF CheckEvent, OnItsWay
  <2>3. OnItsWay(t) => Safe'
    BY <2>2 DEF Safe, OnItsWay
  <2>4. QED
    BY <1>5, <1>7, <2>1, <2>3
<1>8. CASE NotifyAllStep(t) /\ SweepStep(t)
  <2>1. ~OnItsWay(t)
    BY <1>8 DEF NotifyAllStep, OnItsWay
  <2>2. WillWake(t) => Safe' \/ WillWake(t)'
    BY <1>8, ReleaseSweepWakes
  <2>3. QED
    BY <1>5, <1>8, <2>1, <2>2
<1>9. CASE NotifyAllStep(t) /\ SweepEnd(t)
  <2>1. ~OnItsWay(t) /\ pc[t] = "sweep"
    BY <1>9 DEF NotifyAllStep, OnItsWay
  <2>2. \A u : ~AheadIn(t, u)
    BY <1>0, <1>9, SweepDoneAhead DEF SweepEnd
  <2>3. WillWake(t) => Safe'
    BY <1>9, <2>1, <2>2 DEF WillWake, Safe, SweepEnd, waitVars
  <2>4. QED
    BY <1>5, <1>9, <2>1, <2>3
<1>10. CASE NotifyWaiter(t)
  <2>1. ~OnItsWay(t)
    BY <1>10 DEF NotifyWaiter, OnItsWay
  <2>2. QED
    BY <1>5, <1>10, <2>1, ReleaseNotifyWakes
<1>11. CASE ReleaseYield(t)
  <2>1. ~OnItsWay(t) /\ ~WillWake(t)
    BY <1>11 DEF ReleaseYield, OnItsWay, WillWake
  <2>2. QED
    BY <1>5, <1>11, <2>1
<1>12. QED
  BY <1>1, <1>2, <1>3, <1>4, <1>6, <1>7, <1>8, <1>9, <1>10, <1>11 DEF NotifyAllStep

\* The idle thread, interruptions and interrupts.
LEMMA StrandKernelKeeps ==
  ASSUME StrandInv, ListUninterrupted, MutexInv', StartedStep, UNCHANGED <<mutexVars, next>>
  PROVE  StrandInv'
<1>1. /\ UNCHANGED <<threads, lock, isAcquired, listSize, next>>
      /\ \A u \in Threads : StepWaits(u) /\ MutexWaits(u)
      /\ \A u \in Threads : StepStays(u)
  BY StartedStepKeeps DEF StrandInv, MutexInv, KeepsObjects, MutexWaits, bootVars, mutexVars
<1>2. WaitInv'
  <2>1. \A u \in Threads : \/ pc'[u] = pc[u]
                           \/ {pc[u], pc'[u]} \cap {"perform", "unlist", "check"} = {}
    BY <1>1 DEF StepStays
  <2>2. \A u \in Threads : MutexWait(u)'
    BY <1>1, <2>1, WaitStays
  <2>3. QED
    BY <1>1, <2>2 DEF StrandInv, WaitInv
<1>3. (Safe \/ \E t \in Threads : WillWake(t))'
  <2>1. \A u \in Threads \ {} : pc[u] \notin Elsewhere =>
           pc'[u] = pc[u] /\ sweep'[u] = sweep[u] /\ next'[u] = next[u]
    BY <1>1 DEF StepStays, Elsewhere
  <2>2. {} \in SUBSET Threads
    OBVIOUS
  <2>3. QED
    BY <1>1, <2>1, <2>2, PromiseStays
<1>4. ListCalm'
  <2>1. SUFFICES ASSUME listSize > 0 PROVE ListCalm'
    BY <1>1 DEF ListCalm
  <2>2. /\ Interruptible = {}
    BY <2>1 DEF StrandInv, MutexInv, MutexData, ListUninterrupted
  <2>3. /\ isrPc \in {"off", "tick"}
        /\ \A t \in Threads : ~interrupted[t] /\ pc[t] \notin {"sweep", "cancel", "cancelSweep"}
    BY <2>1 DEF StrandInv, MutexInv, MutexData, IsrInRange, ListCalm
  <2>4. UNCHANGED <<pc, interrupted>> /\ isrPc' # "cancel"
    <3> USE <2>2, <2>3 DEF At, Free, threadVars, isrVars, statusVars, kernelVars, IsrGoto
    <3>1. CASE IdleYield
      BY <3>1 DEF IdleYield, PerformContextSwitch
    <3>2. ASSUME NEW t \in Threads, StartInterruption(t) \/ Cancel(t) \/ CancelStep(t)
          PROVE  FALSE
      BY <3>2 DEF StartInterruption, AckInterruption, RequestInterruption, Cancel, CancelStep
    <3>3. ASSUME NEW critical, Tick(critical)
          PROVE  UNCHANGED <<pc, interrupted>> /\ isrPc' # "cancel"
      BY <3>3 DEF Tick, IsrTick
    <3>4. CASE Handler
      <4>1. CASE TickThread
        <5>1. isrIdx \in Nat /\ isrIdx < Len(threads) /\ threads \in Seq(Threads)
          BY <4>1 DEF TickThread, StrandInv, MutexInv, MutexData, IsrInRange, StartedInv, KInv,
            KernelTypeOK
        <5>2. isrIdx + 1 \in 1..Len(threads)
          BY <5>1
        <5>3. threads[isrIdx + 1] \in Threads
          BY <5>1, <5>2
        <5>4. QED
          BY <3>4, <4>1, <5>3 DEF Handler, TickThread
      <4>2. CASE IsrExit
        BY <3>4, <4>2 DEF Handler, IsrExit, PerformContextSwitch
      <4>3. CASE IsrSweepStep \/ TickCancelled \/ IsrNotified
        BY <4>3 DEF IsrSweepStep, TickCancelled, IsrNotified
      <4>4. QED
        BY <3>4, <4>1, <4>2, <4>3 DEF Handler, HandlerStep
    <3>5. QED
      BY <3>1, <3>2, <3>3, <3>4 DEF StartedStep
  <2>5. \A u \in Threads : pc[u] \in {"perform", "unlist"} /\ ~waiting'[u] => ret'[u] = "event"
    BY <1>1, <2>1, <2>4, CalmWaits
  <2>6. QED
    BY <1>1, <2>1, <2>3, <2>4, <2>5 DEF ListCalm
<1>5. QED
  BY <1>2, <1>3, <1>4 DEF StrandInv

LEMMA StrandStep ==
  ASSUME ListsSuffice, ListUninterrupted, StrandInv, [Next]_vars
  PROVE  StrandInv'
<1>0. MutexInv'
  BY MutexInvStep DEF StrandInv
<1>1. ASSUME NEW t \in Threads, Acquire(t) \/ Release(t) \/ MutexStep(t)
      PROVE  StrandInv'
  BY <1>0, <1>1, WaitInvKeeps, CalmKeeps, PromiseKept DEF StrandInv
<1>2. CASE Kernel
  BY <1>0, <1>2, StrandKernelKeeps DEF Kernel, StartedStep
<1>3. CASE UNCHANGED vars
  <2>1. /\ UNCHANGED <<threads, lock, interrupted, isrPc, isAcquired, listSize>>
        /\ UNCHANGED <<ready, waiting, event, ret, pc, sweep, next>>
    BY <1>3 DEF vars, kernelVars, bootVars, schedVars, waitVars, statusVars, sweepVars, isrVars,
      threadVars, mutexVars
  <2>2. WaitInv' /\ ListCalm'
    BY <2>1 DEF StrandInv, WaitInv, MutexWait, ListCalm, HasList
  <2>3. (Safe \/ \E t \in Threads : WillWake(t))'
    BY <2>1 DEF StrandInv, Safe, WillWake, OnItsWay, AheadIn
  <2>4. QED
    BY <1>0, <2>2, <2>3 DEF StrandInv
<1>4. QED
  BY <1>1, <1>2, <1>3 DEF Next

\* OSMutex::release, without a list for any interruptions, with a list where
\* nobody is interrupted: when the mutex is free and its release is over, no
\* thread is left waiting for it that nobody would wake.
THEOREM NobodyIsStranded ==
  ASSUME ListsSuffice, ListUninterrupted
  PROVE  Spec => []NoStrandedWaiter
<1>1. StrandInv => NoStrandedWaiter
  BY DEF StrandInv, Safe, WillWake, NoStrandedWaiter, Releasing
<1>2. QED
  BY <1>1, StrandInitSafe, StrandStep, PTL DEF Spec

=============================================================================
