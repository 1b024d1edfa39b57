------------------------------- MODULE OSMutex -------------------------------
(***************************************************************************)
(* class OSMutex (kernel/src/OSMutex.cpp): threads that acquire a mutex    *)
(* and release it, in a loop, in both builds: without                      *)
(* OS_INCLUDE_OSMUTEX_WAITING_THREADS a release offers the mutex to every  *)
(* thread of the scheduler that waits for its event; with it, to the       *)
(* threads of a list kept in the order of the calls of acquire().          *)
(* A mutex is of one of the kinds in Lists from its construction on.       *)
(*                                                                         *)
(* Left out: a try that fails (it stores TRUE over TRUE), a release by a   *)
(* thread that is not the owner (it returns at once), m_eventRet, which    *)
(* only getEventReturn() reads.                                            *)
(***************************************************************************)
EXTENDS OSStarted

CONSTANTS
  MutexEvent,   \* m_event, the address of the mutex
  Lists         \* the sizes of the list, and NoList for the build without it

NoList == -1

ASSUME MutexAssumption ==
  /\ MutexEvent \in Events
  /\ Lists \subseteq Nat \cup {NoList}

VARIABLES
  isAcquired,   \* m_isAcquired
  owner,        \* m_pOwnerThread
  waiters,      \* m_pWaitingThreadsArray[0 .. m_waitingThreadsCount - 1]
  listSize,     \* m_waitingThreadsArraySize
  next          \* per thread: the loop index of release()

mutexVars == <<isAcquired, owner, waiters, listSize>>
vars == <<kernelVars, isrVars, threadVars, mutexVars, next>>

HasList == listSize # NoList

\* Where a release is in progress.
Releasing == {"released", "notify", "sweep", "yield"}

TypeOK ==
  /\ KernelTypeOK
  /\ pc \in [Threads -> Releasing \cup {"main", "cancel", "cancelSweep", "acquire",
                                        "perform", "unlist", "check", "owner"}]
  /\ target \in [Threads -> Threads \cup {NoThread}]
  /\ isrPc \in {"off", "tick", "cancel"} /\ isrIdx \in 0..Len(threads)
  /\ isAcquired \in BOOLEAN
  /\ owner \in Threads \cup {NoThread}
  /\ waiters \in Seq(Threads) /\ (waiters = <<>> \/ Len(waiters) <= listSize)
  /\ listSize \in Lists
  /\ next \in [Threads -> Nat]

Init ==
  /\ StartedInit
  /\ isAcquired = FALSE /\ owner = NoThread
  /\ waiters = <<>> /\ listSize \in Lists
  /\ next = [t \in Threads |-> 0]

-----------------------------------------------------------------------------
(***************************************************************************)
(* The list of waiting threads, class OSMutexWaitingThreads.               *)
(***************************************************************************)

\* Variant: the size of the array is not looked at.
Add_Unbounded(list, t) == Append(list, t)

\* add: with the array full it returns OS_NOT_ENOUGH_SPACE.
Add(list, t) == IF Len(list) < listSize THEN Append(list, t) ELSE list

\* remove: the last slot that holds t; the rest moves left.
RemoveLast(list, t) ==
  IF ~Find(list, t) THEN list
  ELSE ShiftLeft(list, CHOOSE i \in 1..Len(list) :
                         /\ list[i] = t
                         /\ \A j \in i + 1..Len(list) : list[j] # t)

-----------------------------------------------------------------------------
(***************************************************************************)
(* acquire                                                                 *)
(***************************************************************************)

\* At the head of its loop, whether at the first try or after a notification.
Acquires(t) == t # Idle /\ (At(t, "main") \/ At(t, "acquire"))

\* Variant: the flag is stored and not tested.
AcquireFree_NoTest(t) ==
  /\ Acquires(t)
  /\ isAcquired' = TRUE /\ owner' = t
  /\ Goto(t, "owner")
  /\ UNCHANGED <<kernelVars, waiters, listSize, next>>

\* The critical section finds the mutex free.
AcquireFree(t) ==
  /\ Acquires(t) /\ ~isAcquired
  /\ isAcquired' = TRUE /\ owner' = t
  /\ Goto(t, "owner")
  /\ UNCHANGED <<kernelVars, waiters, listSize, next>>

\* Variant: the flag was read before the critical section.
AcquireWait_Stale(t) ==
  /\ Acquires(t)
  /\ EventWaitPrepare(t, MutexEvent)
  /\ waiters' = IF HasList THEN Add(waiters, t) ELSE waiters
  /\ Goto(t, "perform")
  /\ UNCHANGED <<isAcquired, owner, listSize, next>>

\* It finds it taken: the same critical section prepares the wait.
AcquireWait(t) ==
  /\ Acquires(t) /\ isAcquired
  /\ EventWaitPrepare(t, MutexEvent)
  /\ waiters' = IF HasList THEN Add(waiters, t) ELSE waiters
  /\ Goto(t, "perform")
  /\ UNCHANGED <<isAcquired, owner, listSize, next>>

AcquireRefused(t) ==
  /\ Acquires(t) /\ isAcquired
  /\ EventWaitRefused(t, MutexEvent)
  /\ Goto(t, "check")
  /\ UNCHANGED <<mutexVars, next>>

\* eventWaitPerform; with the list, inside a critical section.
Perform(t) ==
  /\ At(t, "perform")
  /\ PerformContextSwitch
  /\ Goto(t, IF HasList THEN "unlist" ELSE "check")
  /\ UNCHANGED <<mutexVars, next>>

\* Variant: a thread that was woken stays in the list.
Unlist_Stays(t) ==
  /\ At(t, "unlist")
  /\ Goto(t, "check")
  /\ UNCHANGED <<kernelVars, mutexVars, next>>

\* The end of that critical section.
Unlist(t) ==
  /\ At(t, "unlist")
  /\ waiters' = RemoveLast(waiters, t)
  /\ Goto(t, "check")
  /\ UNCHANGED <<kernelVars, isAcquired, owner, listSize, next>>

\* Notified, the thread tries again; otherwise it returns OS_OTHER_EVENT.
CheckEvent(t) ==
  /\ At(t, "check")
  /\ Goto(t, IF ret[t] = "event" THEN "acquire" ELSE "main")
  /\ UNCHANGED <<kernelVars, mutexVars, next>>

-----------------------------------------------------------------------------
(***************************************************************************)
(* release                                                                 *)
(***************************************************************************)

\* The critical section that gives up the mutex.
Release(t) ==
  /\ At(t, "owner") /\ owner = t
  /\ isAcquired' = FALSE /\ owner' = NoThread
  /\ Goto(t, "released")
  /\ UNCHANGED <<kernelVars, waiters, listSize, next>>

\* Without a list, or with one of size 0, every thread is notified.
NotifyAll(t) ==
  /\ At(t, "released") /\ ~(HasList /\ listSize > 0)
  /\ SweepStart(t, MutexEvent, "event")
  /\ Goto(t, "sweep")
  /\ UNCHANGED <<mutexVars, next>>

NotifyAllStep(t) ==
  /\ At(t, "sweep")
  /\ \/ SweepStep(t) /\ UNCHANGED pc
     \/ SweepEnd(t) /\ pc' = [pc EXCEPT ![t] = "yield"]
  /\ UNCHANGED <<target, isrVars, mutexVars, next>>

\* With a list its threads are notified one by one; between two of them
\* interrupts are enabled, and the threads woken remove themselves.
NotifyWaiters(t) ==
  /\ At(t, "released") /\ HasList /\ listSize > 0
  /\ next' = [next EXCEPT ![t] = 0]
  /\ Goto(t, "notify")
  /\ UNCHANGED <<kernelVars, mutexVars>>

\* Variant: the last thread of the list is not notified.
NotifyWaiter_NotLast(t) ==
  /\ At(t, "notify")
  /\ \/ /\ next[t] + 1 < Len(waiters)
        /\ EventNotifyThread(waiters[next[t] + 1], MutexEvent, "event")
        /\ next' = [next EXCEPT ![t] = @ + 1]
        /\ UNCHANGED pc
     \/ /\ next[t] + 1 >= Len(waiters)
        /\ pc' = [pc EXCEPT ![t] = "yield"]
        /\ UNCHANGED <<kernelVars, next>>
  /\ UNCHANGED <<target, isrVars, mutexVars>>

NotifyWaiter(t) ==
  /\ At(t, "notify")
  /\ \/ /\ next[t] < Len(waiters)
        /\ EventNotifyThread(waiters[next[t] + 1], MutexEvent, "event")
        /\ next' = [next EXCEPT ![t] = @ + 1]
        /\ UNCHANGED pc
     \/ /\ next[t] >= Len(waiters)
        /\ pc' = [pc EXCEPT ![t] = "yield"]
        /\ UNCHANGED <<kernelVars, next>>
  /\ UNCHANGED <<target, isrVars, mutexVars>>

ReleaseYield(t) ==
  /\ At(t, "yield")
  /\ PerformContextSwitch
  /\ Goto(t, "main")
  /\ UNCHANGED <<mutexVars, next>>

-----------------------------------------------------------------------------

\* The critical sections that last for more than a step: entered in Perform,
\* left in Unlist.
Critical == {"unlist"}

MutexStep(t) ==
  \/ Perform(t) \/ Unlist(t) \/ CheckEvent(t)
  \/ NotifyAll(t) \/ NotifyAllStep(t)
  \/ NotifyWaiters(t) \/ NotifyWaiter(t) \/ ReleaseYield(t)

Acquire(t) == AcquireFree(t) \/ AcquireWait(t) \/ AcquireRefused(t)

\* What the kernel does apart from the mutex.
Kernel ==
  /\ \/ IdleYield
     \/ \E t \in Threads : StartInterruption(t) \/ Cancel(t) \/ CancelStep(t)
     \/ Tick(Critical)
     \/ Handler
  /\ UNCHANGED <<mutexVars, next>>

Next ==
  \/ \E t \in Threads : Acquire(t) \/ Release(t) \/ MutexStep(t)
  \/ Kernel

\* What goes on once it is begun.
Continue(t) == (pc[t] # "main" /\ Acquire(t)) \/ Release(t) \/ MutexStep(t)

Spec == Init /\ [][Next]_vars

-----------------------------------------------------------------------------

\* A thread inside its critical section is the owner, so there is one at most.
MutualExclusion ==
  \A t \in Threads : pc[t] = "owner" => isAcquired /\ owner = t

\* A thread that waits for the mutex is in the list once, and who is in the
\* list is about to leave it: release() finds all it has to notify.
WaitersListed ==
  /\ NoDuplicates(waiters)
  /\ listSize > 0 => \A t \in Threads :
       t \in Members(waiters) <=> pc[t] \in {"perform", "unlist"}

\* u has been notified and will try to acquire the mutex.
OnItsWay(u) ==
  \/ pc[u] = "acquire"
  \/ pc[u] \in {"perform", "unlist", "check"} /\ ~waiting[u] /\ ret[u] = "event"

\* When the mutex is free and its release is over, no thread is left waiting
\* for it, unless another one is on its way, whose release will wake it.
NoStrandedWaiter ==
  ~isAcquired =>
    \/ \A t \in Threads : ~(waiting[t] /\ event[t] = MutexEvent)
    \/ \E u \in Threads : pc[u] \in Releasing \/ OnItsWay(u)

-----------------------------------------------------------------------------
(***************************************************************************)
(* Liveness.  Every call that is begun goes on, the owner releases the     *)
(* mutex, and the tick arrives.                                            *)
(***************************************************************************)

FairSpec ==
  /\ Spec
  /\ WF_vars(Handler /\ UNCHANGED <<mutexVars, next>>)
  /\ SF_vars(Tick(Critical) /\ UNCHANGED <<mutexVars, next>>)
  /\ \A t \in Threads \ {Idle} : SF_vars(Continue(t))

\* acquire() blocks until the mutex is released: a wait for it ends.
WaitEnds ==
  \A t \in Threads \ {Idle} : waiting[t] ~> ~waiting[t]

=============================================================================
