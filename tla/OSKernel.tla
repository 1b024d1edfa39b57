------------------------------ MODULE OSKernel ------------------------------
(***************************************************************************)
(* The state of the µOS++ kernel - OSScheduler, OSSchedulerLock, the ready *)
(* list and the per-thread fields of OSThread that scheduling depends on - *)
(* and the kernel routines that change it.  A routine is an action that    *)
(* says what happens to the kernel's variables and nothing else: a module  *)
(* that runs threads (OSScheduler, OSMutex, ...) conjoins it with its own  *)
(* control state.                                                          *)
(*                                                                         *)
(* A critical section (OSCriticalSection) masks the interrupts, and one    *)
(* core runs everything, so a routine that is one critical section is one  *)
(* atomic step.  eventNotify is a loop over all threads with one critical  *)
(* section per thread: its progress is the variable sweep, one step per    *)
(* iteration, for each context (thread or interrupt) that runs one.        *)
(***************************************************************************)
EXTENDS OSActiveThreads, FiniteSets

CONSTANTS
  Threads,            \* the OSThread objects of the application
  Events,             \* the OSEvent_t values waited for
  NoEvent,            \* OSEvent::OS_NONE
  NoThread,           \* the null thread pointer
  Isr,                \* the interrupt context
  Prio0,              \* the priority each thread is constructed with
  MaxThreads,         \* slots of ms_threads
  RoundRobinNotify    \* OS_INCLUDE_OSSCHEDULER_ROUND_ROBIN_NOTIFY

\* The idle thread is the only one of priority IDLE_PRIORITY (0), and the
\* model values that stand for "none" are not threads or events.
ASSUME KernelAssumption ==
  /\ Idle \in Threads
  /\ NoThread \notin Threads
  /\ Isr \notin Threads
  /\ NoEvent \notin Events
  /\ Prio0 \in [Threads -> Nat]
  /\ \A t \in Threads : Prio0[t] = 0 <=> t = Idle
  /\ MaxThreads \in Nat
  /\ RoundRobinNotify \in BOOLEAN

VARIABLES
  threads,        \* ms_threads[0 .. ms_threadsCount - 1]
  isRunning,      \* ms_isRunning
  isPreemptive,   \* ms_isPreemptive
  running,        \* ms_pThreadRunning
  ready,          \* OSActiveThreads::ms_array[0 .. ms_count - 1]
  lock,           \* OSSchedulerLock::ms_nestingLevel
  notifyIndex,    \* ms_notifyIndex
  event,          \* per thread: m_event
  waiting,        \*   m_isWaiting
  ret,            \*   m_eventWaitReturn
  suspended,      \*   m_isSuspended
  interrupted,    \*   m_isInterrupted
  prio,           \*   m_staticPriority
  sweep           \* per context: the eventNotify loop it is in

bootVars   == <<threads, isRunning>>
schedVars  == <<isPreemptive, running, ready, lock>>
waitVars   == <<event, waiting, ret>>
statusVars == <<suspended, interrupted, prio>>
sweepVars  == <<sweep, notifyIndex>>
kernelVars == <<bootVars, schedVars, waitVars, statusVars, sweepVars>>

\* The threads known to the scheduler.
Registered == Members(threads)

Contexts == Threads \cup {Isr}

\* The members of class OSEventWaitReturn the kernel itself distinguishes,
\* and "event" for the event itself, the value most notifications carry.
Rets == {"OS_NONE", "OS_VOID", "OS_LOCKED", "OS_TIMEOUT", "OS_CANCELLED",
         "OS_IMMEDIATELY", "event"}

NoSweep == [ev |-> NoEvent, ret |-> "OS_NONE", i |-> 0, at |-> 0, first |-> -1]

Sweeps == [ev : Events \cup {NoEvent}, ret : Rets, i : Nat, at : Nat,
           first : Nat \cup {-1}]

KernelTypeOK ==
  /\ threads \in Seq(Threads)
  /\ isRunning \in BOOLEAN
  /\ isPreemptive \in BOOLEAN
  /\ running \in Threads \cup {NoThread}
  /\ ready \in Seq(Threads)
  /\ lock \in Nat
  /\ notifyIndex \in Nat
  /\ event \in [Threads -> Events \cup {NoEvent}]
  /\ waiting \in [Threads -> BOOLEAN]
  /\ ret \in [Threads -> Rets]
  /\ suspended \in [Threads -> BOOLEAN]
  /\ interrupted \in [Threads -> BOOLEAN]
  /\ prio \in [Threads -> Nat]
  /\ sweep \in [Contexts -> Sweeps]

-----------------------------------------------------------------------------
(***************************************************************************)
(* The context switch.                                                     *)
(***************************************************************************)

\* isContextSwitchRequired: the quick check at the end of an interrupt.
IsContextSwitchRequired ==
  /\ isPreemptive \/ running = Idle
  /\ Len(ready) > 1

\* Variant: the running thread goes back although it waits.
Rescheduled_Waiting ==
  LET others == Remove(ready, running)
  IN  IF suspended[running] THEN others ELSE Insert(others, running, prio)

\* The ready list once the running thread has been removed and, if it can
\* still run, put back behind its equals (round robin).
Rescheduled ==
  LET others == Remove(ready, running)
  IN  IF suspended[running] \/ waiting[running] THEN others
      ELSE Insert(others, running, prio)

\* Variant: the lock is not looked at.
PerformContextSwitch_Unlocked ==
  /\ ready' = Rescheduled
  /\ running' = GetTop(Rescheduled)
  /\ UNCHANGED <<isPreemptive, lock, waitVars, bootVars, statusVars, sweepVars>>

\* performContextSwitch, from yield() and from the end of an interrupt: with
\* the scheduler locked the running thread stays and is told OS_LOCKED.
PerformContextSwitch ==
  /\ \/ /\ lock = 0
        /\ ready' = Rescheduled
        /\ running' = GetTop(Rescheduled)
        /\ UNCHANGED ret
     \/ /\ lock # 0
        /\ ret' = [ret EXCEPT ![running] = "OS_LOCKED"]
        /\ UNCHANGED <<ready, running>>
  /\ UNCHANGED <<isPreemptive, lock, event, waiting, bootVars, statusVars,
                 sweepVars>>

-----------------------------------------------------------------------------
(***************************************************************************)
(* Waiting for and notifying events.                                       *)
(***************************************************************************)

\* eventWaitPrepare refuses to wait: interrupted, scheduler locked, or no
\* event; the reason is the value the wait returns.
PrepareRefusal(t, ev) ==
  IF interrupted[t] THEN "OS_CANCELLED"
  ELSE IF lock # 0 THEN "OS_LOCKED"
  ELSE "OS_NONE"

PrepareRefused(t, ev) == interrupted[t] \/ lock # 0 \/ ev = NoEvent

EventWaitRefused(t, ev) ==
  /\ PrepareRefused(t, ev)
  /\ ret' = [ret EXCEPT ![t] = PrepareRefusal(t, ev)]
  /\ UNCHANGED <<event, waiting, bootVars, schedVars, statusVars, sweepVars>>

\* The first of the two writes of a successful eventWaitPrepare, m_event; the
\* checks before it read nothing an interrupt could change but m_isInterrupted.
EventWaitSetEvent(t, ev) ==
  /\ ~PrepareRefused(t, ev)
  /\ event' = [event EXCEPT ![t] = ev]
  /\ UNCHANGED <<waiting, ret, bootVars, schedVars, statusVars, sweepVars>>

\* The second write, m_isWaiting.
EventWaitSetWaiting(t) ==
  /\ waiting' = [waiting EXCEPT ![t] = TRUE]
  /\ UNCHANGED <<event, ret, bootVars, schedVars, statusVars, sweepVars>>

\* eventWaitPrepare in a critical section, as its comment asks: both
\* writes at once.
EventWaitPrepare(t, ev) ==
  /\ ~PrepareRefused(t, ev)
  /\ event' = [event EXCEPT ![t] = ev]
  /\ waiting' = [waiting EXCEPT ![t] = TRUE]
  /\ UNCHANGED <<ret, bootVars, schedVars, statusVars, sweepVars>>

\* OSThread::eventNotify wakes a thread that waits for this event and is not
\* suspended.
Notifiable(t, ev) ==
  ev # NoEvent /\ waiting[t] /\ ~suspended[t] /\ event[t] = ev

\* Variant: the thread is not put back in the ready list.
NotifyThread_NotInserted(t, ev, r) ==
  IF Notifiable(t, ev)
  THEN /\ waiting' = [waiting EXCEPT ![t] = FALSE]
       /\ event' = [event EXCEPT ![t] = NoEvent]
       /\ ret' = [ret EXCEPT ![t] = r]
       /\ UNCHANGED ready
  ELSE UNCHANGED <<waiting, event, ret, ready>>

NotifyThread(t, ev, r) ==
  IF Notifiable(t, ev)
  THEN /\ waiting' = [waiting EXCEPT ![t] = FALSE]
       /\ event' = [event EXCEPT ![t] = NoEvent]
       /\ ret' = [ret EXCEPT ![t] = r]
       /\ ready' = Insert(ready, t, prio)
  ELSE UNCHANGED <<waiting, event, ret, ready>>

\* OSThread::eventNotify by itself, for a thread the caller knows.
EventNotifyThread(t, ev, r) ==
  /\ NotifyThread(t, ev, r)
  /\ UNCHANGED <<isPreemptive, running, lock, bootVars, statusVars, sweepVars>>

\* OSScheduler::eventNotify is entered by context c.
SweepStart(c, ev, r) ==
  /\ sweep' = [sweep EXCEPT ![c] =
       [NoSweep EXCEPT !.ev = ev, !.ret = r,
                       !.at = IF RoundRobinNotify THEN notifyIndex ELSE 0]]
  /\ UNCHANGED <<notifyIndex, bootVars, schedVars, waitVars, statusVars>>

SweepDone(c) == sweep[c].i >= Len(threads)

\* The index after i, wrapped at the number of registered threads.
NextIndex(i) == IF i + 1 >= Len(threads) THEN 0 ELSE i + 1

\* One iteration: one thread is notified, in its own critical section.
SweepStep(c) ==
  LET s == sweep[c]
      t == threads[s.at + 1]
      hit == s.first = -1 /\ Notifiable(t, s.ev)
  IN  /\ ~SweepDone(c)
      /\ NotifyThread(t, s.ev, s.ret)
      /\ sweep' = [sweep EXCEPT ![c] =
           [s EXCEPT !.i = s.i + 1,
                     !.at = IF RoundRobinNotify THEN NextIndex(s.at) ELSE s.at + 1,
                     !.first = IF hit THEN s.at ELSE s.first]]
      /\ UNCHANGED <<isPreemptive, running, lock, notifyIndex, bootVars,
                     statusVars>>

\* The end of eventNotify; the round robin start index moves on.
SweepEnd(c) ==
  /\ SweepDone(c)
  /\ sweep' = [sweep EXCEPT ![c] = NoSweep]
  /\ notifyIndex' =
       IF ~RoundRobinNotify THEN notifyIndex
       ELSE NextIndex(IF sweep[c].first > 0 THEN sweep[c].first ELSE notifyIndex)
  /\ UNCHANGED <<bootVars, schedVars, waitVars, statusVars>>

-----------------------------------------------------------------------------
(***************************************************************************)
(* Thread control.                                                         *)
(***************************************************************************)

\* OSThread::suspend
SuspendThread(t) ==
  /\ suspended' = [suspended EXCEPT ![t] = TRUE]
  /\ ready' = Remove(ready, t)
  /\ UNCHANGED <<isPreemptive, running, lock, interrupted, prio, bootVars,
                 waitVars, sweepVars>>

\* OSThread::resume
ResumeThread(t) ==
  /\ suspended' = [suspended EXCEPT ![t] = FALSE]
  /\ ready' = Insert(ready, t, prio)
  /\ UNCHANGED <<isPreemptive, running, lock, interrupted, prio, bootVars,
                 waitVars, sweepVars>>

\* OSThread::setInterruption, by requestInterruption and ackInterruption
SetInterruption(t, flag) ==
  /\ interrupted' = [interrupted EXCEPT ![t] = flag]
  /\ UNCHANGED <<suspended, prio, bootVars, schedVars, waitVars, sweepVars>>

\* OSThread::setPriority: the ready list is not touched.
SetPriority(t, p) ==
  /\ prio' = [prio EXCEPT ![t] = p]
  /\ UNCHANGED <<suspended, interrupted, bootVars, schedVars, waitVars, sweepVars>>

\* OSScheduler::setPreemptive
SetPreemptive(flag) ==
  /\ isPreemptive' = flag
  /\ UNCHANGED <<running, ready, lock, bootVars, waitVars, statusVars, sweepVars>>

\* The store that ends ++ms_nestingLevel or --ms_nestingLevel.
SetLock(n) ==
  /\ lock' = n
  /\ UNCHANGED <<isPreemptive, running, ready, bootVars, waitVars, statusVars,
                 sweepVars>>

\* OSScheduler::threadRegister: with the table full the thread is not known
\* to the scheduler; before start() it is not yet in the ready list.
ThreadRegister(t) ==
  /\ IF Len(threads) < MaxThreads
     THEN /\ threads' = Append(threads, t)
          /\ ready' = IF isRunning THEN Insert(ready, t, prio) ELSE ready
     ELSE UNCHANGED <<threads, ready>>
  /\ UNCHANGED <<isRunning, isPreemptive, running, lock, waitVars, statusVars,
                 sweepVars>>

-----------------------------------------------------------------------------
(***************************************************************************)
(* What every user of the kernel relies on.                                *)
(***************************************************************************)

\* The ready list is a list of threads that may be picked: no thread is in it
\* twice (OSActiveThreads::insert may be reached for a thread that is already
\* in), a suspended thread is not in it, and once the scheduler runs the idle
\* thread is always there to be picked.
ReadyListSound ==
  /\ NoDuplicates(ready)
  /\ Members(ready) \subseteq Registered
  /\ \A t \in Threads : suspended[t] => t \notin Members(ready)
  /\ isRunning => Idle \in Members(ready)

\* No thread is ever lost: one that is out of the ready list is suspended or
\* waits, so a resume or a notification will put it back.  What could lose one
\* is a notification or an interrupt between the writes of eventWaitPrepare, or
\* between them and the switch that drops the thread.
NoLostThread ==
  isRunning =>
    \A t \in Registered : t \in Members(ready) \/ suspended[t] \/ waiting[t]

=============================================================================
