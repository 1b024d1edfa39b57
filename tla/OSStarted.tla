------------------------------ MODULE OSStarted ------------------------------
(***************************************************************************)
(* The kernel as OSScheduler::start() leaves it, and what is common to the *)
(* modules of the synchronisation objects built on it: where each thread   *)
(* is, the idle thread's loop, and the calls that interrupt a thread.  How *)
(* this state is reached is the matter of OSScheduler.                     *)
(***************************************************************************)
EXTENDS OSInterrupts

CONSTANTS
  Initial,          \* the threads, in construction order
  Interruptible     \* the threads that are interrupted by others

ASSUME StartedAssumption ==
  /\ Initial \in Seq(Threads)
  /\ NoDuplicates(Initial) /\ Members(Initial) = Threads
  /\ MaxThreads >= Len(Initial)
  /\ Interruptible \subseteq Threads \ {Idle}

VARIABLES
  pc,       \* per thread: where it is; "main" outside of every call
  target    \* per thread: the thread its requestInterruption is about

threadVars == <<pc, target>>

\* start() inserts the threads one by one: decreasing priority, and equals in
\* construction order.
ReadyAtStart ==
  { l \in [1..Len(Initial) -> Threads] :
      /\ NoDuplicates(l) /\ Members(l) = Threads
      /\ Sorted(l, Prio0)
      /\ \A t, u \in Threads :
           Prio0[t] = Prio0[u] /\ Before(Initial, t, u) => Before(l, t, u) }

StartedInit ==
  /\ threads = Initial /\ isRunning = TRUE /\ isPreemptive = TRUE
  /\ ready \in ReadyAtStart
  /\ running = GetTop(ready)
  /\ lock = 0 /\ notifyIndex = 0
  /\ event = [t \in Threads |-> NoEvent]
  /\ waiting = [t \in Threads |-> FALSE]
  /\ ret = [t \in Threads |-> "OS_NONE"]
  /\ suspended = [t \in Threads |-> FALSE]
  /\ interrupted = [t \in Threads |-> FALSE]
  /\ prio = Prio0
  /\ sweep = [c \in Contexts |-> NoSweep]
  /\ pc = [t \in Threads |-> "main"]
  /\ target = [t \in Threads |-> NoThread]
  /\ isrPc = "off" /\ isrIdx = 0

-----------------------------------------------------------------------------

\* Thread t is on the processor, at l.
At(t, l) == isrPc = "off" /\ running = t /\ pc[t] = l

\* Thread t is on the processor, outside of every call.
Free(t) == t # Idle /\ At(t, "main")

Goto(t, l) ==
  /\ pc' = [pc EXCEPT ![t] = l]
  /\ UNCHANGED <<target, isrVars>>

\* The idle thread yields in its loop.
IdleYield ==
  /\ At(Idle, "main")
  /\ PerformContextSwitch
  /\ UNCHANGED <<threadVars, isrVars>>

\* OSThread::requestInterruption sets the flag; in a critical section it then
\* cancels what u waits for.
RequestInterruption(t, u) ==
  /\ Free(t) /\ u \in Interruptible
  /\ SetInterruption(u, TRUE)
  /\ target' = [target EXCEPT ![t] = u]
  /\ pc' = [pc EXCEPT ![t] = "cancel"]
  /\ UNCHANGED isrVars

\* OSScheduler::ISRcancelThread.  The alarms of the event, which it removes from
\* the timers first, are in OSTimer only.
Cancel(t) ==
  /\ At(t, "cancel")
  /\ \/ /\ waiting[target[t]]
        /\ SweepStart(t, event[target[t]], "OS_CANCELLED")
        /\ Goto(t, "cancelSweep")
     \/ /\ ~waiting[target[t]]
        /\ UNCHANGED kernelVars
        /\ Goto(t, "main")

CancelStep(t) ==
  /\ At(t, "cancelSweep")
  /\ \/ SweepStep(t) /\ UNCHANGED threadVars
     \/ SweepEnd(t) /\ pc' = [pc EXCEPT ![t] = "main"] /\ UNCHANGED target
  /\ UNCHANGED isrVars

\* The interrupted thread acknowledges.
AckInterruption(t) ==
  /\ Free(t) /\ interrupted[t]
  /\ SetInterruption(t, FALSE)
  /\ UNCHANGED <<threadVars, isrVars>>

StartInterruption(t) ==
  AckInterruption(t) \/ \E u \in Threads : RequestInterruption(t, u)

\* The tick, when the running thread is not in one of the critical sections.
Tick(critical) ==
  /\ pc[running] \notin critical \cup {"cancelSweep"}
  /\ IsrTick
  /\ UNCHANGED threadVars

Handler == HandlerStep /\ UNCHANGED threadVars

\* The eventNotify that c is inside of has not come to thread t yet.
AheadIn(c, t) ==
  \E k \in 0..Len(threads) - 1 - sweep[c].i :
    threads[((sweep[c].at + k) % Len(threads)) + 1] = t

\* An eventNotify for ev is in progress that has not come to thread t yet.
NotificationAhead(t, ev) ==
  \E c \in Contexts : sweep[c].ev = ev /\ AheadIn(c, t)

=============================================================================
