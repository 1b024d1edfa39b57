---------------------------- MODULE OSScheduler ----------------------------
(***************************************************************************)
(* The kernel run by an arbitrary application: from the construction of    *)
(* the threads and OSScheduler::start() on, every thread makes any         *)
(* sequence of the kernel calls in Ops, at any time an interrupt may       *)
(* arrive - a device that notifies an event, or the scheduler tick - and   *)
(* at the end of an interrupt the scheduler may switch threads.            *)
(*                                                                         *)
(* Threads interleave with interrupts wherever the code is not in a        *)
(* critical section.                                                       *)
(***************************************************************************)
EXTENDS OSInterrupts

CONSTANTS
  Ops,          \* the kernel calls the application makes
  Initial,      \* the threads constructed before start(), in link order
  NotifyRets,   \* the values notified
  MaxNesting    \* bound: depth of nested OSSchedulerLock::enter calls

\* All the calls a thread may make.
AllOps == {"wait", "notify", "yield", "suspend",
           "interrupt", "lock", "preempt", "priority", "create"}

ASSUME SchedulerAssumption ==
  /\ Ops \subseteq AllOps
  /\ Initial \in Seq(Threads) /\ NoDuplicates(Initial)
  /\ Idle \in Members(Initial)
  /\ NotifyRets \subseteq Rets \ {"OS_LOCKED"}
  /\ MaxNesting \in 0..255

VARIABLES
  bootPc,       \* main(): "construct", then "start" inserting, then "started"
  bootIdx,      \* threads constructed; then the loop index of start()
  pc,           \* per thread: where it is in a kernel call
  target,       \* per thread: the thread its call is about
  loaded,       \* per thread: ms_nestingLevel loaded by ++ or --
  depth,        \* per thread: its nested OSSchedulerLock::enter calls
  stackReady    \* per thread: stackInitialise has built its first context

clientVars == <<bootPc, bootIdx, pc, target, loaded, depth, stackReady>>
vars == <<kernelVars, clientVars, isrVars>>

PcValues == {"main", "mark", "yield", "woken", "notify", "cancel",
             "cancelSweep", "inc", "dec", "create"}

TypeOK ==
  /\ KernelTypeOK
  /\ bootPc \in {"construct", "start", "started"}
  /\ bootIdx \in Nat
  /\ pc \in [Threads -> PcValues]
  /\ target \in [Threads -> Threads \cup {NoThread}]
  /\ loaded \in [Threads -> Nat]
  /\ depth \in [Threads -> Nat]
  /\ stackReady \in [Threads -> BOOLEAN]
  /\ isrPc \in {"off", "notify", "tick", "cancel"}
  /\ isrIdx \in Nat

\* earlyInit() and the fields OSThread::initialise gives every thread.
Init ==
  /\ threads = <<>> /\ isRunning = FALSE /\ isPreemptive = TRUE
  /\ running = NoThread /\ ready = <<>> /\ lock = 0 /\ notifyIndex = 0
  /\ event = [t \in Threads |-> NoEvent]
  /\ waiting = [t \in Threads |-> FALSE]
  /\ ret = [t \in Threads |-> "OS_NONE"]
  /\ suspended = [t \in Threads |-> FALSE]
  /\ interrupted = [t \in Threads |-> FALSE]
  /\ prio = Prio0
  /\ sweep = [c \in Contexts |-> NoSweep]
  /\ bootPc = "construct" /\ bootIdx = 0
  /\ pc = [t \in Threads |-> "main"]
  /\ target = [t \in Threads |-> NoThread]
  /\ loaded = [t \in Threads |-> 0]
  /\ depth = [t \in Threads |-> 0]
  /\ stackReady = [t \in Threads |-> FALSE]
  /\ isrPc = "off" /\ isrIdx = 0

-----------------------------------------------------------------------------
(***************************************************************************)
(* Start-up, with interrupts disabled and no thread running.               *)
(***************************************************************************)

\* The next static constructor runs OSThread::initialise.
Construct ==
  /\ bootPc = "construct" /\ bootIdx < Len(Initial)
  /\ ThreadRegister(Initial[bootIdx + 1])
  /\ stackReady' = [stackReady EXCEPT ![Initial[bootIdx + 1]] = TRUE]
  /\ bootIdx' = bootIdx + 1
  /\ UNCHANGED <<bootPc, pc, target, loaded, depth, isrVars>>

\* The constructor of an application thread, or main(), suspends it.
SuspendAtBoot(t) ==
  /\ "suspend" \in Ops
  /\ bootPc = "construct"
  /\ t \in Registered \ {Idle}
  /\ SuspendThread(t)
  /\ UNCHANGED <<clientVars, isrVars>>

\* main() calls OSScheduler::start().
EnterStart ==
  /\ bootPc = "construct"
  /\ bootIdx = Len(Initial)
  /\ bootPc' = "start" /\ bootIdx' = 0
  /\ UNCHANGED <<pc, target, loaded, depth, stackReady, kernelVars, isrVars>>

\* One iteration of its loop.
StartInsert ==
  /\ bootPc = "start" /\ bootIdx < Len(threads)
  /\ LET t == threads[bootIdx + 1]
     IN  ready' = IF suspended[t] THEN ready ELSE Insert(ready, t, prio)
  /\ bootIdx' = bootIdx + 1
  /\ UNCHANGED <<isPreemptive, running, lock, bootVars, waitVars, statusVars,
                 sweepVars, bootPc, pc, target, loaded, depth, stackReady, isrVars>>

\* The first thread is chosen and entered; without an idle thread start()
\* would loop for ever.
StartFirst ==
  /\ bootPc = "start" /\ bootIdx >= Len(threads)
  /\ Idle \in Registered
  /\ running' = GetTop(ready)
  /\ isRunning' = TRUE
  /\ lock' = 0
  /\ bootPc' = "started"
  /\ UNCHANGED <<threads, isPreemptive, ready, waitVars, statusVars, sweepVars,
                 bootIdx, pc, target, loaded, depth, stackReady, isrVars>>

-----------------------------------------------------------------------------
(***************************************************************************)
(* Threads.                                                                *)
(***************************************************************************)

\* Thread t is on the processor, at control point l.
At(t, l) ==
  /\ isRunning /\ isrPc = "off" /\ running = t
  /\ stackReady[t]
  /\ pc[t] = l

\* An application thread makes the call op.
Calls(t, op) == op \in Ops /\ t # Idle /\ At(t, "main")

Goto(t, l) ==
  /\ pc' = [pc EXCEPT ![t] = l]
  /\ UNCHANGED <<bootPc, bootIdx, target, loaded, depth, stackReady, isrVars>>

GotoWith(t, l, u) ==
  /\ pc' = [pc EXCEPT ![t] = l]
  /\ target' = [target EXCEPT ![t] = u]
  /\ UNCHANGED <<bootPc, bootIdx, loaded, depth, stackReady, isrVars>>

\* OSScheduler::eventWait: eventWaitPrepare is not in a critical section.
WaitRefused(t, ev) ==
  /\ Calls(t, "wait")
  /\ EventWaitRefused(t, ev)
  /\ UNCHANGED <<clientVars, isrVars>>

WaitPrepare(t, ev) ==
  /\ Calls(t, "wait")
  /\ EventWaitSetEvent(t, ev)
  /\ Goto(t, "mark")

WaitMark(t) ==
  /\ At(t, "mark")
  /\ EventWaitSetWaiting(t)
  /\ Goto(t, "yield")

WaitYield(t) ==
  /\ At(t, "yield")
  /\ PerformContextSwitch
  /\ Goto(t, "woken")

\* Back from yield, eventWait returns m_eventWaitReturn.
WaitReturn(t) ==
  /\ At(t, "woken")
  /\ Goto(t, "main")
  /\ UNCHANGED kernelVars

\* OSScheduler::yield; the idle thread calls it in its loop.
Yield(t) ==
  /\ "yield" \in Ops \/ t = Idle
  /\ At(t, "main")
  /\ PerformContextSwitch
  /\ UNCHANGED <<clientVars, isrVars>>

\* OSScheduler::eventNotify
Notify(t, ev, r) ==
  /\ Calls(t, "notify")
  /\ SweepStart(t, ev, r)
  /\ Goto(t, "notify")

NotifyStep(t) ==
  /\ At(t, "notify") \/ At(t, "cancelSweep")
  /\ SweepStep(t)
  /\ UNCHANGED <<clientVars, isrVars>>

NotifyReturn(t) ==
  /\ At(t, "notify") \/ At(t, "cancelSweep")
  /\ SweepEnd(t)
  /\ GotoWith(t, "main", NoThread)

\* OSThread::suspend of any thread, wherever that thread is.
Suspend(t, u) ==
  /\ Calls(t, "suspend")
  /\ u \in Registered \ {Idle}
  /\ SuspendThread(u)
  /\ UNCHANGED <<clientVars, isrVars>>

\* OSThread::resume of a thread "previously suspended" (OSThread.h).
Resume(t, u) ==
  /\ Calls(t, "suspend")
  /\ suspended[u]
  /\ ResumeThread(u)
  /\ UNCHANGED <<clientVars, isrVars>>

\* OSThread::requestInterruption sets the flag, then cancels what u waits for
\* in a critical section, as a tick would.
RequestInterruption(t, u) ==
  /\ Calls(t, "interrupt") /\ u \in Registered \ {Idle}
  /\ SetInterruption(u, TRUE)
  /\ GotoWith(t, "cancel", u)

\* ISRcancelThread: every thread that waits for the same event is cancelled.
CancelTarget(t) ==
  /\ At(t, "cancel")
  /\ waiting[target[t]]
  /\ SweepStart(t, event[target[t]], "OS_CANCELLED")
  /\ Goto(t, "cancelSweep")

CancelNothing(t) ==
  /\ At(t, "cancel")
  /\ ~waiting[target[t]]
  /\ GotoWith(t, "main", NoThread)
  /\ UNCHANGED kernelVars

AckInterruption(t) ==
  /\ Calls(t, "interrupt") /\ interrupted[t]
  /\ SetInterruption(t, FALSE)
  /\ UNCHANGED <<clientVars, isrVars>>

\* OSSchedulerLock::enter and exit are a load and a store.
LoadLock(t, l) ==
  /\ loaded' = [loaded EXCEPT ![t] = lock]
  /\ pc' = [pc EXCEPT ![t] = l]
  /\ UNCHANGED <<bootPc, bootIdx, target, depth, stackReady, kernelVars, isrVars>>

StoreLock(t, l, n, d) ==
  /\ At(t, l)
  /\ SetLock(n % 256)
  /\ loaded' = [loaded EXCEPT ![t] = 0]
  /\ depth' = [depth EXCEPT ![t] = d]
  /\ pc' = [pc EXCEPT ![t] = "main"]
  /\ UNCHANGED <<bootPc, bootIdx, target, stackReady, isrVars>>

LockEnter(t) == Calls(t, "lock") /\ depth[t] < MaxNesting /\ LoadLock(t, "inc")
LockEntered(t) == StoreLock(t, "inc", loaded[t] + 1, depth[t] + 1)
LockExit_Unbalanced(t) == Calls(t, "lock") /\ LoadLock(t, "dec")
LockExit(t) == Calls(t, "lock") /\ depth[t] > 0 /\ LoadLock(t, "dec")
LockExited(t) == StoreLock(t, "dec", loaded[t] + 255, depth[t] - 1)

ChangePreemptive(t, flag) ==
  /\ Calls(t, "preempt")
  /\ SetPreemptive(flag)
  /\ UNCHANGED <<clientVars, isrVars>>

ChangePriority(t, u, p) ==
  /\ Calls(t, "priority") /\ u \in Registered \ {Idle}
  /\ SetPriority(u, p)
  /\ UNCHANGED <<clientVars, isrVars>>

\* A thread constructs another one: OSThread::initialise registers it and
\* only then builds its stack.
Create(t, u) ==
  /\ Calls(t, "create")
  /\ u \notin Registered /\ ~stackReady[u]
  /\ \A v \in Threads : target[v] # u
  /\ ThreadRegister(u)
  /\ GotoWith(t, "create", u)

CreateStack(t) ==
  /\ At(t, "create")
  /\ stackReady' = [stackReady EXCEPT ![target[t]] = TRUE]
  /\ pc' = [pc EXCEPT ![t] = "main"]
  /\ target' = [target EXCEPT ![t] = NoThread]
  /\ UNCHANGED <<bootPc, bootIdx, loaded, depth, kernelVars, isrVars>>

-----------------------------------------------------------------------------
(***************************************************************************)
(* Interrupts.                                                             *)
(***************************************************************************)

\* Interrupts are enabled: the scheduler runs and the running thread is not
\* in a critical section.
InterruptEnabled == isRunning /\ pc[running] # "cancelSweep"

Notified(ev, r) == InterruptEnabled /\ IsrNotify(ev, r) /\ UNCHANGED clientVars
Tick == InterruptEnabled /\ IsrTick /\ UNCHANGED clientVars
InterruptContinues == HandlerStep /\ UNCHANGED clientVars

-----------------------------------------------------------------------------

Boot ==
  \/ Construct
  \/ \E t \in Threads : SuspendAtBoot(t)
  \/ EnterStart \/ StartInsert \/ StartFirst

\* The steps that finish a call a thread is in.
Continue(t) ==
  \/ WaitMark(t) \/ WaitYield(t) \/ WaitReturn(t)
  \/ NotifyStep(t) \/ NotifyReturn(t)
  \/ CancelTarget(t) \/ CancelNothing(t)
  \/ LockEntered(t) \/ LockExited(t)
  \/ CreateStack(t)

\* The steps that start one.
Call(t) ==
  \/ \E ev \in Events \cup {NoEvent} : WaitRefused(t, ev) \/ WaitPrepare(t, ev)
  \/ Yield(t)
  \/ \E ev \in Events, r \in NotifyRets : Notify(t, ev, r)
  \/ \E u \in Threads :
       \/ Suspend(t, u) \/ Resume(t, u)
       \/ RequestInterruption(t, u) \/ Create(t, u)
       \/ \E p \in { Prio0[v] : v \in Threads \ {Idle} } : ChangePriority(t, u, p)
  \/ AckInterruption(t)
  \/ LockEnter(t) \/ LockExit(t)
  \/ \E flag \in BOOLEAN : ChangePreemptive(t, flag)

Interrupt ==
  \/ \E ev \in Events, r \in NotifyRets : Notified(ev, r)
  \/ Tick
  \/ InterruptContinues

Next ==
  \/ Boot
  \/ \E t \in Threads : Call(t) \/ Continue(t)
  \/ Interrupt

Spec == Init /\ [][Next]_vars

-----------------------------------------------------------------------------
(***************************************************************************)
(* Safety.                                                                 *)
(***************************************************************************)

\* The nesting level is what the running thread has entered and not left, and
\* no other thread is inside: ++ and -- are not atomic, but a thread that is
\* switched away between the load and the store had loaded 0, and finds 0.
LockBelongsToRunning ==
  isRunning =>
    /\ lock = depth[running]
    /\ \A t \in Threads : t # running => depth[t] = 0

\* A thread that returns from eventWait after its yield has been notified.
NoSpuriousWake ==
  \A t \in Threads : At(t, "woken") => ~waiting[t]

\* A thread that is entered for the first time has a stack with its context.
RunningHasStack == isRunning => stackReady[running]

\* A switch picks a thread no ready thread is better than, unless setPriority has
\* left the list in another order (OSThread.h:425).
EntersBest ==
  running' # running => \A u \in Members(ready') : prio'[running'] >= prio'[u]

HighestPriorityRuns == [][EntersBest]_vars

\* A ready thread is overtaken only when it gives up the processor to one of
\* at least its priority; nothing else reorders the list.
KeepsOrder ==
  \A t, u \in Threads :
    Before(ready, t, u) /\ Before(ready', u, t) => t = running /\ prio[t] <= prio[u]

NoOvertaking == [][KeepsOrder]_vars

-----------------------------------------------------------------------------
(***************************************************************************)
(* Liveness.  The tick interrupt stays pending while interrupts are        *)
(* disabled, hence SF; an interrupt handler runs to its end; between two   *)
(* interrupts the processor executes at least one instruction of the       *)
(* thread, so a call that is begun advances whenever its thread runs.      *)
(***************************************************************************)

FairSpec ==
  /\ Spec
  /\ WF_vars(Boot)
  /\ WF_vars(InterruptContinues)
  /\ SF_vars(Tick)
  /\ \A t \in Threads : SF_vars(Continue(t))

\* A thread that is interrupted does not sleep on: eventWaitPrepare may read
\* m_isInterrupted before requestInterruption sets it, and the cancellation
\* may come before the thread is marked waiting; then the tick repeats it.
InterruptedWaiterWakes ==
  \A t \in Threads :
    isRunning /\ interrupted[t] /\ waiting[t] ~> ~waiting[t] \/ suspended[t]

\* Round robin: a ready thread of the highest priority gets the processor,
\* whatever its equals do, as long as the tick preempts them.
ReadyThreadRuns ==
  \A t \in Threads \ {Idle} :
    isRunning /\ t \in Members(ready)
      ~> running = t \/ t \notin Members(ready)

=============================================================================
