----------------------------- MODULE OSCondition -----------------------------
(***************************************************************************)
(* class OSCondition (kernel/src/OSCondition.cpp): a thread waits until a  *)
(* condition, a virtual function, is satisfied.  The check and the         *)
(* preparation of the wait are in a critical section, which for an         *)
(* OSCondition locks the scheduler and for an OSRealTimeCondition masks    *)
(* the interrupts.                                                         *)
(*                                                                         *)
(* The condition is the one LargeCircularSessionsStorage derives: a reader *)
(* waits for a block of the session it has prepared; when the writer has   *)
(* opened another session meanwhile it must prepare again.                 *)
(*                                                                         *)
(* Left out: waits that must not block, which return at once; the error    *)
(* codes of the virtual functions; getEventWaitReturn(), for the caller.   *)
(***************************************************************************)
EXTENDS OSStarted

CONSTANTS
  CondEvent,     \* the event that is notified when the condition may hold
  Classes,       \* whether the condition is an OSRealTimeCondition: the choices
  Waiters,       \* the readers; the other threads are the writers
  IsrProvides,   \* whether interrupts satisfy a real time condition
  Cancellable,   \* whether the derived class overrides isCancelled()
  Timeouts       \* whether a timer sends OS_TIMEOUT to the event

ASSUME ConditionAssumption ==
  /\ CondEvent \in Events
  /\ Classes \subseteq BOOLEAN
  /\ Waiters \subseteq Threads \ {Idle}
  /\ IsrProvides \in BOOLEAN /\ Cancellable \in BOOLEAN /\ Timeouts \in BOOLEAN

VARIABLES
  realTime,   \* the condition is an OSRealTimeCondition
  met,        \* it is satisfied
  stale,      \* per thread: what it prepared is no longer the writer's session
  should      \* per thread: what to do after the critical section

condVars == <<realTime, met, stale, should>>
vars == <<kernelVars, isrVars, threadVars, condVars>>

\* Where a thread is in the critical section, and in wait().
Section == {"check", "mark", "exit"}
Waiting == Section \cup {"prepare", "enter", "decide", "retry", "isCancelled", "perform", "woken"}

Init ==
  /\ StartedInit
  /\ realTime \in Classes /\ met = FALSE
  /\ stale = [t \in Threads |-> FALSE]
  /\ should = [t \in Threads |-> "return"]

-----------------------------------------------------------------------------
(***************************************************************************)
(* wait                                                                    *)
(***************************************************************************)

WaitEnter(t) ==
  /\ Free(t) /\ t \in Waiters
  /\ ret' = [ret EXCEPT ![t] = "OS_IMMEDIATELY"]
  /\ Goto(t, "prepare")
  /\ UNCHANGED <<event, waiting, bootVars, schedVars, statusVars, sweepVars, condVars>>

\* prepareCheckCondition, outside of critical sections, may find the condition
\* satisfied; the default does not look.
PrepareCheck(t) ==
  /\ At(t, "prepare")
  /\ stale' = [stale EXCEPT ![t] = FALSE]
  /\ Goto(t, "enter") \/ (met /\ Goto(t, "main"))
  /\ UNCHANGED <<kernelVars, realTime, met, should>>

SectionEnter(t) ==
  /\ At(t, "enter")
  /\ IF realTime THEN UNCHANGED kernelVars ELSE SetLock(lock + 1)
  /\ Goto(t, "check")
  /\ UNCHANGED condVars

Leave(t, what) ==
  /\ should' = [should EXCEPT ![t] = what]
  /\ Goto(t, "exit")
  /\ UNCHANGED <<realTime, met, stale>>

\* checkSynchronisedCondition: satisfied, or to be prepared again.
CheckDone(t) ==
  /\ At(t, "check") /\ (stale[t] \/ met)
  /\ Leave(t, IF stale[t] THEN "retry" ELSE "return")
  /\ UNCHANGED kernelVars

\* eventWaitPrepareWhileLocked does not look at the lock: it refuses to wait
\* only when the thread is interrupted, and writes m_event ...
CheckWait(t) ==
  /\ At(t, "check") /\ ~stale[t] /\ ~met
  /\ \/ /\ interrupted[t]
        /\ ret' = [ret EXCEPT ![t] = "OS_CANCELLED"]
        /\ Leave(t, "return")
        /\ UNCHANGED event
     \/ /\ ~interrupted[t]
        /\ event' = [event EXCEPT ![t] = CondEvent]
        /\ Goto(t, "mark")
        /\ UNCHANGED <<ret, condVars>>
  /\ UNCHANGED <<waiting, bootVars, schedVars, statusVars, sweepVars>>

\* ... and then m_isWaiting.
Mark(t) ==
  /\ At(t, "mark")
  /\ EventWaitSetWaiting(t)
  /\ Leave(t, "wait")

SectionExit(t) ==
  /\ At(t, "exit")
  /\ IF realTime THEN UNCHANGED kernelVars ELSE SetLock(lock - 1)
  /\ Goto(t, "decide")
  /\ UNCHANGED condVars

Decide(t) ==
  /\ At(t, "decide")
  /\ \/ should[t] = "return" /\ Goto(t, "main")
     \/ should[t] = "retry" /\ Goto(t, "retry")
     \/ should[t] = "wait" /\ Goto(t, IF Cancellable THEN "isCancelled" ELSE "perform")
  /\ UNCHANGED <<kernelVars, condVars>>

\* OS_SHOULD_RETRY: the others may run before the next attempt.
Retry(t) ==
  /\ At(t, "retry")
  /\ PerformContextSwitch
  /\ Goto(t, "prepare")
  /\ UNCHANGED condVars

\* isCancelled() decides either way; eventWaitClear gives the wait up.
IsCancelled(t) ==
  /\ At(t, "isCancelled")
  /\ \/ /\ waiting' = [waiting EXCEPT ![t] = FALSE]
        /\ event' = [event EXCEPT ![t] = NoEvent]
        /\ Goto(t, "main")
        /\ UNCHANGED <<ret, bootVars, schedVars, statusVars, sweepVars>>
     \/ Goto(t, "perform") /\ UNCHANGED kernelVars
  /\ UNCHANGED condVars

\* Variant: the return value is initialised on the way to the switch.
Perform_Resets(t) ==
  /\ At(t, "perform") /\ lock = 0
  /\ ready' = Rescheduled /\ running' = GetTop(Rescheduled)
  /\ ret' = [ret EXCEPT ![t] = "OS_VOID"]
  /\ Goto(t, "woken")
  /\ UNCHANGED <<isPreemptive, lock, event, waiting, bootVars, statusVars, sweepVars, condVars>>

Perform(t) ==
  /\ At(t, "perform")
  /\ PerformContextSwitch
  /\ Goto(t, "woken")
  /\ UNCHANGED condVars

\* Cancelled or timed out it returns; anything else is ignored.
Woken(t) ==
  /\ At(t, "woken")
  /\ Goto(t, IF ret[t] \in {"OS_CANCELLED", "OS_TIMEOUT"} THEN "main" ELSE "prepare")
  /\ UNCHANGED <<kernelVars, condVars>>

Wait(t) ==
  \/ PrepareCheck(t) \/ SectionEnter(t) \/ CheckDone(t) \/ CheckWait(t) \/ Mark(t) \/ SectionExit(t)
  \/ Decide(t) \/ Retry(t) \/ IsCancelled(t) \/ Perform(t) \/ Woken(t)

-----------------------------------------------------------------------------
(***************************************************************************)
(* The writers: one completes a block, or opens another session, and then  *)
(* notifies; and the readers, who consume what there is.                   *)
(***************************************************************************)

Provided(newSession) ==
  /\ met' = ~newSession
  /\ stale' = IF newSession THEN [t \in Threads |-> TRUE] ELSE stale
  /\ UNCHANGED <<realTime, should>>

Provide(t, newSession) ==
  /\ Free(t) /\ t \notin Waiters
  /\ Provided(newSession)
  /\ Goto(t, "notify")
  /\ UNCHANGED kernelVars

Notify(t) ==
  /\ At(t, "notify")
  /\ SweepStart(t, CondEvent, "event")
  /\ Goto(t, "sweep")
  /\ UNCHANGED condVars

NotifyStep(t) ==
  /\ At(t, "sweep")
  /\ \/ SweepStep(t) /\ UNCHANGED pc
     \/ SweepEnd(t) /\ pc' = [pc EXCEPT ![t] = "main"]
  /\ UNCHANGED <<target, isrVars, condVars>>

Notifying(t) == Notify(t) \/ NotifyStep(t)

Consume(t) ==
  /\ Free(t) /\ t \in Waiters /\ met
  /\ met' = FALSE
  /\ UNCHANGED <<kernelVars, isrVars, threadVars, realTime, stale, should>>

-----------------------------------------------------------------------------
(***************************************************************************)
(* Interrupts.                                                             *)
(***************************************************************************)

\* Variant: the section masks nothing.
Critical_None == {}

\* A real time condition masks the interrupts in its section.
Critical == IF realTime THEN Section ELSE {}

InterruptEnabled == pc[running] \notin Critical \cup {"cancelSweep"}

IsrProvide(newSession) ==
  /\ IsrProvides /\ realTime /\ InterruptEnabled
  /\ Provided(newSession)
  /\ IsrNotify(CondEvent, "event")
  /\ UNCHANGED threadVars

Timeout ==
  /\ Timeouts /\ InterruptEnabled
  /\ IsrNotify(CondEvent, "OS_TIMEOUT")
  /\ UNCHANGED <<threadVars, condVars>>

Kernel ==
  /\ \/ IdleYield
     \/ \E t \in Threads : StartInterruption(t) \/ Cancel(t) \/ CancelStep(t)
     \/ Tick(Critical)
     \/ Handler
  /\ UNCHANGED condVars

-----------------------------------------------------------------------------

Next ==
  \/ \E t \in Threads :
       \/ WaitEnter(t) \/ Wait(t)
       \/ \E new \in BOOLEAN : Provide(t, new)
       \/ Notifying(t) \/ Consume(t)
  \/ \E new \in BOOLEAN : IsrProvide(new)
  \/ Timeout
  \/ Kernel

Spec == Init /\ [][Next]_vars

-----------------------------------------------------------------------------

\* "eventNotify() is guaranteed to be issued after entering eventWait()": a
\* thread that waits although the condition holds, or although there is a new
\* session to prepare for, is about to be notified.
NoMissedCondition ==
  \A t \in Waiters :
    waiting[t] /\ (met \/ stale[t]) =>
      \/ \E u \in Threads : pc[u] = "notify"
      \/ NotificationAhead(t, CondEvent)

\* The scheduler is locked exactly as long as a thread is in the critical
\* section, and this thread is the running one: nobody else can be notified,
\* wait or be switched to in between.
SectionExcludes ==
  \A t \in Threads :
    pc[t] \in Section => running = t /\ (realTime \/ lock # 0)

\* What ended a wait, a timeout or a cancellation, is not overwritten in this
\* step, before the thread has looked at it.
KeepsReason(t) ==
  /\ pc[t] \in {"exit", "decide", "isCancelled", "perform"}
  /\ should[t] = "wait" /\ ~waiting[t]
  /\ ret[t] \in {"OS_TIMEOUT", "OS_CANCELLED"}
  => ret'[t] = ret[t]

\* The reason a wait has ended for reaches wait(), which returns it.
ReasonIsKept == [][\A t \in Threads : KeepsReason(t)]_vars

\* So it does for an OSRealTimeCondition, at least.
RealTimeReasonIsKept == [][realTime => \A t \in Threads : KeepsReason(t)]_vars

-----------------------------------------------------------------------------
(***************************************************************************)
(* Liveness.  Every call that is begun goes on and the tick arrives, not   *)
(* only while the scheduler is locked, when it cannot switch threads.      *)
(***************************************************************************)

FairSpec ==
  /\ Spec
  /\ WF_vars(Handler /\ UNCHANGED condVars)
  /\ SF_vars(lock = 0 /\ Tick(Critical) /\ UNCHANGED condVars)
  /\ \A t \in Threads \ {Idle} : SF_vars(Wait(t) \/ Notifying(t))

\* A condition that is satisfied ends the wait, unless it is consumed before.
ConditionEndsWait ==
  \A t \in Waiters : (pc[t] \in Waiting /\ met) ~> (pc[t] = "main" \/ ~met)

=============================================================================
