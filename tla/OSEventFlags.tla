---------------------------- MODULE OSEventFlags ----------------------------
(***************************************************************************)
(* class OSEventFlags (kernel/src/OSEventFlags.cpp): threads wait for one  *)
(* of some bits to be set; threads, interrupts and timeouts notify.        *)
(*                                                                         *)
(* wait() calls eventWait inside a critical section: the thread that waits *)
(* is switched away with the interrupts masked, every thread having a mask *)
(* of its own, and finds them masked when it comes back.                   *)
(*                                                                         *)
(* Left out: a wait for bits that are set already, which returns at once,  *)
(* and the flags notify() and clear() return.                              *)
(***************************************************************************)
EXTENDS OSStarted

CONSTANTS
  FlagsEvent,   \* the address of the object, the event waited for
  Bits,
  Waits,        \* the arguments of the waits: records of bits and strict
  Receivers,    \* the threads that may be registered, or NoThread
  IsrNotifies,  \* whether interrupts notify, too
  Timeouts      \* whether a timer sends OS_TIMEOUT to the event

ASSUME EventFlagsAssumption ==
  /\ FlagsEvent \in Events
  /\ Waits \subseteq [bits : SUBSET Bits, strict : BOOLEAN]
  /\ Receivers \subseteq (Threads \ {Idle}) \cup {NoThread}
  /\ IsrNotifies \in BOOLEAN /\ Timeouts \in BOOLEAN

VARIABLES
  flags,      \* m_flags
  receiver,   \* m_pThread; with NoThread every thread is notified
  arg         \* per thread: the arguments of its wait

flagVars == <<flags, receiver, arg>>
vars == <<kernelVars, isrVars, threadVars, flagVars>>

Waiting == {"loop", "perform", "woken"}

NoWait == [bits |-> {}, strict |-> FALSE]

\* The threads that wait; only the registered one is ever notified.
Waiters == IF receiver = NoThread THEN Threads \ {Idle} ELSE {receiver}

Init ==
  /\ StartedInit
  /\ flags = {} /\ receiver \in Receivers
  /\ arg = [t \in Threads |-> NoWait]

\* One of the bits that t waits for is set.
Set(t) == arg[t].bits \cap flags # {}

-----------------------------------------------------------------------------
(***************************************************************************)
(* wait                                                                    *)
(***************************************************************************)

WaitEnter(t, a) ==
  /\ Free(t) /\ t \in Waiters
  /\ a.bits \cap flags = {}
  /\ arg' = [arg EXCEPT ![t] = a]
  /\ Goto(t, "loop")
  /\ UNCHANGED <<kernelVars, flags, receiver>>

Return(t) ==
  /\ arg' = [arg EXCEPT ![t] = NoWait]
  /\ Goto(t, "main")
  /\ UNCHANGED <<flags, receiver>>

LoopAgain(t) == Goto(t, "loop") /\ UNCHANGED flagVars

\* The loop's critical section, when a bit has been set meanwhile.
LoopSet(t) ==
  /\ At(t, "loop") /\ Set(t)
  /\ Return(t)
  /\ UNCHANGED kernelVars

\* Variant: the flags are not read again before the wait, which is what the
\* disabled branch of the loop does.
LoopWait_Unchecked(t) ==
  /\ At(t, "loop")
  /\ EventWaitPrepare(t, FlagsEvent)
  /\ Goto(t, "perform")
  /\ UNCHANGED flagVars

LoopWait(t) ==
  /\ At(t, "loop") /\ ~Set(t)
  /\ EventWaitPrepare(t, FlagsEvent)
  /\ Goto(t, "perform")
  /\ UNCHANGED flagVars

\* The wait of an interrupted thread is refused with OS_CANCELLED; a strict
\* one tries again.
LoopRefused(t) ==
  /\ At(t, "loop") /\ ~Set(t)
  /\ EventWaitRefused(t, FlagsEvent)
  /\ IF arg[t].strict THEN LoopAgain(t) ELSE Return(t)

Perform(t) ==
  /\ At(t, "perform")
  /\ PerformContextSwitch
  /\ Goto(t, "woken")
  /\ UNCHANGED flagVars

\* Variant: the wait ends with the notification, whatever the bits.
Woken_AnyBits(t) ==
  /\ At(t, "woken")
  /\ Return(t)
  /\ UNCHANGED kernelVars

\* Back from the wait the flags are read, and decide unless the wait is not
\* strict and was ended by something else than the event.
Woken(t) ==
  /\ At(t, "woken")
  /\ IF Set(t) \/ (~arg[t].strict /\ ret[t] # "event") THEN Return(t) ELSE LoopAgain(t)
  /\ UNCHANGED kernelVars

Wait(t) ==
  \/ LoopSet(t) \/ LoopWait(t) \/ LoopRefused(t) \/ Perform(t) \/ Woken(t)

-----------------------------------------------------------------------------
(***************************************************************************)
(* notify and clear                                                        *)
(***************************************************************************)

\* The critical section of notify.
Notify(t, b) ==
  /\ Free(t)
  /\ flags' = flags \cup {b}
  /\ Goto(t, "notify")
  /\ UNCHANGED <<kernelVars, receiver, arg>>

NotifyReceiver(t) ==
  /\ At(t, "notify") /\ receiver # NoThread
  /\ EventNotifyThread(receiver, FlagsEvent, "event")
  /\ Goto(t, "main")
  /\ UNCHANGED flagVars

NotifyThreads(t) ==
  /\ At(t, "notify") /\ receiver = NoThread
  /\ SweepStart(t, FlagsEvent, "event")
  /\ Goto(t, "sweep")
  /\ UNCHANGED flagVars

NotifyStep(t) ==
  /\ At(t, "sweep")
  /\ \/ SweepStep(t) /\ UNCHANGED pc
     \/ SweepEnd(t) /\ pc' = [pc EXCEPT ![t] = "main"]
  /\ UNCHANGED <<target, isrVars, flagVars>>

Notifying(t) == NotifyReceiver(t) \/ NotifyThreads(t) \/ NotifyStep(t)

Clear(t, b) ==
  /\ Free(t) /\ b \in flags
  /\ flags' = flags \ {b}
  /\ UNCHANGED <<kernelVars, isrVars, threadVars, receiver, arg>>

-----------------------------------------------------------------------------
(***************************************************************************)
(* Interrupts.                                                             *)
(***************************************************************************)

\* Inside its loop wait() runs with the interrupts masked.
Critical == {"perform", "woken"}

InterruptEnabled == pc[running] \notin Critical \cup {"cancelSweep"}

IsrNotifyReceiver(b) ==
  /\ isrPc = "off" /\ IsrNotifies /\ InterruptEnabled /\ receiver # NoThread
  /\ flags' = flags \cup {b}
  /\ EventNotifyThread(receiver, FlagsEvent, "event")
  /\ IsrGoto("tick", Len(threads))
  /\ UNCHANGED <<threadVars, receiver, arg>>

IsrNotifyThreads(b) ==
  /\ IsrNotifies /\ InterruptEnabled /\ receiver = NoThread
  /\ flags' = flags \cup {b}
  /\ IsrNotify(FlagsEvent, "event")
  /\ UNCHANGED <<threadVars, receiver, arg>>

\* A timer set for the event runs out.
Timeout ==
  /\ Timeouts /\ InterruptEnabled
  /\ IsrNotify(FlagsEvent, "OS_TIMEOUT")
  /\ UNCHANGED <<threadVars, flagVars>>

Kernel ==
  /\ \/ IdleYield
     \/ \E t \in Threads : StartInterruption(t) \/ Cancel(t) \/ CancelStep(t)
     \/ Tick(Critical)
     \/ Handler
  /\ UNCHANGED flagVars

-----------------------------------------------------------------------------

Next ==
  \/ \E t \in Threads :
       \/ \E a \in Waits : WaitEnter(t, a)
       \/ Wait(t)
       \/ \E b \in Bits : Notify(t, b) \/ Clear(t, b)
       \/ Notifying(t)
  \/ \E b \in Bits : IsrNotifyReceiver(b) \/ IsrNotifyThreads(b)
  \/ Timeout
  \/ Kernel

Spec == Init /\ [][Next]_vars

-----------------------------------------------------------------------------

\* No flag is missed: a thread that waits although one of its bits is set is
\* about to be notified.  What could break it is a notification between the
\* check of the flags and the wait.
NoMissedFlag ==
  \A t \in Waiters :
    waiting[t] /\ Set(t) =>
      \/ \E u \in Threads : pc[u] = "notify"
      \/ NotificationAhead(t, FlagsEvent)

\* A wait ends with one of its bits set, unless it is not strict and was
\* cancelled or timed out; whoever sets or clears flags while it returns.
WaitEndsForAReason ==
  [][\A t \in Threads :
       pc[t] \in Waiting /\ pc'[t] = "main" =>
         Set(t) \/ (~arg[t].strict /\ ret'[t] \in {"OS_CANCELLED", "OS_TIMEOUT"})]_vars

-----------------------------------------------------------------------------
(***************************************************************************)
(* Liveness.  Every call that is begun goes on and the tick arrives.       *)
(***************************************************************************)

FairSpec ==
  /\ Spec
  /\ WF_vars(Handler /\ UNCHANGED flagVars)
  /\ SF_vars(Tick(Critical) /\ UNCHANGED flagVars)
  /\ \A t \in Threads \ {Idle} : SF_vars(Wait(t) \/ Notifying(t))

\* A thread in wait() returns once one of its bits is set, if nobody clears it.
FlagEndsWait ==
  \A t \in Threads \ {Idle} :
    (pc[t] \in Waiting /\ Set(t)) ~> (pc[t] = "main" \/ ~Set(t))

=============================================================================
