----------------------------- MODULE OSRealTime -----------------------------
(***************************************************************************)
(* class OSRealTime (kernel/src/OSRealTime.cpp): interrupts above the mask *)
(* of OSCriticalSection must not touch the kernel, which may be in the     *)
(* middle of a critical section.  They leave a request instead, and the    *)
(* next tick notifies the registered thread.                               *)
(*                                                                         *)
(* A real time interrupt is one step, which may come between any two       *)
(* others, those of the tick included.  It brings something that the       *)
(* thread looks for before it waits.  Of eventNotify's two arguments the   *)
(* event is always the same one here, and the value is its default.        *)
(***************************************************************************)
EXTENDS OSStarted

CONSTANTS
  Receiver,   \* the thread that registers itself, not the idle thread
  RtEvent     \* the event it waits for

ASSUME RealTimeAssumption == Receiver \in Threads \ {Idle} /\ RtEvent \in Events

VARIABLES
  registered,   \* ms_pThread
  requested,    \* ms_requestNofication
  arrived       \* there is something for the thread

requestVars == <<registered, requested, arrived>>
realTimeVars == <<kernelVars, isrVars, threadVars, requestVars>>

RealTimeInit ==
  /\ StartedInit
  /\ registered = NoThread /\ requested = FALSE /\ arrived = FALSE

-----------------------------------------------------------------------------
(***************************************************************************)
(* Interrupts                                                              *)
(***************************************************************************)

\* The real time interrupt calls eventNotify; with a request pending that
\* returns at once.
RealTimeInterrupt ==
  /\ arrived' = TRUE
  /\ requested' = TRUE
  /\ UNCHANGED <<kernelVars, isrVars, threadVars, registered>>

\* The request can be fulfilled.
Deliverable == requested /\ registered # NoThread /\ Notifiable(registered, RtEvent)

\* Variant: the request is taken back even if the thread does not wait yet.
RealTimeTick_Dropped ==
  /\ isrPc = "tick" /\ isrIdx = Len(threads)
  /\ IF Deliverable THEN EventNotifyThread(registered, RtEvent, "OS_VOID")
     ELSE UNCHANGED kernelVars
  /\ IsrGoto("delivered", isrIdx)
  /\ UNCHANGED <<threadVars, requestVars>>

\* The tick, after its loop: the thread is notified ...
RealTimeTick ==
  /\ isrPc = "tick" /\ isrIdx = Len(threads)
  /\ \/ /\ Deliverable
        /\ EventNotifyThread(registered, RtEvent, "OS_VOID")
        /\ IsrGoto("delivered", isrIdx)
     \/ /\ ~Deliverable
        /\ IsrGoto("tick", isrIdx + 1)
        /\ UNCHANGED kernelVars
  /\ UNCHANGED <<threadVars, requestVars>>

\* ... and then the request is taken back.
RequestDone ==
  /\ isrPc = "delivered"
  /\ requested' = FALSE
  /\ IsrGoto("tick", isrIdx + 1)
  /\ UNCHANGED <<kernelVars, threadVars, registered, arrived>>

\* The tick up to there, and its end.
TickRunsOn ==
  /\ \/ TickThread \/ IsrSweepStep \/ TickCancelled
     \/ isrIdx > Len(threads) /\ IsrExit
  /\ UNCHANGED <<threadVars, requestVars>>

InterruptContinues == RealTimeTick \/ RequestDone \/ TickRunsOn

-----------------------------------------------------------------------------
(***************************************************************************)
(* The thread, which takes what has arrived and otherwise calls            *)
(* OSScheduler::eventWait, of which only the switch at the end is safe     *)
(* from interrupts.                                                        *)
(***************************************************************************)

Register ==
  /\ Free(Receiver) /\ registered = NoThread
  /\ registered' = Receiver
  /\ UNCHANGED <<kernelVars, isrVars, threadVars, requested, arrived>>

Take ==
  /\ Free(Receiver) /\ arrived
  /\ arrived' = FALSE
  /\ UNCHANGED <<kernelVars, isrVars, threadVars, registered, requested>>

\* Nothing is there.
FoundNothing ==
  /\ Free(Receiver) /\ registered # NoThread /\ ~arrived
  /\ Goto(Receiver, "wait")
  /\ UNCHANGED <<kernelVars, requestVars>>

\* eventWaitPrepare, in two steps, and yield.
ReceiverWait ==
  /\ \/ /\ At(Receiver, "wait")
        /\ \/ EventWaitRefused(Receiver, RtEvent) /\ Goto(Receiver, "main")
           \/ EventWaitSetEvent(Receiver, RtEvent) /\ Goto(Receiver, "mark")
     \/ /\ At(Receiver, "mark")
        /\ EventWaitSetWaiting(Receiver)
        /\ Goto(Receiver, "yield")
     \/ /\ At(Receiver, "yield")
        /\ PerformContextSwitch
        /\ Goto(Receiver, "main")
  /\ UNCHANGED requestVars

Receive == Register \/ Take \/ FoundNothing \/ ReceiverWait

-----------------------------------------------------------------------------

TickArrives == Tick({}) /\ UNCHANGED requestVars

\* The others may interrupt the thread, and the thread acknowledges.
Others == Threads \ {Idle, Receiver}

Cancelling(t) == (Cancel(t) \/ CancelStep(t)) /\ UNCHANGED requestVars

Interruption ==
  /\ \/ AckInterruption(Receiver)
     \/ \E t \in Others : StartInterruption(t)
  /\ UNCHANGED requestVars

RealTimeNext ==
  \/ RealTimeInterrupt \/ TickArrives \/ InterruptContinues
  \/ Receive
  \/ Interruption \/ \E t \in Others : Cancelling(t)
  \/ IdleYield /\ UNCHANGED requestVars

RealTimeSpec == RealTimeInit /\ [][RealTimeNext]_realTimeVars

\* The thread does not wait while something is there and nobody will tell it: the
\* next tick finds a request that it can fulfil.  On its way to the wait, where the
\* tick cannot reach it yet, the request is pending too.
NoArrivalMissed ==
  /\ arrived /\ waiting[Receiver] => Deliverable
  /\ arrived /\ pc[Receiver] \in {"wait", "mark"} => requested

(***************************************************************************)
(* The tick arrives and runs to its end, and a thread that is picked runs. *)
(***************************************************************************)
RealTimeFairSpec ==
  /\ RealTimeSpec
  /\ WF_realTimeVars(InterruptContinues)
  /\ SF_realTimeVars(TickArrives)
  /\ SF_realTimeVars(Receive)
  /\ \A t \in Others : SF_realTimeVars(Cancelling(t))

\* What a real time interrupt brings is taken, wherever the interrupt falls:
\* between the thread's look and its wait, or in the tick that takes back the
\* request before, when eventNotify refuses another one.
ArrivalIsTaken == arrived ~> ~arrived

=============================================================================
