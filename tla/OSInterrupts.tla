---------------------------- MODULE OSInterrupts ----------------------------
(***************************************************************************)
(* The interrupts of the kernel: a device, or a timer that ran out,        *)
(* notifies an event, or the tick looks for interrupted threads to cancel; *)
(* at its end (OSScheduler::interruptExit) an interrupt may switch         *)
(* threads.  Interrupts do not nest and run with interrupts disabled (the  *)
(* AVR8 and Cortex-M3 ports), so while one runs no thread does; a module   *)
(* that runs threads says when one may be taken.                           *)
(***************************************************************************)
EXTENDS OSKernel

VARIABLES
  isrPc,    \* "off", or where the interrupt is: "notify", "tick", "cancel"
  isrIdx    \* the loop index of OSScheduler::interruptTick

isrVars == <<isrPc, isrIdx>>

IsrGoto(l, i) == isrPc' = l /\ isrIdx' = i

\* A device notifies an event.
IsrNotify(ev, r) ==
  /\ isrPc = "off"
  /\ SweepStart(Isr, ev, r)
  /\ IsrGoto("notify", 0)

\* The scheduler tick, OSScheduler::interruptTick.
IsrTick ==
  /\ isrPc = "off"
  /\ IsrGoto("tick", 0)
  /\ UNCHANGED kernelVars

\* Variant: the tick does not cancel.
TickThread_NoCancel ==
  /\ isrPc = "tick" /\ isrIdx < Len(threads)
  /\ IsrGoto("tick", isrIdx + 1)
  /\ UNCHANGED kernelVars

\* One iteration of its loop: an interrupted thread that waits is cancelled
\* (ISRcancelThread; the alarms it removes first are in OSTimer only).
TickThread ==
  /\ isrPc = "tick" /\ isrIdx < Len(threads)
  /\ LET t == threads[isrIdx + 1]
     IN  \/ /\ interrupted[t] /\ waiting[t]
            /\ SweepStart(Isr, event[t], "OS_CANCELLED")
            /\ IsrGoto("cancel", isrIdx)
         \/ /\ ~(interrupted[t] /\ waiting[t])
            /\ IsrGoto("tick", isrIdx + 1)
            /\ UNCHANGED kernelVars

IsrSweepStep ==
  /\ isrPc \in {"notify", "cancel"}
  /\ SweepStep(Isr)
  /\ UNCHANGED isrVars

\* ISRcancelThread returns to the loop of the tick.
TickCancelled ==
  /\ isrPc = "cancel"
  /\ SweepEnd(Isr)
  /\ IsrGoto("tick", isrIdx + 1)

\* An eventNotify called from the interrupt returns: like a tick with no thread
\* left to look at.
IsrNotified ==
  /\ isrPc = "notify"
  /\ SweepEnd(Isr)
  /\ IsrGoto("tick", Len(threads))

\* interruptExit
IsrExit ==
  /\ isrPc = "tick" /\ isrIdx >= Len(threads)
  /\ \/ IsContextSwitchRequired /\ PerformContextSwitch
     \/ ~IsContextSwitchRequired /\ UNCHANGED kernelVars
  /\ IsrGoto("off", 0)

\* The handler runs on.
HandlerStep == TickThread \/ IsrSweepStep \/ TickCancelled \/ IsrNotified \/ IsrExit

=============================================================================
