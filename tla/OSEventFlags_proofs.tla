------------------------- MODULE OSEventFlags_proofs -------------------------
(***************************************************************************)
(* No flag is missed, and a wait ends for a reason: for any number of      *)
(* threads that wait and notify, with interrupts, timeouts and             *)
(* cancellations.  And nothing that a real time interrupt brings is missed *)
(* by the thread that OSRealTime notifies.                                 *)
(***************************************************************************)
EXTENDS OSEventFlags, OSRealTime, OSStarted_proofs

\* What may end a wait.
Reasons == {"event", "OS_CANCELLED", "OS_TIMEOUT"}

\* Where a thread is in wait(), against the kernel: it waits for this object,
\* between the preparation and its return; back from the context switch it is
\* out of the ready list or has been given a reason.
FlagsWait(t) ==
  /\ pc[t] \in Waiting => t \in Waiters
  /\ waiting[t] => event[t] = FlagsEvent /\ pc[t] \in {"perform", "woken"}
  /\ waiting[t] /\ pc[t] = "woken" => t \notin Members(ready)
  /\ pc[t] \in {"perform", "woken"} /\ ~waiting[t] => ret[t] \in Reasons

FlagsInv ==
  /\ StartedInv /\ lock = 0
  /\ receiver \in Receivers /\ DOMAIN arg = Threads
  /\ RetsIn(Reasons)
  /\ \A t \in Threads : FlagsWait(t)
  /\ NoMissedFlag

\* The part of NoMissedFlag about thread t.
Missed(t) ==
  waiting[t] /\ Set(t) =>
    (\E u \in Threads : pc[u] = "notify") \/ NotificationAhead(t, FlagsEvent)

-----------------------------------------------------------------------------

LEMMA WaitersAreThreads ==
  ASSUME receiver \in Receivers
  PROVE  /\ Waiters \subseteq Threads \ {Idle}
         /\ receiver # NoThread => receiver \in Threads /\ Waiters = {receiver}
BY EventFlagsAssumption DEF Waiters

LEMMA FlagsInitSafe == Init => FlagsInv
<1> SUFFICES ASSUME Init PROVE FlagsInv
  OBVIOUS
<1>1. StartedInv
  BY StartedInitSafe DEF Init
<1>2. /\ lock = 0 /\ receiver \in Receivers /\ DOMAIN arg = Threads
      /\ \A t \in Threads : ~waiting[t] /\ pc[t] = "main"
      /\ \A c \in Contexts : sweep[c] = NoSweep
  BY DEF Init, StartedInit
<1>3. RetsIn(Reasons)
  BY <1>2 DEF RetsIn, NoSweep
<1>4. (\A t \in Threads : FlagsWait(t)) /\ NoMissedFlag
  BY <1>2, WaitersAreThreads DEF FlagsWait, NoMissedFlag, Waiting
<1>5. QED
  BY <1>1, <1>2, <1>3, <1>4 DEF FlagsInv

\* A notification in progress stays in progress if the loops do not move.
LEMMA AheadUnchanged ==
  ASSUME UNCHANGED <<threads, sweep>>, NEW t, NEW ev, NotificationAhead(t, ev)
  PROVE  NotificationAhead(t, ev)'
BY DEF NotificationAhead, AheadIn

\* A thread outside of the two calls of the wait, or at its end, does not wait.
LEMMA RunningDoesNotWait ==
  ASSUME FlagsInv, NEW t \in Threads, NEW l, At(t, l), l # "perform"
  PROVE  ~waiting[t]
BY DEF FlagsInv, FlagsWait, StartedInv, At

\* A step inside wait() that does not begin to wait.
LEMMA FlagsGotoKeeps ==
  ASSUME FlagsInv, StartedInv',
         NEW t \in Threads, NEW m, At(t, m), m \notin {"perform", "notify"},
         NEW l, pc' = [pc EXCEPT ![t] = l],
         l \in {"main", "loop"}, l = "loop" => t \in Waiters,
         UNCHANGED <<threads, waiting, event, ready, sweep, lock, flags, receiver>>,
         \A u \in Threads \ {t} : ret'[u] = ret[u] /\ arg'[u] = arg[u],
         DOMAIN arg' = Threads
  PROVE  FlagsInv'
<1>1. ~waiting[t]
  BY RunningDoesNotWait
<1>2. Waiters' = Waiters
  BY DEF Waiters
<1>3. pc'[t] = l /\ \A u \in Threads \ {t} : pc'[u] = pc[u]
  BY DEF FlagsInv, StartedInv
<1>4. RetsIn(Reasons)'
  BY DEF FlagsInv, RetsIn
<1>5. ASSUME NEW u \in Threads
      PROVE  FlagsWait(u)'
  BY <1>1, <1>2, <1>3 DEF FlagsInv, FlagsWait, Waiting
<1>6. NoMissedFlag'
  <2> SUFFICES ASSUME NEW u \in Waiters, waiting'[u], Set(u)'
               PROVE  \/ \E v \in Threads : pc'[v] = "notify"
                      \/ NotificationAhead(u, FlagsEvent)'
    BY <1>2 DEF NoMissedFlag
  <2>1. u \in Threads \ {t}
    BY <1>1, WaitersAreThreads DEF FlagsInv
  <2>2. waiting[u] /\ Set(u)
    BY <2>1 DEF Set
  <2>3. \A v \in Threads : pc[v] = "notify" => pc'[v] = "notify"
    BY <1>3 DEF At
  <2>4. QED
    BY <2>2, <2>3, AheadUnchanged DEF FlagsInv, NoMissedFlag
<1>7. QED
  BY <1>4, <1>5, <1>6 DEF FlagsInv

\* wait()
LEMMA FlagsWaitKeeps ==
  ASSUME FlagsInv, NEW t \in Threads,
         Wait(t) \/ \E a \in Waits : WaitEnter(t, a)
  PROVE  FlagsInv'
<1> USE DEF Goto
<1>1. ASSUME NEW a \in Waits, WaitEnter(t, a)
      PROVE  FlagsInv'
  <2>1. /\ At(t, "main") /\ t \in Waiters
        /\ UNCHANGED <<bootVars, schedVars, waitVars, statusVars, sweepVars>>
        /\ UNCHANGED kernelVars
    BY <1>1 DEF WaitEnter, Free, kernelVars
  <2>2. KInv'
    BY <2>1, KernelStutter DEF FlagsInv, StartedInv
  <2>3. StartedInv'
    BY <1>1, <2>1, <2>2, GotoKeepsStarted DEF FlagsInv, StartedInv, WaitEnter, At,
      Sweeping, schedVars, statusVars, sweepVars
  <2>4. QED
    BY <1>1, <2>1, <2>3, FlagsGotoKeeps DEF FlagsInv, WaitEnter, bootVars, schedVars,
      waitVars, sweepVars
<1>2. ASSUME NEW m \in {"loop", "woken"}, At(t, m), NEW l \in {"main", "loop"},
             pc' = [pc EXCEPT ![t] = l], UNCHANGED <<target, isrVars, flags, receiver>>,
             DOMAIN arg' = Threads, \A u \in Threads \ {t} : arg'[u] = arg[u],
             UNCHANGED kernelVars \/ EventWaitRefused(t, FlagsEvent)
      PROVE  FlagsInv'
  <2>1. /\ UNCHANGED <<bootVars, schedVars, statusVars, sweepVars, event, waiting>>
        /\ \A u \in Threads \ {t} : ret'[u] = ret[u]
    BY <1>2 DEF EventWaitRefused, kernelVars, waitVars, FlagsInv, StartedInv, KInv, KernelTypeOK
  <2>2. KInv'
    BY <1>2, KernelStutter, EventWaitRefusedSafe DEF FlagsInv, StartedInv
  <2>3. StartedInv'
    BY <1>2, <2>1, <2>2, GotoKeepsStarted DEF FlagsInv, StartedInv, At, Sweeping,
      schedVars, statusVars, sweepVars
  <2>4. t \in Waiters
    BY <1>2 DEF FlagsInv, FlagsWait, At, Waiting
  <2>5. QED
    BY <1>2, <2>1, <2>3, <2>4, FlagsGotoKeeps DEF bootVars, schedVars, sweepVars
<1>3. CASE LoopSet(t)
  BY <1>2, <1>3 DEF LoopSet, Return, FlagsInv
<1>4. CASE LoopRefused(t)
  BY <1>2, <1>4 DEF LoopRefused, Return, LoopAgain, flagVars, FlagsInv
<1>5. CASE Woken(t)
  BY <1>2, <1>5 DEF Woken, Return, LoopAgain, flagVars, FlagsInv
<1>6. CASE LoopWait(t)
  <2>1. /\ At(t, "loop") /\ ~Set(t) /\ EventWaitPrepare(t, FlagsEvent)
        /\ pc' = [pc EXCEPT ![t] = "perform"] /\ UNCHANGED <<target, isrVars, flagVars>>
    BY <1>6 DEF LoopWait
  <2>2. /\ waiting' = [waiting EXCEPT ![t] = TRUE]
        /\ event' = [event EXCEPT ![t] = FlagsEvent]
        /\ UNCHANGED <<ret, bootVars, schedVars, statusVars, sweepVars>>
    BY <2>1 DEF EventWaitPrepare
  <2>3. KInv'
    BY <2>1, EventWaitPrepareSafe, EventFlagsAssumption DEF FlagsInv, StartedInv
  <2>4. StartedInv'
    BY <2>1, <2>2, <2>3, GotoKeepsStarted DEF FlagsInv, StartedInv, At, Sweeping,
      schedVars, statusVars, sweepVars
  <2>5. /\ waiting \in [Threads -> BOOLEAN] /\ event \in [Threads -> Events \cup {NoEvent}]
        /\ DOMAIN pc = Threads
    BY DEF FlagsInv, StartedInv, KInv, KernelTypeOK
  <2>6. Waiters' = Waiters /\ \A u : Set(u)' = Set(u)
    BY <2>1 DEF Waiters, flagVars, Set
  <2>7. ASSUME NEW u \in Threads
        PROVE  FlagsWait(u)'
    BY <2>1, <2>2, <2>5, <2>6 DEF FlagsInv, FlagsWait, Waiting, At, schedVars
  <2>8. NoMissedFlag'
    <3> SUFFICES ASSUME NEW u \in Waiters, waiting'[u], Set(u)
                 PROVE  \/ \E v \in Threads : pc'[v] = "notify"
                        \/ NotificationAhead(u, FlagsEvent)'
      BY <2>6 DEF NoMissedFlag
    <3>1. waiting[u] /\ u \in Threads
      BY <2>1, <2>2, <2>5, WaitersAreThreads DEF FlagsInv
    <3>2. \A v \in Threads : pc[v] = "notify" => pc'[v] = "notify"
      BY <2>1, <2>5 DEF At
    <3>3. QED
      BY <2>2, <3>1, <3>2, AheadUnchanged DEF FlagsInv, NoMissedFlag, bootVars, sweepVars
  <2>9. RetsIn(Reasons)'
    BY <2>2 DEF FlagsInv, RetsIn, sweepVars
  <2>10. QED
    BY <2>1, <2>2, <2>4, <2>7, <2>8, <2>9 DEF FlagsInv, flagVars, schedVars
<1>7. CASE Perform(t)
  <2>1. /\ At(t, "perform") /\ PerformContextSwitch
        /\ pc' = [pc EXCEPT ![t] = "woken"] /\ UNCHANGED <<target, isrVars, flagVars>>
    BY <1>7 DEF Perform
  <2>2. /\ KInv' /\ running' \in Members(ready')
        /\ UNCHANGED <<bootVars, lock, event, waiting, statusVars, sweepVars, ret>>
        /\ \A u \in Threads \ {running} : u \in Members(ready') <=> u \in Members(ready)
        /\ waiting[running] /\ running # Idle => running \notin Members(ready')
    BY <2>1, SwitchPicks DEF FlagsInv, StartedInv
  <2>3. StartedInv'
    BY <2>1, <2>2, GotoKeepsStarted DEF FlagsInv, At, Sweeping, statusVars, sweepVars
  <2>4. DOMAIN pc = Threads /\ running = t /\ t # Idle
    BY <2>1, WaitersAreThreads DEF FlagsInv, StartedInv, FlagsWait, Waiting, At
  <2>5. Waiters' = Waiters /\ \A u : Set(u)' = Set(u)
    BY <2>1 DEF Waiters, flagVars, Set
  <2>6. ASSUME NEW u \in Threads
        PROVE  FlagsWait(u)'
    BY <2>1, <2>2, <2>4, <2>5 DEF FlagsInv, FlagsWait, Waiting, At
  <2>7. NoMissedFlag'
    <3>1. \A v \in Threads : pc[v] = "notify" => pc'[v] = "notify"
      BY <2>1, <2>4 DEF At
    <3>2. QED
      BY <2>2, <2>5, <3>1, AheadUnchanged DEF FlagsInv, NoMissedFlag, bootVars, sweepVars
  <2>8. RetsIn(Reasons)'
    BY <2>2 DEF FlagsInv, RetsIn, sweepVars
  <2>9. QED
    BY <2>1, <2>2, <2>3, <2>6, <2>7, <2>8 DEF FlagsInv, flagVars
<1>8. QED
  BY <1>1, <1>3, <1>4, <1>5, <1>6, <1>7 DEF Wait

\* What does not touch the waits and takes no flag that is waited for away from a
\* notification.
LEMMA FlagsQuietKeeps ==
  ASSUME FlagsInv, StartedInv',
         UNCHANGED <<threads, lock, ready, waiting, event, ret, receiver, arg>>,
         \A t \in Threads : pc'[t] = pc[t] \/ {pc[t], pc'[t]} \cap Waiting = {},
         RetsIn(Reasons)', \A t \in Threads : t \in Waiters => Missed(t)'
  PROVE  FlagsInv'
<1>1. Waiters' = Waiters
  BY DEF Waiters
<1>2. ASSUME NEW t \in Threads
      PROVE  FlagsWait(t)'
  BY <1>1 DEF FlagsInv, FlagsWait, Waiting
<1>3. NoMissedFlag'
  BY <1>1, WaitersAreThreads DEF NoMissedFlag, Missed, FlagsInv
<1>4. QED
  BY <1>2, <1>3 DEF FlagsInv

\* The registered thread is notified.
LEMMA NotifyReceiverKeeps ==
  ASSUME FlagsInv, StartedInv', receiver # NoThread,
         EventNotifyThread(receiver, FlagsEvent, "event"),
         UNCHANGED <<receiver, arg>>,
         \A t \in Threads : pc'[t] = pc[t] \/ {pc[t], pc'[t]} \cap Waiting = {}
  PROVE  FlagsInv'
<1>1. receiver \in Threads /\ Waiters = {receiver} /\ Waiters' = Waiters
  BY WaitersAreThreads DEF FlagsInv, Waiters
<1>2. receiver \in Registered /\ Registered = Threads
  BY <1>1, StartedAssumption DEF FlagsInv, StartedInv, Registered
<1>3. /\ \A u \in Threads :
           \/ /\ waiting'[u] = waiting[u] /\ event'[u] = event[u] /\ ret'[u] = ret[u]
              /\ u \in Members(ready') <=> u \in Members(ready)
           \/ u = receiver /\ ~waiting'[u] /\ ret'[u] = "event"
      /\ Notifiable(receiver, FlagsEvent) => ~waiting'[receiver]
      /\ UNCHANGED <<lock, sweep>>
  BY <1>2, NotifyWakes DEF EventNotifyThread, FlagsInv, StartedInv, Rets, sweepVars
<1>4. ASSUME NEW u \in Threads
      PROVE  FlagsWait(u)'
  BY <1>1, <1>3 DEF FlagsInv, FlagsWait, Waiting, Reasons
<1>5. ~waiting'[receiver]
  BY <1>1, <1>3, EventFlagsAssumption, KernelAssumption
     DEF FlagsInv, FlagsWait, StartedInv, Notifiable
<1>6. NoMissedFlag'
  BY <1>1, <1>5 DEF NoMissedFlag
<1>7. QED
  BY <1>3, <1>4, <1>6 DEF FlagsInv, RetsIn

\* Of notify() and clear(): what begins, and the sweeps.
LEMMA FlagsNotifyKeeps ==
  ASSUME FlagsInv, NEW t \in Threads,
         Notifying(t) \/ \E b \in Bits : Notify(t, b) \/ Clear(t, b)
  PROVE  FlagsInv'
<1>0. /\ t \in Contexts /\ FlagsEvent \in Events \cup {NoEvent} /\ FlagsEvent # NoEvent
      /\ Registered = Threads /\ DOMAIN pc = Threads /\ "event" \in Rets
      /\ sweep \in [Contexts -> Sweeps]
  BY EventFlagsAssumption, KernelAssumption, StartedAssumption
     DEF Contexts, FlagsInv, StartedInv, Registered, Rets, KInv, KernelTypeOK
<1>1. ASSUME NEW b \in Bits, Notify(t, b)
      PROVE  FlagsInv'
  <2>1. /\ At(t, "main") /\ pc' = [pc EXCEPT ![t] = "notify"]
        /\ UNCHANGED <<kernelVars, isrVars, target, receiver, arg>>
        /\ UNCHANGED <<bootVars, schedVars, waitVars, statusVars, sweepVars>>
    BY <1>1 DEF Notify, Free, Goto, kernelVars
  <2>2. StartedInv'
    BY <2>1, KernelStutter, GotoKeepsStarted DEF FlagsInv, StartedInv, At, Sweeping,
      schedVars, statusVars, sweepVars
  <2>3. RetsIn(Reasons)'
    BY <2>1 DEF FlagsInv, RetsIn, sweepVars
  <2>4. \A u \in Threads : Missed(u)'
    BY <2>1, <1>0 DEF Missed
  <2>5. QED
    BY <2>1, <2>2, <2>3, <2>4, <1>0, FlagsQuietKeeps DEF At, Waiting, bootVars, schedVars, waitVars
<1>2. CASE NotifyReceiver(t)
  <2>1. /\ At(t, "notify") /\ pc' = [pc EXCEPT ![t] = "main"] /\ receiver # NoThread
        /\ EventNotifyThread(receiver, FlagsEvent, "event")
        /\ UNCHANGED <<isrVars, target, flagVars>>
    BY <1>2 DEF NotifyReceiver, Goto
  <2>2. receiver \in Registered
    BY <2>1, <1>0, WaitersAreThreads DEF FlagsInv
  <2>3. KInv'
    BY <2>1, <2>2, <1>0, EventNotifyThreadSafe DEF FlagsInv, StartedInv
  <2>4. Members(ready) \subseteq Members(ready')
    BY <2>1, <2>2, <1>0, NotifyWakes DEF EventNotifyThread, FlagsInv, StartedInv
  <2>5. StartedInv'
    BY <2>1, <2>3, <2>4, GotoKeepsStarted DEF EventNotifyThread, FlagsInv, StartedInv, At,
      Sweeping, statusVars, sweepVars
  <2>6. QED
    BY <2>1, <2>5, <1>0, NotifyReceiverKeeps DEF At, Waiting, flagVars
<1>3. CASE NotifyThreads(t)
  <2>1. /\ At(t, "notify") /\ pc' = [pc EXCEPT ![t] = "sweep"]
        /\ SweepStart(t, FlagsEvent, "event")
        /\ UNCHANGED <<isrVars, target, flagVars>>
    BY <1>3 DEF NotifyThreads, Goto
  <2>2. StartedInv'
    BY <2>1, <1>0, SweepStartKeepsStarted DEF FlagsInv, Sweeping
  <2>3. UNCHANGED <<bootVars, schedVars, waitVars, statusVars>>
    BY <2>1 DEF SweepStart
  <2>4. \A u \in Threads : sweep'[t].ev = FlagsEvent /\ AheadIn(t, u)'
    BY <2>1, <1>0, SweepStartAhead DEF FlagsInv, StartedInv
  <2>5. \A u \in Threads : Missed(u)'
    BY <2>4, <1>0 DEF Missed, NotificationAhead, AheadIn
  <2>6. RetsIn(Reasons)'
    BY <2>1, <1>0 DEF SweepStart, NoSweep, RetsIn, FlagsInv, Reasons
  <2>7. QED
    BY <2>1, <2>2, <2>3, <2>5, <2>6, <1>0, FlagsQuietKeeps
       DEF At, Waiting, bootVars, schedVars, waitVars, flagVars
<1>4. CASE NotifyStep(t) /\ SweepStep(t)
  <2>1. pc[t] = "sweep" /\ UNCHANGED <<pc, target, isrVars, flagVars>>
    BY <1>4, <1>0 DEF NotifyStep, At, SweepEnd, SweepStep
  <2>2. StartedInv'
    BY <1>4, <2>1, SweepStepKeepsStarted DEF FlagsInv, Sweeping, threadVars
  <2>3. /\ UNCHANGED <<bootVars, lock>> /\ \A u \in Threads : StepWaits(u)
        /\ \A u \in Contexts \ {t} : sweep'[u] = sweep[u]
    BY <1>0, <1>4, SweepStepWaits DEF FlagsInv
  <2>4. SweepMoves(t, {})
    BY <1>4, <2>3 DEF SweepMoves, bootVars
  <2>5. RetsIn(Reasons)'
    BY <1>0, <2>4, RetsStay DEF FlagsInv, StartedInv
  <2>6. \A u \in Threads : FlagsWait(u)'
    BY <2>1, <2>3 DEF FlagsInv, FlagsWait, StepWaits, RetsIn, Waiters, flagVars
  <2>7. NoMissedFlag'
    <3> SUFFICES ASSUME NEW u \in Waiters, waiting'[u], Set(u)
                 PROVE  \/ \E v \in Threads : pc[v] = "notify"
                        \/ NotificationAhead(u, FlagsEvent)'
      BY <2>1 DEF NoMissedFlag, Waiters, Set, flagVars
    <3>1. waiting[u] /\ event[u] = FlagsEvent /\ ~suspended[u] /\ u \in Threads
      BY <2>3, WaitersAreThreads DEF StepWaits, FlagsInv, FlagsWait, StartedInv
    <3>2. QED
      BY <1>0, <2>4, <3>1, NotificationComes, EventFlagsAssumption
         DEF FlagsInv, NoMissedFlag, StartedInv
  <2>8. QED
    BY <2>1, <2>2, <2>3, <2>5, <2>6, <2>7 DEF FlagsInv, flagVars
<1>5. CASE NotifyStep(t) /\ SweepEnd(t)
  <2>1. pc[t] = "sweep" /\ pc' = [pc EXCEPT ![t] = "main"] /\ UNCHANGED <<target, isrVars, flagVars>>
    BY <1>5 DEF NotifyStep, At, SweepEnd, SweepStep
  <2>2. StartedInv'
    BY <1>5, <2>1, SweepEndKeepsStarted DEF FlagsInv, Sweeping
  <2>3. /\ UNCHANGED <<bootVars, schedVars, waitVars, statusVars>>
        /\ \A u \in Contexts \ {t} : sweep'[u] = sweep[u]
    BY <1>0, <1>5 DEF SweepEnd
  <2>4. SweepMoves(t, {})
    BY <1>5, <2>3 DEF SweepMoves, bootVars
  <2>5. RetsIn(Reasons)'
    BY <1>0, <2>4, RetsStay DEF FlagsInv, StartedInv
  <2>6. \A u \in Threads : u \in Waiters => Missed(u)'
    <3> SUFFICES ASSUME NEW u \in Waiters, u \in Threads, waiting[u], Set(u)
                 PROVE  \/ \E v \in Threads : pc'[v] = "notify"
                        \/ NotificationAhead(u, FlagsEvent)'
      BY <2>1, <2>3 DEF Missed, Set, flagVars, waitVars
    <3>1. event[u] = FlagsEvent /\ ~suspended[u] /\ waiting'[u]
      BY <2>3 DEF FlagsInv, FlagsWait, StartedInv, waitVars
    <3>2. \A v \in Threads : pc[v] = "notify" => pc'[v] = "notify"
      BY <1>0, <2>1
    <3>3. QED
      BY <1>0, <2>4, <3>1, <3>2, NotificationComes, EventFlagsAssumption
         DEF FlagsInv, NoMissedFlag, StartedInv
  <2>7. QED
    BY <2>1, <2>2, <2>3, <2>5, <2>6, <1>0, FlagsQuietKeeps
       DEF Waiting, bootVars, schedVars, waitVars, flagVars
<1>6. ASSUME NEW b \in Bits, Clear(t, b)
      PROVE  FlagsInv'
  <2>1. /\ UNCHANGED <<kernelVars, isrVars, threadVars, receiver, arg>>
        /\ UNCHANGED <<bootVars, schedVars, waitVars, statusVars, sweepVars>>
        /\ flags' \subseteq flags
    BY <1>6 DEF Clear, kernelVars
  <2>2. StartedInv'
    BY <2>1, KernelStutter, StutterKeepsStarted DEF FlagsInv, StartedInv,
      schedVars, statusVars, sweepVars
  <2>3. RetsIn(Reasons)'
    BY <2>1 DEF FlagsInv, RetsIn, sweepVars
  <2>4. \A u \in Threads : u \in Waiters => Missed(u)'
    BY <2>1, AheadUnchanged DEF Missed, Set, FlagsInv, NoMissedFlag, threadVars, bootVars,
      sweepVars, waitVars
  <2>5. QED
    BY <2>1, <2>2, <2>3, <2>4, FlagsQuietKeeps DEF threadVars, bootVars, schedVars, waitVars
<1>7. QED
  BY <1>1, <1>2, <1>3, <1>4, <1>5, <1>6 DEF Notifying, NotifyStep

\* Interrupts that notify the object.
LEMMA FlagsInterruptKeeps ==
  ASSUME FlagsInv,
         Timeout \/ \E b \in Bits : IsrNotifyReceiver(b) \/ IsrNotifyThreads(b)
  PROVE  FlagsInv'
<1>0. /\ Isr \in Contexts /\ FlagsEvent \in Events /\ Registered = Threads
      /\ sweep \in [Contexts -> Sweeps] /\ {"event", "OS_TIMEOUT"} \subseteq Rets
  BY EventFlagsAssumption, StartedAssumption
     DEF Contexts, FlagsInv, StartedInv, Registered, KInv, KernelTypeOK, Rets
<1>1. ASSUME NEW b \in Bits, IsrNotifyReceiver(b)
      PROVE  FlagsInv'
  <2>1. /\ receiver # NoThread /\ isrPc = "off" /\ IsrGoto("tick", Len(threads))
        /\ EventNotifyThread(receiver, FlagsEvent, "event")
        /\ UNCHANGED <<threadVars, receiver, arg>>
    BY <1>1 DEF IsrNotifyReceiver
  <2>2. receiver \in Registered
    BY <2>1, <1>0, WaitersAreThreads DEF FlagsInv
  <2>3. KInv'
    BY <2>1, <2>2, <1>0, EventNotifyThreadSafe DEF FlagsInv, StartedInv
  <2>4. Members(ready) \subseteq Members(ready')
    BY <2>1, <2>2, <1>0, NotifyWakes DEF EventNotifyThread, FlagsInv, StartedInv
  <2>5. Len(threads) \in Nat
    BY DEF FlagsInv, StartedInv, KInv, KernelTypeOK
  <2>6. UNCHANGED <<running, bootVars, statusVars, sweepVars>>
    BY <2>1 DEF EventNotifyThread
  <2>7. IsrSound'
    BY <2>1, <2>5, <2>6 DEF FlagsInv, StartedInv, IsrSound, IsrGoto, bootVars
  <2>8. SweepsQuiet'
    BY <2>1, <2>6 DEF FlagsInv, StartedInv, SweepsQuiet, IsrGoto, threadVars, sweepVars
  <2>9. StartedInv'
    BY <2>1, <2>3, <2>4, <2>6, <2>7, <2>8 DEF FlagsInv, StartedInv, bootVars, statusVars, threadVars
  <2>10. QED
    BY <2>1, <2>9, NotifyReceiverKeeps DEF threadVars
<1>2. ASSUME NEW r \in {"event", "OS_TIMEOUT"}, IsrNotify(FlagsEvent, r),
             UNCHANGED <<threadVars, receiver, arg>>
      PROVE  FlagsInv'
  <2>1. /\ StartedInv'
        /\ UNCHANGED <<bootVars, schedVars, waitVars, statusVars>>
    BY <1>0, <1>2, IsrNotifyKeepsStarted DEF FlagsInv
  <2>2. SweepStart(Isr, FlagsEvent, r)
    BY <1>2 DEF IsrNotify
  <2>3. \A u \in Threads : sweep'[Isr].ev = FlagsEvent /\ AheadIn(Isr, u)'
    BY <2>2, <1>0, SweepStartAhead DEF FlagsInv, StartedInv
  <2>4. \A u \in Threads : Missed(u)'
    BY <2>3, <1>0 DEF Missed, NotificationAhead, AheadIn
  <2>5. RetsIn(Reasons)'
    BY <2>2, <1>0 DEF SweepStart, NoSweep, RetsIn, FlagsInv, Reasons
  <2>6. QED
    BY <1>2, <2>1, <2>4, <2>5, FlagsQuietKeeps DEF threadVars, bootVars, schedVars, waitVars
<1>3. QED
  BY <1>1, <1>2 DEF Timeout, IsrNotifyThreads, flagVars

\* Everything else.
LEMMA FlagsKernelKeeps ==
  ASSUME FlagsInv, StartedStep, UNCHANGED flagVars
  PROVE  FlagsInv'
<1>1. /\ StartedInv' /\ UNCHANGED <<bootVars, lock>>
      /\ \A u \in Threads : StepWaits(u)
      /\ \A u \in Threads : StepStays(u)
  BY StartedStepKeeps DEF FlagsInv, KeepsObjects
<1>2. RetsIn(Reasons)'
  BY StartedStepRets DEF FlagsInv, Reasons
<1>3. Waiters' = Waiters
  BY DEF Waiters, flagVars
<1>4. ASSUME NEW u \in Threads
      PROVE  FlagsWait(u)'
  <2>1. StepWaits(u) /\ (pc'[u] = pc[u] \/ {pc[u], pc'[u]} \cap {"loop", "perform", "woken"} = {})
    BY <1>1 DEF StepStays
  <2>2. QED
    BY <1>3, <2>1 DEF FlagsInv, FlagsWait, StepWaits, RetsIn, Waiting
<1>5. NoMissedFlag'
  <2> SUFFICES ASSUME NEW u \in Waiters, waiting'[u], Set(u)
               PROVE  \/ \E v \in Threads : pc'[v] = "notify"
                      \/ NotificationAhead(u, FlagsEvent)'
    BY <1>3 DEF NoMissedFlag, Set, flagVars
  <2>1. waiting[u] /\ event[u] = FlagsEvent /\ u \in Threads
    BY <1>1, WaitersAreThreads DEF StepWaits, FlagsInv, FlagsWait
  <2>2. \A v \in Threads : pc[v] = "notify" => pc'[v] = "notify"
    BY <1>1 DEF StepStays
  <2>3. QED
    BY <2>1, <2>2, StartedStepComes, EventFlagsAssumption DEF FlagsInv, NoMissedFlag
<1>6. QED
  BY <1>1, <1>2, <1>4, <1>5 DEF FlagsInv, flagVars

LEMMA FlagsStep ==
  ASSUME FlagsInv, [Next]_vars
  PROVE  FlagsInv'
<1>1. CASE UNCHANGED vars
  <2>1. /\ UNCHANGED <<bootVars, schedVars, waitVars, statusVars, sweepVars, isrVars,
                       threadVars, flagVars, kernelVars>>
    BY <1>1 DEF vars, kernelVars
  <2>2. StartedInv'
    BY <2>1, KernelStutter, StutterKeepsStarted DEF FlagsInv, StartedInv,
      schedVars, statusVars, sweepVars
  <2>3. RetsIn(Reasons)'
    BY <2>1 DEF FlagsInv, RetsIn, sweepVars
  <2>4. \A u \in Threads : u \in Waiters => Missed(u)'
    BY <2>1, AheadUnchanged DEF Missed, Set, FlagsInv, NoMissedFlag, threadVars, bootVars,
      sweepVars, waitVars, flagVars
  <2>5. QED
    BY <2>1, <2>2, <2>3, <2>4, FlagsQuietKeeps DEF threadVars, bootVars, schedVars, waitVars, flagVars
<1>2. CASE Kernel
  BY <1>2, FlagsKernelKeeps DEF Kernel, StartedStep
<1>3. QED
  BY <1>1, <1>2, FlagsWaitKeeps, FlagsNotifyKeeps, FlagsInterruptKeeps DEF Next

-----------------------------------------------------------------------------

\* OSEventFlags: a thread that waits although a bit it waits for is set is about
\* to be notified, whatever comes between the check of the flags, the wait and
\* the notification.
THEOREM NoFlagIsMissed == Spec => []NoMissedFlag
<1>1. FlagsInv => NoMissedFlag
  BY DEF FlagsInv
<1>2. QED
  BY <1>1, FlagsInitSafe, FlagsStep, PTL DEF Spec

\* Thread t may return from its wait.
MayEnd(t) ==
  Set(t) \/ (~arg[t].strict /\ ret'[t] \in {"OS_CANCELLED", "OS_TIMEOUT"})

LEMMA FlagsEnd ==
  ASSUME FlagsInv, [Next]_vars, NEW t \in Threads, pc[t] \in Waiting, pc'[t] = "main"
  PROVE  MayEnd(t)
<1>0. DOMAIN pc = Threads
  BY DEF FlagsInv, StartedInv
<1>1. ASSUME NEW u \in Threads, Wait(u)
      PROVE  MayEnd(t)
  <2>1. u = t
    <3>1. PICK l : pc' = [pc EXCEPT ![u] = l]
      BY <1>1, Zenon DEF Wait, LoopSet, LoopWait, LoopRefused, Perform, Woken, Return,
        LoopAgain, Goto
    <3>2. QED
      BY <1>0, <3>1 DEF Waiting
  <2>2. CASE LoopSet(t)
    BY <2>2 DEF LoopSet, MayEnd
  <2>3. CASE LoopWait(t) \/ Perform(t)
    BY <1>0, <2>3 DEF LoopWait, Perform, Goto
  <2>4. CASE LoopRefused(t)
    <3>1. ~arg[t].strict
      BY <1>0, <2>4 DEF LoopRefused, LoopAgain, Goto
    <3>2. EventWaitRefused(t, FlagsEvent)
      BY <2>4 DEF LoopRefused
    <3>3. ret'[t] = PrepareRefusal(t, FlagsEvent) /\ PrepareRefused(t, FlagsEvent)
      BY <3>2 DEF EventWaitRefused, FlagsInv, StartedInv, KInv, KernelTypeOK
    <3>4. interrupted[t]
      BY <3>3, EventFlagsAssumption, KernelAssumption DEF PrepareRefused, FlagsInv
    <3>5. QED
      BY <3>1, <3>3, <3>4 DEF PrepareRefusal, MayEnd
  <2>5. CASE Woken(t)
    <3>1. At(t, "woken") /\ UNCHANGED ret /\ (Set(t) \/ (~arg[t].strict /\ ret[t] # "event"))
      BY <1>0, <2>5 DEF Woken, LoopAgain, Goto, kernelVars, waitVars
    <3>2. ~waiting[t]
      BY <3>1, RunningDoesNotWait
    <3>3. ret[t] \in Reasons
      BY <3>1, <3>2 DEF FlagsInv, FlagsWait, At
    <3>4. QED
      BY <3>1, <3>3 DEF Reasons, MayEnd
  <2>6. QED
    BY <1>1, <2>1, <2>2, <2>3, <2>4, <2>5 DEF Wait
<1>2. ASSUME NEW u \in Threads,
             Notifying(u) \/ (\E a \in Waits : WaitEnter(u, a))
             \/ \E b \in Bits : Notify(u, b) \/ Clear(u, b)
      PROVE  FALSE
  BY <1>0, <1>2 DEF WaitEnter, Notifying, NotifyReceiver, NotifyThreads, NotifyStep,
    Notify, Clear, Free, At, Goto, threadVars, Waiting
<1>3. CASE UNCHANGED pc
  BY <1>3 DEF Waiting
<1>4. CASE Kernel
  <2>1. StepStays(t)
    BY <1>4, StartedStepKeeps DEF Kernel, StartedStep, FlagsInv
  <2>2. QED
    BY <2>1 DEF StepStays, Waiting
<1>5. QED
  BY <1>1, <1>2, <1>3, <1>4
     DEF Next, vars, threadVars, Timeout, IsrNotifyReceiver, IsrNotifyThreads

\* OSEventFlags::wait: a wait ends because one of its bits is set or, if it is not
\* strict, because it was cancelled or timed out.  For the latter what a thread is
\* told must be what ended its wait, up to the moment it reads it.
THEOREM WaitsEndForAReason == Spec => WaitEndsForAReason
<1>1. FlagsInv /\ [Next]_vars => [\A t \in Threads :
         pc[t] \in Waiting /\ pc'[t] = "main" =>
           Set(t) \/ (~arg[t].strict /\ ret'[t] \in {"OS_CANCELLED", "OS_TIMEOUT"})]_vars
  BY FlagsEnd DEF MayEnd
<1>2. QED
  BY <1>1, FlagsInitSafe, FlagsStep, PTL DEF Spec, WaitEndsForAReason

(***************************************************************************)
(* The requests of OSRealTime.                                             *)
(***************************************************************************)

\* Where the receiver is, against the kernel, and what is pending.
RealTimeInv ==
  /\ StartedInv /\ lock = 0
  /\ registered \in {NoThread, Receiver}
  /\ waiting[Receiver] \/ pc[Receiver] \in {"wait", "mark", "yield"} => registered = Receiver
  /\ pc[Receiver] = "mark" => event[Receiver] = RtEvent
  /\ waiting[Receiver] =>
       /\ event[Receiver] = RtEvent /\ pc[Receiver] \notin {"wait", "mark"}
       /\ pc[Receiver] = "yield" \/ Receiver \notin Members(ready)
  /\ isrPc = "delivered" =>
       /\ ~waiting[Receiver] /\ pc[Receiver] \notin {"wait", "mark"}
       /\ sweep[Isr] = NoSweep
  /\ NoArrivalMissed

LEMMA ReceiverIs ==
  /\ Receiver \in Threads /\ Receiver # Idle /\ Receiver # NoThread
  /\ RtEvent \in Events /\ RtEvent # NoEvent
BY RealTimeAssumption, KernelAssumption

LEMMA RequestInitSafe == RealTimeInit => RealTimeInv
<1> SUFFICES ASSUME RealTimeInit PROVE RealTimeInv
  OBVIOUS
<1>1. StartedInv
  BY StartedInitSafe DEF RealTimeInit
<1>2. /\ lock = 0 /\ ~waiting[Receiver] /\ pc[Receiver] = "main" /\ isrPc = "off"
      /\ registered = NoThread /\ ~arrived
  BY ReceiverIs DEF RealTimeInit, StartedInit
<1> QED  BY <1>1, <1>2 DEF RealTimeInv, NoArrivalMissed

\* The receiver on the processor does not wait, unless it is about to give it up.
LEMMA ReceiverRuns ==
  ASSUME RealTimeInv, At(Receiver, "main") \/ At(Receiver, "wait") \/ At(Receiver, "mark")
  PROVE  ~waiting[Receiver]
BY DEF RealTimeInv, StartedInv, At

\* What a step of the system does that is not one of the receiver or of OSRealTime.
LEMMA RequestQuiet ==
  ASSUME RealTimeInv, StartedInv', UNCHANGED <<lock, requestVars>>,
         StepWaits(Receiver), StepStays(Receiver), isrPc' # "delivered"
  PROVE  RealTimeInv'
<1>1. /\ waiting'[Receiver] =>
           /\ waiting[Receiver] /\ event'[Receiver] = event[Receiver]
           /\ Receiver \notin Members(ready) => Receiver \notin Members(ready')
      /\ ~waiting[Receiver] => event'[Receiver] = event[Receiver] /\ ~waiting'[Receiver]
  BY DEF StepWaits
<1>2. \/ pc'[Receiver] = pc[Receiver]
      \/ {pc[Receiver], pc'[Receiver]} \cap {"wait", "mark", "yield"} = {}
  BY DEF StepStays
<1>3. ~suspended'[Receiver] /\ UNCHANGED <<registered, requested, arrived>>
  BY ReceiverIs DEF StartedInv, requestVars
<1>4. waiting'[Receiver] \/ pc'[Receiver] \in {"wait", "mark", "yield"} => registered = Receiver
  BY <1>1, <1>2 DEF RealTimeInv
<1>5. pc'[Receiver] = "mark" => event'[Receiver] = RtEvent
  BY <1>1, <1>2 DEF RealTimeInv
<1>6. waiting'[Receiver] =>
        /\ event'[Receiver] = RtEvent /\ pc'[Receiver] \notin {"wait", "mark"}
        /\ pc'[Receiver] = "yield" \/ Receiver \notin Members(ready')
  BY <1>1, <1>2 DEF RealTimeInv
<1>7. NoArrivalMissed'
  BY <1>1, <1>2, <1>3, <1>4, <1>6, ReceiverIs
     DEF RealTimeInv, NoArrivalMissed, Deliverable, Notifiable
<1> QED  BY <1>3, <1>4, <1>5, <1>6, <1>7 DEF RealTimeInv

\* Everything that OSStarted does.
LEMMA RequestKernelKeeps ==
  ASSUME RealTimeInv, StartedStep, UNCHANGED requestVars
  PROVE  RealTimeInv'
<1>1. /\ StartedInv' /\ UNCHANGED lock
      /\ \A u \in Threads : StepWaits(u) /\ StepStays(u)
  BY StartedStepKeeps DEF RealTimeInv, KeepsObjects
<1>2. isrPc' # "delivered"
  BY DEF StartedStep, IdleYield, StartInterruption, AckInterruption, RequestInterruption, Cancel,
     CancelStep, Goto, Free, At, Tick, IsrTick, IsrGoto, Handler, HandlerStep, TickThread,
     IsrSweepStep, TickCancelled, IsrNotified, IsrExit, isrVars
<1> QED  BY <1>1, <1>2, ReceiverIs, RequestQuiet

\* A step of the tick that leaves the kernel as it is, but for the thread that it
\* notifies.
LEMMA TickGoesOn ==
  ASSUME RealTimeInv, isrPc \in {"tick", "delivered"}, KInv',
         Members(ready) \subseteq Members(ready'),
         UNCHANGED <<running, bootVars, statusVars, sweepVars, threadVars>>,
         NEW l \in {"tick", "delivered"}, NEW i \in Nat, IsrGoto(l, i)
  PROVE  StartedInv' /\ sweep'[Isr] = NoSweep
<1>1. IsrSound'
  BY DEF RealTimeInv, StartedInv, IsrSound, IsrGoto, bootVars
<1>2. sweep[Isr] = NoSweep /\ UNCHANGED <<sweep, pc, target, suspended>>
  BY DEF RealTimeInv, StartedInv, SweepsQuiet, sweepVars, threadVars, statusVars
<1>3. SweepsQuiet'
  BY <1>2 DEF RealTimeInv, StartedInv, SweepsQuiet
<1> QED  BY <1>1, <1>2, <1>3 DEF RealTimeInv, StartedInv, bootVars

LEMMA RequestTickKeeps ==
  ASSUME RealTimeInv, RealTimeTick \/ RequestDone
  PROVE  RealTimeInv'
<1>0. /\ isrIdx + 1 \in Nat /\ isrIdx \in Nat
      /\ KInv /\ Registered = Threads
  BY StartedAssumption DEF RealTimeInv, StartedInv, IsrSound, Registered
<1>1. CASE RealTimeTick /\ Deliverable
  <2>1. /\ registered = Receiver /\ Notifiable(Receiver, RtEvent)
        /\ EventNotifyThread(Receiver, RtEvent, "OS_VOID")
        /\ isrPc = "tick" /\ IsrGoto("delivered", isrIdx) /\ UNCHANGED <<threadVars, requestVars>>
    BY <1>1 DEF RealTimeTick, Deliverable, RealTimeInv
  <2>2. KInv'
    BY <1>0, <2>1, ReceiverIs, EventNotifyThreadSafe DEF Rets
  <2>3. /\ NotifyThread(Receiver, RtEvent, "OS_VOID")
        /\ UNCHANGED <<running, lock, bootVars, statusVars, sweepVars>>
    BY <2>1 DEF EventNotifyThread
  <2>4. ~waiting'[Receiver] /\ Members(ready) \subseteq Members(ready')
    BY <1>0, <2>1, <2>3, ReceiverIs, NotifyWakes DEF Rets
  <2>5. StartedInv' /\ sweep'[Isr] = NoSweep
    BY <1>0, <2>1, <2>2, <2>3, <2>4, TickGoesOn
  <2>6. /\ waiting[Receiver] /\ UNCHANGED <<pc, registered, requested, arrived>>
        /\ pc[Receiver] \notin {"wait", "mark"}
    BY <2>1 DEF Notifiable, threadVars, requestVars, RealTimeInv
  <2> QED  BY <2>1, <2>3, <2>4, <2>5, <2>6 DEF RealTimeInv, NoArrivalMissed
<1>2. CASE RealTimeTick /\ ~Deliverable
  <2>1. /\ isrPc = "tick" /\ IsrGoto("tick", isrIdx + 1)
        /\ UNCHANGED <<kernelVars, threadVars, requestVars>>
    BY <1>2 DEF RealTimeTick
  <2>2. KInv' /\ UNCHANGED <<bootVars, schedVars, waitVars, statusVars, sweepVars>>
    BY <1>0, <2>1, KernelStutter DEF kernelVars
  <2>3. StartedInv'
    BY <1>0, <2>1, <2>2, TickGoesOn DEF schedVars
  <2> QED
    BY <2>1, <2>2, <2>3 DEF IsrGoto, RealTimeInv, NoArrivalMissed, Deliverable, Notifiable,
       schedVars, waitVars, statusVars, threadVars, requestVars
<1>3. CASE RequestDone
  <2>1. /\ isrPc = "delivered" /\ IsrGoto("tick", isrIdx + 1)
        /\ UNCHANGED <<kernelVars, threadVars, registered>>
    BY <1>3 DEF RequestDone
  <2>2. KInv' /\ UNCHANGED <<bootVars, schedVars, waitVars, statusVars, sweepVars>>
    BY <1>0, <2>1, KernelStutter DEF kernelVars
  <2>3. StartedInv'
    BY <1>0, <2>1, <2>2, TickGoesOn DEF schedVars
  <2> QED
    BY <2>1, <2>2, <2>3 DEF IsrGoto, RealTimeInv, NoArrivalMissed, schedVars, waitVars, threadVars
<1> QED  BY <1>1, <1>2, <1>3

\* The receiver goes from one place to another without giving up the processor.
LEMMA ReceiverMoves ==
  ASSUME RealTimeInv, KInv', NEW m \in {"main", "wait", "mark"}, At(Receiver, m),
         NEW l \in {"main", "wait", "mark", "yield"},
         pc' = [pc EXCEPT ![Receiver] = l] \/ (l = m /\ UNCHANGED pc),
         UNCHANGED <<bootVars, schedVars, statusVars, sweepVars, target, isrVars>>,
         l \in {"wait", "mark", "yield"} => registered' = Receiver,
         registered' \in {NoThread, Receiver},
         l \in {"mark", "yield"} => event'[Receiver] = RtEvent,
         waiting'[Receiver] => l = "yield",
         arrived' /\ l \in {"wait", "mark", "yield"} => requested'
  PROVE  RealTimeInv'
<1>1. pc'[Receiver] = l /\ UNCHANGED <<lock, suspended, running, ready, isrPc>>
  BY ReceiverIs DEF RealTimeInv, StartedInv, schedVars, statusVars, isrVars, At
<1>2. StartedInv'
  BY <1>1, ReceiverIs, GotoKeepsStarted, StutterKeepsStarted
     DEF RealTimeInv, StartedInv, At, Sweeping, sweepVars, threadVars
<1>3. ~suspended'[Receiver] /\ isrPc' # "delivered"
  BY <1>1, <1>2, ReceiverIs DEF StartedInv, At
<1>4. NoArrivalMissed'
  BY <1>1, <1>3, ReceiverIs DEF NoArrivalMissed, Deliverable, Notifiable
<1> QED  BY <1>1, <1>2, <1>3, <1>4 DEF RealTimeInv

LEMMA RequestReceiverKeeps ==
  ASSUME RealTimeInv, Receive
  PROVE  RealTimeInv'
<1>0. /\ KInv
      /\ event \in [Threads -> Events \cup {NoEvent}] /\ waiting \in [Threads -> BOOLEAN]
  BY DEF RealTimeInv, StartedInv, KInv, KernelTypeOK
<1>1. CASE Register \/ Take \/ FoundNothing
  <2>1. /\ At(Receiver, "main") /\ UNCHANGED <<kernelVars, isrVars, target>>
        /\ \/ /\ registered = NoThread /\ registered' = Receiver
              /\ UNCHANGED <<pc, requested, arrived>>
           \/ ~arrived' /\ UNCHANGED <<pc, registered>>
           \/ /\ registered # NoThread /\ ~arrived /\ UNCHANGED <<registered, arrived>>
              /\ pc' = [pc EXCEPT ![Receiver] = "wait"]
    BY <1>1 DEF Register, Take, FoundNothing, Free, Goto, requestVars, threadVars
  <2>2. KInv' /\ UNCHANGED <<bootVars, schedVars, waitVars, statusVars, sweepVars>>
    BY <1>0, <2>1, KernelStutter DEF kernelVars
  <2>3. ~waiting'[Receiver]
    BY <2>1, <2>2, ReceiverRuns DEF waitVars
  <2>4. registered' \in {NoThread, Receiver}
    BY <2>1 DEF RealTimeInv
  <2>5. CASE UNCHANGED pc
    BY <2>1, <2>2, <2>3, <2>4, <2>5, ReceiverMoves
  <2>6. CASE /\ registered # NoThread /\ ~arrived /\ UNCHANGED <<registered, arrived>>
             /\ pc' = [pc EXCEPT ![Receiver] = "wait"]
    <3>1. registered' = Receiver /\ ~arrived'
      BY <2>6 DEF RealTimeInv
    <3> QED  BY <2>1, <2>2, <2>3, <2>4, <2>6, <3>1, ReceiverMoves
  <2> QED  BY <2>1, <2>5, <2>6
<1>2. CASE /\ At(Receiver, "wait") /\ UNCHANGED requestVars
           /\ EventWaitRefused(Receiver, RtEvent) /\ Goto(Receiver, "main")
  <2>1. KInv' /\ UNCHANGED <<bootVars, schedVars, statusVars, sweepVars, waiting>>
    BY <1>0, <1>2, ReceiverIs, EventWaitRefusedSafe DEF EventWaitRefused
  <2>2. ~waiting'[Receiver] /\ registered' \in {NoThread, Receiver}
    BY <1>2, <2>1, ReceiverRuns DEF RealTimeInv, requestVars
  <2> QED  BY <1>2, <2>1, <2>2, ReceiverMoves DEF Goto
<1>3. CASE /\ At(Receiver, "wait") /\ UNCHANGED requestVars
           /\ EventWaitSetEvent(Receiver, RtEvent) /\ Goto(Receiver, "mark")
  <2>1. KInv'
    BY <1>0, <1>3, ReceiverIs, EventWaitSetEventSafe
  <2>2. /\ UNCHANGED <<bootVars, schedVars, statusVars, sweepVars, waiting>>
        /\ event'[Receiver] = RtEvent
    BY <1>0, <1>3, ReceiverIs DEF EventWaitSetEvent
  <2>3. /\ ~waiting'[Receiver] /\ registered' = Receiver
        /\ arrived' => requested'
    BY <1>3, <2>2, ReceiverRuns DEF RealTimeInv, NoArrivalMissed, requestVars, At
  <2> QED  BY <1>3, <2>1, <2>2, <2>3, ReceiverMoves DEF Goto
<1>4. CASE /\ At(Receiver, "mark") /\ UNCHANGED requestVars
           /\ EventWaitSetWaiting(Receiver) /\ Goto(Receiver, "yield")
  <2>1. KInv'
    BY <1>0, <1>4, ReceiverIs, EventWaitSetWaitingSafe
  <2>2. UNCHANGED <<bootVars, schedVars, statusVars, sweepVars, event>>
    BY <1>4 DEF EventWaitSetWaiting
  <2>3. /\ registered' = Receiver /\ event'[Receiver] = RtEvent
        /\ arrived' => requested'
    BY <1>4, <2>2 DEF RealTimeInv, NoArrivalMissed, requestVars, At
  <2> QED  BY <1>4, <2>1, <2>2, <2>3, ReceiverMoves DEF Goto
<1>5. CASE /\ At(Receiver, "yield") /\ UNCHANGED requestVars
           /\ PerformContextSwitch /\ Goto(Receiver, "main")
  <2>1. /\ KInv' /\ running' \in Members(ready')
        /\ UNCHANGED <<bootVars, lock, event, waiting, statusVars, sweepVars>>
        /\ waiting[Receiver] => Receiver \notin Members(ready')
    BY <1>5, ReceiverIs, SwitchPicks DEF RealTimeInv, StartedInv, At
  <2>2. /\ pc[Receiver] = "yield" /\ isrPc = "off"
        /\ pc' = [pc EXCEPT ![Receiver] = "main"] /\ UNCHANGED <<target, isrVars>>
    BY <1>5 DEF At, Goto
  <2>3. StartedInv'
    BY <2>1, <2>2, ReceiverIs, GotoKeepsStarted DEF RealTimeInv, Sweeping, statusVars, sweepVars
  <2>4. /\ pc'[Receiver] = "main" /\ isrPc' = "off"
        /\ UNCHANGED <<registered, requested, arrived, suspended>>
    BY <1>5, <2>1, <2>2, ReceiverIs DEF RealTimeInv, StartedInv, isrVars, requestVars, statusVars
  <2> QED
    BY <2>1, <2>2, <2>3, <2>4 DEF RealTimeInv, NoArrivalMissed, Deliverable, Notifiable
<1> QED
  BY <1>1, <1>2, <1>3, <1>4, <1>5 DEF Receive, ReceiverWait

LEMMA RequestStep ==
  ASSUME RealTimeInv, [RealTimeNext]_realTimeVars
  PROVE  RealTimeInv'
<1>1. CASE RealTimeInterrupt
  <2>1. /\ requested' /\ UNCHANGED <<registered, threadVars, isrVars, kernelVars>>
        /\ UNCHANGED <<bootVars, schedVars, waitVars, statusVars, sweepVars>>
    BY <1>1 DEF RealTimeInterrupt, kernelVars
  <2>2. StartedInv'
    BY <2>1, KernelStutter, StutterKeepsStarted DEF RealTimeInv, StartedInv, schedVars, statusVars,
       sweepVars
  <2>3. ~suspended[Receiver]
    BY ReceiverIs DEF RealTimeInv, StartedInv
  <2>4. NoArrivalMissed'
    BY <2>1, <2>3, ReceiverIs DEF RealTimeInv, NoArrivalMissed, Deliverable, Notifiable, waitVars,
       statusVars
  <2> QED
    BY <2>1, <2>2, <2>4 DEF RealTimeInv, threadVars, isrVars, schedVars, waitVars, sweepVars
<1>2. CASE UNCHANGED realTimeVars
  <2>1. /\ UNCHANGED <<requestVars, threadVars, isrVars, kernelVars>>
        /\ UNCHANGED <<bootVars, schedVars, waitVars, statusVars, sweepVars>>
    BY <1>2 DEF realTimeVars, kernelVars
  <2>2. StartedInv'
    BY <2>1, KernelStutter, StutterKeepsStarted DEF RealTimeInv, StartedInv, schedVars, statusVars,
       sweepVars
  <2> QED
    BY <2>1, <2>2 DEF RealTimeInv, NoArrivalMissed, Deliverable, Notifiable, requestVars,
       threadVars, isrVars, schedVars, waitVars, statusVars, sweepVars
<1>3. CASE TickArrives \/ TickRunsOn \/ Interruption
           \/ (\E t \in Others : Cancelling(t)) \/ (IdleYield /\ UNCHANGED requestVars)
  <2>1. StartedStep /\ UNCHANGED requestVars
    BY <1>3, ReceiverIs DEF TickArrives, TickRunsOn, Interruption, Cancelling, StartedStep, Handler,
       HandlerStep, StartInterruption, Others
  <2> QED  BY <2>1, RequestKernelKeeps
<1> QED
  BY <1>1, <1>2, <1>3, RequestTickKeeps, RequestReceiverKeeps DEF RealTimeNext, InterruptContinues

\* OSRealTime: the registered thread never waits with something there and nobody to
\* tell it, wherever real time interrupts fall - between its look and its wait, or
\* in the tick that has notified it and not yet taken the request back - and
\* whoever interrupts it: the tick will find a request that it can fulfil.
THEOREM NoArrivalIsMissed == RealTimeSpec => []NoArrivalMissed
<1>1. RealTimeInv => NoArrivalMissed
  BY DEF RealTimeInv
<1> QED  BY <1>1, RequestInitSafe, RequestStep, PTL DEF RealTimeSpec
=============================================================================
