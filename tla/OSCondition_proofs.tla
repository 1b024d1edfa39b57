-------------------------- MODULE OSCondition_proofs --------------------------
(***************************************************************************)
(* The critical section of a condition excludes the other threads, and so  *)
(* no condition is missed, for any number of threads, both classes and any *)
(* interrupt; and of a real time condition no reason is overwritten.       *)
(***************************************************************************)
EXTENDS OSCondition, OSStarted_proofs

\* Inductive: of an OSRealTimeCondition, nobody is in the section while an
\* interrupt runs; otherwise the lock counts who is inside, none or one, so
\* that no context switch takes place.
SectionInv ==
  /\ DOMAIN pc = Threads
  /\ \A t \in Threads :
       pc[t] \in Section =>
         /\ running = t
         /\ realTime => isrPc = "off"
         /\ ~realTime => lock = 1
  /\ ~realTime /\ (\A t \in Threads : pc[t] \notin Section) => lock = 0

-----------------------------------------------------------------------------

\* While a thread runs outside of the section, nobody is inside.
LEMMA NobodyInside ==
  ASSUME SectionInv, NEW t \in Threads, NEW l, At(t, l), l \notin Section
  PROVE  \A u \in Threads : pc[u] \notin Section
BY DEF SectionInv, At

\* A step that begins and ends outside of it, context switches included.
LEMMA OutsideKeeps ==
  ASSUME SectionInv, NEW t \in Threads, NEW l, At(t, l), l \notin Section,
         NEW m, m \notin Section, pc' = [pc EXCEPT ![t] = m],
         UNCHANGED <<lock, realTime>>
  PROVE  SectionInv'
<1>1. \A u \in Threads : pc[u] \notin Section
  BY NobodyInside
<1>2. \A u \in Threads : pc'[u] \notin Section
  BY <1>1 DEF SectionInv
<1>3. DOMAIN pc' = Threads
  BY DEF SectionInv
<1>4. ~realTime' => lock' = 0
  BY <1>1 DEF SectionInv
<1>5. QED
  BY <1>2, <1>3, <1>4 DEF SectionInv, Section

\* The same for a thread that stays where it is.
LEMMA OutsideStays ==
  ASSUME SectionInv, NEW t \in Threads, NEW l, At(t, l), l \notin Section,
         UNCHANGED <<pc, lock, realTime>>
  PROVE  SectionInv'
<1>1. \A u \in Threads : pc[u] \notin Section
  BY NobodyInside
<1>2. QED
  BY <1>1 DEF SectionInv, Section

\* A step from one place of the section to another.
LEMMA InsideKeeps ==
  ASSUME SectionInv, NEW t \in Threads, NEW l \in Section, At(t, l),
         NEW m \in Section, pc' = [pc EXCEPT ![t] = m],
         UNCHANGED <<lock, realTime, running, isrPc>>
  PROVE  SectionInv'
<1>1. \A u \in Threads : pc'[u] \in Section => u = t
  BY DEF SectionInv, At
<1>2. pc'[t] \in Section /\ pc[t] \in Section
  BY DEF SectionInv, At
<1>3. QED
  BY <1>1, <1>2 DEF SectionInv, Section

\* A step of nobody's control state that does not switch threads and starts no
\* interrupt.
LEMMA QuietKeeps ==
  ASSUME SectionInv, UNCHANGED <<pc, lock, realTime, running>>,
         \/ isrPc' = isrPc
         \/ ~realTime
         \/ \A u \in Threads : pc[u] \notin Section
  PROVE  SectionInv'
BY DEF SectionInv, Section

-----------------------------------------------------------------------------

\* The kernel's routines leave the lock alone.
LEMMA KernelFrame ==
  /\ UNCHANGED kernelVars => UNCHANGED <<lock, running>>
  /\ PerformContextSwitch => UNCHANGED lock /\ (lock # 0 => UNCHANGED running)
  /\ \A c \in Contexts : \A ev, r : SweepStart(c, ev, r) => UNCHANGED <<lock, running>>
  /\ \A c \in Contexts : SweepStep(c) \/ SweepEnd(c) => UNCHANGED <<lock, running>>
  /\ \A t \in Threads, b \in BOOLEAN : SetInterruption(t, b) => UNCHANGED <<lock, running>>
BY DEF kernelVars, schedVars, PerformContextSwitch, SweepStart, SweepStep, SweepEnd,
       SetInterruption

\* The lock is entered when nobody is inside.
LEMMA EnterKeeps ==
  ASSUME SectionInv, NEW t \in Threads, SectionEnter(t)
  PROVE  SectionInv'
<1>1. At(t, "enter") /\ "enter" \notin Section /\ realTime' = realTime
  BY DEF SectionEnter, Section, condVars
<1>2. \A u \in Threads : pc[u] \notin Section
  BY <1>1, NobodyInside
<1>3. pc' = [pc EXCEPT ![t] = "check"] /\ UNCHANGED isrPc /\ isrPc = "off" /\ running = t
  BY <1>1 DEF SectionEnter, Goto, At, isrVars
<1>4. running' = running /\ (~realTime => lock' = 1)
  BY <1>2, KernelFrame DEF SectionEnter, SetLock, SectionInv
<1>5. \A u \in Threads : pc'[u] \in Section => u = t
  BY <1>2, <1>3 DEF SectionInv
<1>6. pc'[t] \in Section /\ DOMAIN pc' = Threads
  BY <1>3 DEF SectionInv, Section
<1>7. QED
  BY <1>1, <1>3, <1>4, <1>5, <1>6 DEF SectionInv, Section

\* It is left by the one who is inside.
LEMMA ExitKeeps ==
  ASSUME SectionInv, NEW t \in Threads, SectionExit(t)
  PROVE  SectionInv'
<1>1. /\ pc[t] = "exit" /\ pc' = [pc EXCEPT ![t] = "decide"] /\ realTime' = realTime
      /\ pc[t] \in Section
  BY DEF SectionExit, At, Goto, condVars, Section
<1>2. \A u \in Threads : pc'[u] \notin Section
  BY <1>1 DEF SectionInv, Section
<1>3. ~realTime => lock' = 0
  BY <1>1 DEF SectionExit, SetLock, SectionInv
<1>4. DOMAIN pc' = Threads
  BY <1>1 DEF SectionInv
<1>5. QED
  BY <1>1, <1>2, <1>3, <1>4 DEF SectionInv, Section

\* The check of the condition and the two writes of the wait are inside.
LEMMA CheckKeeps ==
  ASSUME SectionInv, NEW t \in Threads, CheckDone(t) \/ CheckWait(t) \/ Mark(t)
  PROVE  SectionInv'
<1>1. CASE CheckDone(t)
  BY <1>1, InsideKeeps, KernelFrame DEF CheckDone, Leave, Goto, isrVars, Section
<1>2. CASE CheckWait(t)
  BY <1>2, InsideKeeps DEF CheckWait, Leave, Goto, isrVars, condVars, schedVars, Section
<1>3. CASE Mark(t)
  BY <1>3, InsideKeeps DEF Mark, EventWaitSetWaiting, Leave, Goto, isrVars, schedVars, Section
<1>4. QED
  BY <1>1, <1>2, <1>3

\* The rest of wait() is outside.
LEMMA WaitKeeps ==
  ASSUME SectionInv, NEW t \in Threads, WaitEnter(t) \/ Wait(t)
  PROVE  SectionInv'
<1>1. CASE WaitEnter(t)
  BY <1>1, OutsideKeeps DEF WaitEnter, Free, Goto, condVars, schedVars, Section
<1>2. CASE Decide(t)
  <2>1. PICK m \in {"main", "retry", "isCancelled", "perform"} : Goto(t, m)
    BY <1>2 DEF Decide
  <2>2. QED
    BY <1>2, <2>1, OutsideKeeps, KernelFrame DEF Decide, Goto, condVars, Section
<1>3. CASE Retry(t)
  BY <1>3, OutsideKeeps, KernelFrame DEF Retry, Goto, condVars, Section
<1>4. CASE IsCancelled(t)
  <2>1. PICK m \in {"main", "perform"} : Goto(t, m)
    BY <1>4 DEF IsCancelled
  <2>2. UNCHANGED <<lock, realTime>>
    BY <1>4, KernelFrame DEF IsCancelled, condVars, schedVars
  <2>3. At(t, "isCancelled")
    BY <1>4 DEF IsCancelled
  <2>4. QED
    BY <2>1, <2>2, <2>3, OutsideKeeps DEF Goto, Section
<1>5. CASE Perform(t)
  BY <1>5, OutsideKeeps, KernelFrame DEF Perform, Goto, condVars, Section
<1>6. CASE Woken(t)
  <2>1. PICK m \in {"main", "prepare"} : Goto(t, m)
    BY <1>6 DEF Woken
  <2>2. QED
    BY <1>6, <2>1, OutsideKeeps, KernelFrame DEF Woken, Goto, condVars, Section
<1>7. CASE PrepareCheck(t)
  <2>1. PICK m \in {"main", "enter"} : Goto(t, m)
    BY <1>7 DEF PrepareCheck
  <2>2. QED
    BY <1>7, <2>1, OutsideKeeps, KernelFrame DEF PrepareCheck, Goto, Section
<1>8. QED
  BY <1>1, <1>2, <1>3, <1>4, <1>5, <1>6, <1>7, EnterKeeps, ExitKeeps, CheckKeeps DEF Wait

\* So are the writers, the readers that consume, and interruptions.
LEMMA OthersKeep ==
  ASSUME SectionInv, NEW t \in Threads,
         \/ \E new \in BOOLEAN : Provide(t, new)
         \/ Notifying(t) \/ Consume(t)
         \/ StartInterruption(t) /\ UNCHANGED condVars
         \/ Cancel(t) /\ UNCHANGED condVars
         \/ CancelStep(t) /\ UNCHANGED condVars
  PROVE  SectionInv'
<1> t \in Contexts
  BY DEF Contexts
<1>1. ASSUME NEW new \in BOOLEAN, Provide(t, new)
      PROVE  SectionInv'
  BY <1>1, OutsideKeeps, KernelFrame DEF Provide, Provided, Free, Goto, Section
<1>2. CASE Notify(t)
  BY <1>2, OutsideKeeps, KernelFrame DEF Notify, Goto, condVars, Section
<1>3. CASE NotifyStep(t)
  BY <1>3, OutsideKeeps, OutsideStays, KernelFrame DEF NotifyStep, condVars, Section
<1>4. CASE Consume(t)
  BY <1>4, OutsideStays, KernelFrame DEF Consume, Free, threadVars, Section
<1>5. CASE AckInterruption(t) /\ UNCHANGED condVars
  BY <1>5, OutsideStays, KernelFrame DEF AckInterruption, Free, threadVars, condVars, Section
<1>6. ASSUME NEW u \in Threads, RequestInterruption(t, u), UNCHANGED condVars
      PROVE  SectionInv'
  BY <1>6, OutsideKeeps, KernelFrame DEF RequestInterruption, Free, condVars, Section
<1>7. CASE Cancel(t) /\ UNCHANGED condVars
  BY <1>7, OutsideKeeps, KernelFrame DEF Cancel, Goto, condVars, Section
<1>8. CASE CancelStep(t) /\ UNCHANGED condVars
  BY <1>8, OutsideKeeps, OutsideStays, KernelFrame DEF CancelStep, threadVars, condVars, Section
<1>9. QED
  BY <1>1, <1>2, <1>3, <1>4, <1>5, <1>6, <1>7, <1>8 DEF Notifying, StartInterruption

\* An interrupt is not taken in the section of an OSRealTimeCondition.
LEMMA EntryKeeps ==
  ASSUME SectionInv, InterruptEnabled, UNCHANGED <<pc, lock, realTime, running>>
  PROVE  SectionInv'
<1>1. ~realTime \/ \A u \in Threads : pc[u] \notin Section
  BY DEF SectionInv, InterruptEnabled, Critical
<1>2. QED
  BY <1>1, QuietKeeps

LEMMA InterruptKeeps ==
  ASSUME SectionInv,
         \/ \E new \in BOOLEAN : IsrProvide(new)
         \/ Timeout
         \/ Tick(Critical) /\ UNCHANGED condVars
  PROVE  SectionInv'
<1> Isr \in Contexts
  BY DEF Contexts
<1>1. ASSUME NEW new \in BOOLEAN, IsrProvide(new)
      PROVE  SectionInv'
  BY <1>1, EntryKeeps, KernelFrame DEF IsrProvide, Provided, IsrNotify, threadVars
<1>2. CASE Timeout
  BY <1>2, EntryKeeps, KernelFrame DEF Timeout, IsrNotify, threadVars, condVars
<1>3. CASE Tick(Critical) /\ UNCHANGED condVars
  BY <1>3, EntryKeeps, KernelFrame DEF Tick, InterruptEnabled, IsrTick, threadVars, condVars
<1>4. QED
  BY <1>1, <1>2, <1>3

\* While one runs, the lock keeps interruptExit from switching threads.
LEMMA HandlerKeeps ==
  ASSUME SectionInv, Handler, UNCHANGED condVars
  PROVE  SectionInv'
<1> Isr \in Contexts
  BY DEF Contexts
<1>1. UNCHANGED <<pc, realTime>>
  BY DEF Handler, threadVars, condVars
<1>2. isrPc # "off"
  BY DEF Handler, HandlerStep, TickThread, IsrSweepStep, TickCancelled, IsrNotified, IsrExit
<1>3. ~realTime \/ \A u \in Threads : pc[u] \notin Section
  BY <1>2 DEF SectionInv
<1>4. CASE TickThread
  BY <1>1, <1>3, <1>4, QuietKeeps, KernelFrame DEF TickThread
<1>5. CASE IsrSweepStep
  BY <1>1, <1>3, <1>5, QuietKeeps, KernelFrame DEF IsrSweepStep
<1>6. CASE TickCancelled
  BY <1>1, <1>3, <1>6, QuietKeeps, KernelFrame DEF TickCancelled
<1>7. CASE IsrNotified
  BY <1>1, <1>3, <1>7, QuietKeeps, KernelFrame DEF IsrNotified
<1>8. CASE IsrExit
  <2>1. UNCHANGED lock /\ (lock # 0 => UNCHANGED running)
    BY <1>8, KernelFrame DEF IsrExit
  <2>2. CASE \A u \in Threads : pc[u] \notin Section
    BY <1>1, <2>1, <2>2 DEF SectionInv, Section
  <2>3. CASE \E u \in Threads : pc[u] \in Section
    <3>1. ~realTime /\ lock = 1
      BY <1>3, <2>3 DEF SectionInv
    <3>2. QED
      BY <1>1, <2>1, <3>1, QuietKeeps
  <2>4. QED
    BY <2>2, <2>3
<1>9. QED
  BY <1>4, <1>5, <1>6, <1>7, <1>8 DEF Handler, HandlerStep

-----------------------------------------------------------------------------

LEMMA SectionInitSafe == Init => SectionInv
BY DEF Init, StartedInit, SectionInv, Section

LEMMA SectionStep ==
  ASSUME SectionInv, [Next]_vars
  PROVE  SectionInv'
<1>1. CASE UNCHANGED vars
  BY <1>1, QuietKeeps, KernelFrame DEF vars, threadVars, isrVars, condVars
<1>2. CASE IdleYield /\ UNCHANGED condVars
  BY <1>2, KernelAssumption, OutsideStays, KernelFrame DEF IdleYield, threadVars, condVars, Section
<1>3. CASE Kernel
  BY <1>2, <1>3, OthersKeep, InterruptKeeps, HandlerKeeps DEF Kernel
<1>4. QED
  BY <1>1, <1>3, WaitKeeps, OthersKeep, InterruptKeeps DEF Next

\* OSCondition::criticalSectionEnter and criticalSectionExit: from the check of
\* the condition to the end of the preparation of the wait, no other thread
\* runs, whatever interrupts arrive.
THEOREM SectionExcludesOthers == Spec => []SectionExcludes
<1>1. SectionInv => SectionExcludes
  BY DEF SectionInv, SectionExcludes
<1>2. QED
  BY <1>1, SectionInitSafe, SectionStep, PTL DEF Spec

-----------------------------------------------------------------------------
(***************************************************************************)
(* No condition is missed.                                                 *)
(***************************************************************************)

\* Where a thread is in wait(), against the kernel: it waits for the event of
\* the condition, between the preparation of the wait and its return; back from
\* the context switch it is out of the ready list or does not wait any more.
\* What its check has found still holds between the two writes.
CondWait(t) ==
  /\ pc[t] \in Waiting => t \in Waiters
  /\ waiting[t] =>
       /\ event[t] = CondEvent
       /\ pc[t] \in {"exit", "decide", "isCancelled", "perform", "woken"}
       /\ pc[t] \in {"exit", "decide"} => should[t] = "wait"
       /\ pc[t] = "woken" => t \notin Members(ready)
  /\ pc[t] = "mark" => event[t] = CondEvent /\ ~met /\ ~stale[t]

CondInv ==
  /\ StartedInv /\ SectionInv
  /\ realTime => lock = 0
  /\ DOMAIN stale = Threads /\ DOMAIN should = Threads
  /\ \A t \in Threads : CondWait(t)
  /\ NoMissedCondition

\* The part of NoMissedCondition about thread t.
Missed(t) ==
  waiting[t] /\ (met \/ stale[t]) =>
    (\E u \in Threads : pc[u] = "notify") \/ NotificationAhead(t, CondEvent)

LEMMA CondInitSafe == Init => CondInv
<1> SUFFICES ASSUME Init PROVE CondInv
  OBVIOUS
<1>1. StartedInv /\ SectionInv
  BY StartedInitSafe, SectionInitSafe DEF Init
<1>2. /\ lock = 0 /\ DOMAIN stale = Threads /\ DOMAIN should = Threads
      /\ \A t \in Threads : ~waiting[t] /\ pc[t] = "main"
  BY DEF Init, StartedInit
<1>3. (\A t \in Threads : CondWait(t)) /\ NoMissedCondition
  BY <1>2, ConditionAssumption DEF CondWait, NoMissedCondition, Waiting, Section
<1>4. QED
  BY <1>1, <1>2, <1>3 DEF CondInv

\* A change of the fields a wait is made of.
LEMMA WaitFieldsSafe ==
  ASSUME KInv, UNCHANGED <<bootVars, schedVars, statusVars, sweepVars>>,
         event' \in [Threads -> Events \cup {NoEvent}],
         waiting' \in [Threads -> BOOLEAN], ret' \in [Threads -> Rets],
         \A u \in Threads : waiting[u] /\ ~waiting'[u] => u \in Members(ready)
  PROVE  KInv'
<1>1. Registered \subseteq Threads
  BY GetTopMember DEF KInv, KernelTypeOK, Registered
<1>2. QED
  BY <1>1 DEF KInv, KernelTypeOK, SweepsInRange, StatusSound, ReadyListSound,
    NoLostThread, Registered, NextIndex, bootVars, schedVars, statusVars, sweepVars

LEMMA AheadUnchanged ==
  ASSUME UNCHANGED <<threads, sweep>>, NEW t, NEW ev, NotificationAhead(t, ev)
  PROVE  NotificationAhead(t, ev)'
BY DEF NotificationAhead, AheadIn

\* A step of the thread that waits.
LEMMA CondGotoKeeps ==
  ASSUME CondInv, SectionInv', StartedInv', realTime' => lock' = 0,
         NEW t \in Threads, pc[t] # "notify", NEW l, pc' = [pc EXCEPT ![t] = l],
         UNCHANGED <<threads, sweep, met>>,
         DOMAIN stale' = Threads, DOMAIN should' = Threads,
         \A u \in Threads \ {t} :
           /\ waiting'[u] = waiting[u] /\ event'[u] = event[u]
           /\ stale'[u] = stale[u] /\ should'[u] = should[u]
           /\ u \in Members(ready') <=> u \in Members(ready),
         CondWait(t)',
         waiting'[t] => \/ waiting[t] /\ stale'[t] = stale[t]
                        \/ ~met /\ ~stale[t] /\ stale'[t] = stale[t]
  PROVE  CondInv'
<1>1. pc'[t] = l /\ \A u \in Threads \ {t} : pc'[u] = pc[u]
  BY DEF CondInv, StartedInv
<1>2. ASSUME NEW u \in Threads
      PROVE  CondWait(u)'
  BY <1>1 DEF CondInv, CondWait, Waiting, Section
<1>3. NoMissedCondition'
  <2> SUFFICES ASSUME NEW u \in Waiters, waiting'[u], met' \/ stale'[u]
               PROVE  \/ \E v \in Threads : pc'[v] = "notify"
                      \/ NotificationAhead(u, CondEvent)'
    BY DEF NoMissedCondition
  <2>1. u \in Threads
    BY ConditionAssumption
  <2>2. waiting[u] /\ (met \/ stale[u])
    BY <2>1
  <2>3. \A v \in Threads : pc[v] = "notify" => pc'[v] = "notify"
    BY <1>1
  <2>4. QED
    BY <2>2, <2>3, AheadUnchanged DEF CondInv, NoMissedCondition
<1>4. QED
  BY <1>2, <1>3 DEF CondInv

\* Where the running thread cannot be waiting.
LEMMA RunningDoesNotWait ==
  ASSUME CondInv, NEW t \in Threads, NEW l, At(t, l),
         l \notin {"exit", "decide", "isCancelled", "perform"}
  PROVE  ~waiting[t]
BY DEF CondInv, CondWait, StartedInv, At

\* wait()
LEMMA CondWaitKeeps ==
  ASSUME CondInv, SectionInv', NEW t \in Threads, WaitEnter(t) \/ Wait(t)
  PROVE  CondInv'
<1> USE DEF Goto, CondWait, Waiting, Section
<1>0. /\ StartedInv /\ KInv /\ SectionInv /\ running \in Members(ready)
      /\ lock \in Nat /\ (realTime => lock = 0)
      /\ event \in [Threads -> Events \cup {NoEvent}] /\ waiting \in [Threads -> BOOLEAN]
      /\ ret \in [Threads -> Rets]
      /\ DOMAIN pc = Threads /\ DOMAIN stale = Threads /\ DOMAIN should = Threads
  BY DEF CondInv, StartedInv, KInv, KernelTypeOK
<1>1. ASSUME NEW m, At(t, m), m \notin {"sweep", "cancelSweep", "notify"},
             NEW l, l \notin {"sweep", "cancelSweep", "cancel"}, pc' = [pc EXCEPT ![t] = l],
             KInv', running' \in Members(ready'),
             UNCHANGED <<bootVars, suspended, sweep, isrVars, target, met>>,
             realTime' => lock' = 0,
             DOMAIN stale' = Threads, DOMAIN should' = Threads,
             \A u \in Threads \ {t} :
               /\ waiting'[u] = waiting[u] /\ event'[u] = event[u]
               /\ stale'[u] = stale[u] /\ should'[u] = should[u]
               /\ u \in Members(ready') <=> u \in Members(ready),
             CondWait(t)',
             waiting'[t] => \/ waiting[t] /\ stale'[t] = stale[t]
                            \/ ~met /\ ~stale[t] /\ stale'[t] = stale[t]
      PROVE  CondInv'
  <2>1. StartedInv'
    BY <1>0, <1>1, GotoKeepsStarted DEF Sweeping, At
  <2>2. QED
    BY <1>1, <2>1, CondGotoKeeps DEF At, bootVars
<1>2. CASE WaitEnter(t)
  <2>1. /\ At(t, "main") /\ t \in Waiters /\ ret' = [ret EXCEPT ![t] = "OS_IMMEDIATELY"]
        /\ pc' = [pc EXCEPT ![t] = "prepare"] /\ UNCHANGED <<target, isrVars>>
        /\ UNCHANGED <<event, waiting, bootVars, schedVars, statusVars, sweepVars, condVars>>
    BY <1>2 DEF WaitEnter, Free
  <2>2. KInv'
    BY <1>0, <2>1, WaitFieldsSafe DEF Rets
  <2>3. ~waiting[t]
    BY <2>1, RunningDoesNotWait
  <2>4. QED
    BY <1>0, <1>1, <2>1, <2>2, <2>3 DEF schedVars, statusVars, sweepVars, condVars
<1>3. CASE PrepareCheck(t)
  <2>1. PICK l \in {"enter", "main"} : pc' = [pc EXCEPT ![t] = l] /\ UNCHANGED <<target, isrVars>>
    BY <1>3 DEF PrepareCheck
  <2>2. /\ At(t, "prepare") /\ stale' = [stale EXCEPT ![t] = FALSE]
        /\ UNCHANGED <<kernelVars, realTime, met, should>>
        /\ UNCHANGED <<bootVars, schedVars, waitVars, statusVars, sweepVars>>
    BY <1>3 DEF PrepareCheck, kernelVars
  <2>3. KInv' /\ ~waiting[t] /\ t \in Waiters
    BY <1>0, <2>2, KernelStutter, RunningDoesNotWait DEF CondInv, At
  <2>4. QED
    BY <1>0, <1>1, <2>1, <2>2, <2>3 DEF schedVars, waitVars, statusVars, sweepVars
<1>4. CASE SectionEnter(t)
  <2>1. /\ At(t, "enter") /\ pc' = [pc EXCEPT ![t] = "check"] /\ UNCHANGED <<target, isrVars>>
        /\ UNCHANGED condVars
        /\ UNCHANGED <<running, ready, bootVars, waitVars, statusVars, sweepVars>>
        /\ IF realTime THEN UNCHANGED kernelVars ELSE SetLock(lock + 1)
    BY <1>4 DEF SectionEnter, SetLock, kernelVars, schedVars
  <2>2. KInv'
    BY <1>0, <2>1, KernelStutter, SetLockSafe
  <2>3. realTime' => lock' = 0
    BY <1>0, <2>1 DEF condVars, kernelVars, schedVars
  <2>4. ~waiting[t] /\ t \in Waiters
    BY <2>1, RunningDoesNotWait DEF CondInv, At
  <2>5. QED
    BY <1>0, <1>1, <2>1, <2>2, <2>3, <2>4 DEF waitVars, statusVars, sweepVars, condVars
<1>5. CASE CheckDone(t)
  <2>1. PICK what : should' = [should EXCEPT ![t] = what]
    BY <1>5 DEF CheckDone, Leave
  <2>2. /\ At(t, "check") /\ pc' = [pc EXCEPT ![t] = "exit"] /\ UNCHANGED <<target, isrVars>>
        /\ UNCHANGED <<kernelVars, realTime, met, stale>>
        /\ UNCHANGED <<bootVars, schedVars, waitVars, statusVars, sweepVars>>
    BY <1>5 DEF CheckDone, Leave, kernelVars
  <2>3. KInv' /\ ~waiting[t] /\ t \in Waiters
    BY <1>0, <2>2, KernelStutter, RunningDoesNotWait DEF CondInv, At
  <2>4. QED
    BY <1>0, <1>1, <2>1, <2>2, <2>3 DEF schedVars, waitVars, statusVars, sweepVars
<1>6. CASE CheckWait(t)
  <2>1. /\ At(t, "check") /\ ~stale[t] /\ ~met /\ UNCHANGED <<target, isrVars>>
        /\ UNCHANGED <<waiting, bootVars, schedVars, statusVars, sweepVars, realTime, met, stale>>
    BY <1>6 DEF CheckWait, Leave, condVars
  <2>2. ~waiting[t] /\ t \in Waiters
    BY <2>1, RunningDoesNotWait DEF CondInv, At
  <2>3. CASE /\ ret' = [ret EXCEPT ![t] = "OS_CANCELLED"] /\ UNCHANGED event
             /\ Leave(t, "return")
    <3>1. KInv'
      BY <1>0, <2>1, <2>3, WaitFieldsSafe DEF Rets
    <3>2. pc' = [pc EXCEPT ![t] = "exit"] /\ should' = [should EXCEPT ![t] = "return"]
      BY <2>3 DEF Leave
    <3>3. CondWait(t)'
      BY <1>0, <2>1, <2>2, <2>3, <3>2
    <3>4. QED
      BY <1>0, <1>1, <2>1, <2>2, <2>3, <3>1, <3>2, <3>3 DEF schedVars, statusVars, sweepVars
  <2>4. CASE /\ event' = [event EXCEPT ![t] = CondEvent] /\ UNCHANGED <<ret, condVars>>
             /\ Goto(t, "mark")
    <3>1. KInv'
      BY <1>0, <2>1, <2>4, WaitFieldsSafe, ConditionAssumption
    <3>2. CondWait(t)'
      BY <1>0, <2>1, <2>2, <2>4
    <3>3. pc' = [pc EXCEPT ![t] = "mark"] /\ should' = should
      BY <2>4 DEF condVars
    <3>4. QED
      BY <1>0, <1>1, <2>1, <2>2, <2>4, <3>1, <3>2, <3>3 DEF schedVars, statusVars, sweepVars
  <2>5. QED
    BY <1>6, <2>3, <2>4 DEF CheckWait
<1>7. CASE Mark(t)
  <2>1. /\ At(t, "mark") /\ waiting' = [waiting EXCEPT ![t] = TRUE]
        /\ should' = [should EXCEPT ![t] = "wait"]
        /\ pc' = [pc EXCEPT ![t] = "exit"] /\ UNCHANGED <<target, isrVars>>
        /\ UNCHANGED <<event, ret, bootVars, schedVars, statusVars, sweepVars, realTime, met, stale>>
        /\ EventWaitSetWaiting(t)
    BY <1>7 DEF Mark, Leave, EventWaitSetWaiting
  <2>2. KInv'
    BY <1>0, <2>1, EventWaitSetWaitingSafe
  <2>3. t \in Waiters /\ event[t] = CondEvent /\ ~met /\ ~stale[t]
    BY <2>1 DEF CondInv, At
  <2>4. QED
    BY <1>0, <1>1, <2>1, <2>2, <2>3 DEF schedVars, statusVars, sweepVars
<1>8. CASE SectionExit(t)
  <2>1. /\ At(t, "exit") /\ pc' = [pc EXCEPT ![t] = "decide"] /\ UNCHANGED <<target, isrVars>>
        /\ UNCHANGED condVars
        /\ UNCHANGED <<running, ready, bootVars, waitVars, statusVars, sweepVars>>
        /\ IF realTime THEN UNCHANGED kernelVars ELSE SetLock(lock - 1)
    BY <1>8 DEF SectionExit, SetLock, kernelVars, schedVars
  <2>2. ~realTime => lock - 1 \in Nat
    BY <1>0, <2>1 DEF SectionInv, At
  <2>3. KInv'
    BY <1>0, <2>1, <2>2, KernelStutter, SetLockSafe
  <2>4. realTime' => lock' = 0
    BY <1>0, <2>1 DEF condVars, kernelVars, schedVars
  <2>5. CondWait(t)
    BY DEF CondInv
  <2>6. QED
    BY <1>0, <1>1, <2>1, <2>3, <2>4, <2>5 DEF waitVars, statusVars, sweepVars, condVars, At
<1>9. CASE Decide(t)
  <2>1. PICK l \in {"main", "retry", "isCancelled", "perform"} :
          /\ pc' = [pc EXCEPT ![t] = l] /\ UNCHANGED <<target, isrVars>>
          /\ l \in {"main", "retry"} => should[t] # "wait"
    BY <1>9 DEF Decide
  <2>2. /\ At(t, "decide") /\ UNCHANGED <<kernelVars, condVars>>
        /\ UNCHANGED <<bootVars, schedVars, waitVars, statusVars, sweepVars>>
    BY <1>9 DEF Decide, kernelVars
  <2>3. KInv' /\ CondWait(t)
    BY <1>0, <2>2, KernelStutter DEF CondInv
  <2>4. QED
    BY <1>0, <1>1, <2>1, <2>2, <2>3 DEF schedVars, waitVars, statusVars, sweepVars, condVars, At
<1>10. CASE Retry(t) \/ Perform(t)
  <2>1. PICK m \in {"retry", "perform"}, l \in {"prepare", "woken"} :
          /\ At(t, m) /\ pc' = [pc EXCEPT ![t] = l] /\ UNCHANGED <<target, isrVars>>
          /\ m = "retry" <=> l = "prepare"
    BY <1>10 DEF Retry, Perform
  <2>2. PerformContextSwitch /\ UNCHANGED condVars
    BY <1>10 DEF Retry, Perform
  <2>3. lock = 0
    BY <1>0, <2>1 DEF SectionInv, At
  <2>4. /\ KInv' /\ running' \in Members(ready') /\ running = t
        /\ UNCHANGED <<bootVars, lock, event, waiting, statusVars, sweepVars>>
        /\ \A u \in Threads \ {t} : u \in Members(ready') <=> u \in Members(ready)
        /\ waiting[t] /\ t # Idle => t \notin Members(ready')
    BY <1>0, <2>1, <2>2, <2>3, SwitchPicks DEF StartedInv, At
  <2>5. t \in Waiters /\ t # Idle /\ CondWait(t) /\ (m = "retry" => ~waiting[t])
    BY <2>1, ConditionAssumption, RunningDoesNotWait DEF CondInv, At
  <2>6. QED
    BY <1>0, <1>1, <2>1, <2>2, <2>4, <2>5 DEF statusVars, sweepVars, condVars, At
<1>11. CASE IsCancelled(t)
  <2>1. At(t, "isCancelled") /\ UNCHANGED condVars /\ t \in Waiters /\ CondWait(t)
    BY <1>11 DEF IsCancelled, CondInv, At
  <2>2. CASE /\ waiting' = [waiting EXCEPT ![t] = FALSE] /\ event' = [event EXCEPT ![t] = NoEvent]
             /\ Goto(t, "main")
             /\ UNCHANGED <<ret, bootVars, schedVars, statusVars, sweepVars>>
    <3>1. KInv'
      BY <1>0, <2>1, <2>2, WaitFieldsSafe DEF At
    <3>2. QED
      BY <1>0, <1>1, <2>1, <2>2, <3>1 DEF schedVars, statusVars, sweepVars, condVars
  <2>3. CASE Goto(t, "perform") /\ UNCHANGED kernelVars
    <3>1. UNCHANGED <<bootVars, schedVars, waitVars, statusVars, sweepVars>> /\ KInv'
      BY <1>0, <2>3, KernelStutter DEF kernelVars
    <3>2. QED
      BY <1>0, <1>1, <2>1, <2>3, <3>1 DEF schedVars, waitVars, statusVars, sweepVars, condVars, At
  <2>4. QED
    BY <1>11, <2>2, <2>3 DEF IsCancelled
<1>12. CASE Woken(t)
  <2>1. PICK l \in {"main", "prepare"} : pc' = [pc EXCEPT ![t] = l] /\ UNCHANGED <<target, isrVars>>
    BY <1>12 DEF Woken
  <2>2. /\ At(t, "woken") /\ UNCHANGED <<kernelVars, condVars>>
        /\ UNCHANGED <<bootVars, schedVars, waitVars, statusVars, sweepVars>>
    BY <1>12 DEF Woken, kernelVars
  <2>3. KInv' /\ ~waiting[t] /\ t \in Waiters
    BY <1>0, <2>2, KernelStutter, RunningDoesNotWait DEF CondInv, At
  <2>4. QED
    BY <1>0, <1>1, <2>1, <2>2, <2>3 DEF schedVars, waitVars, statusVars, sweepVars, condVars
<1>13. QED
  BY <1>2, <1>3, <1>4, <1>5, <1>6, <1>7, <1>8, <1>9, <1>10, <1>11, <1>12 DEF Wait

\* A step that leaves the waits as they are, and the thread in the section what
\* it has checked.
LEMMA CondQuietKeeps ==
  ASSUME CondInv, SectionInv', StartedInv',
         UNCHANGED <<threads, lock, ready, waiting, event, realTime, should>>,
         DOMAIN stale' = Threads,
         \A t \in Threads :
           /\ pc'[t] = pc[t] \/ {pc[t], pc'[t]} \cap Waiting = {}
           /\ pc[t] = "mark" => (met' => met) /\ stale'[t] = stale[t]
           /\ t \in Waiters => Missed(t)'
  PROVE  CondInv'
<1>1. ASSUME NEW t \in Threads
      PROVE  CondWait(t)'
  BY DEF CondInv, CondWait, Waiting, Section
<1>2. NoMissedCondition'
  BY ConditionAssumption DEF NoMissedCondition, Missed
<1>3. QED
  BY <1>1, <1>2 DEF CondInv

\* The writers and the readers outside of wait().
LEMMA CondOthersKeep ==
  ASSUME CondInv, SectionInv', NEW t \in Threads,
         Notifying(t) \/ Consume(t) \/ \E new \in BOOLEAN : Provide(t, new)
  PROVE  CondInv'
<1>0. /\ t \in Contexts /\ CondEvent \in Events \cup {NoEvent} /\ CondEvent \in Events
      /\ Registered = Threads /\ DOMAIN pc = Threads /\ "event" \in Rets
      /\ sweep \in [Contexts -> Sweeps] /\ DOMAIN stale = Threads
  BY ConditionAssumption, StartedAssumption
     DEF Contexts, CondInv, StartedInv, Registered, Rets, KInv, KernelTypeOK
<1>1. ASSUME NEW l, At(t, l), l \notin Section
      PROVE  \A u \in Threads : pc[u] # "mark"
  BY <1>1, NobodyInside DEF CondInv, Section
<1>2. ASSUME NEW new \in BOOLEAN, Provide(t, new)
      PROVE  CondInv'
  <2>1. /\ At(t, "main") /\ pc' = [pc EXCEPT ![t] = "notify"] /\ UNCHANGED <<isrVars, target>>
        /\ UNCHANGED <<kernelVars, bootVars, schedVars, waitVars, statusVars, sweepVars>>
        /\ UNCHANGED <<realTime, should>> /\ DOMAIN stale' = Threads
    BY <1>0, <1>2 DEF Provide, Provided, Free, Goto, kernelVars
  <2>2. StartedInv'
    BY <2>1, KernelStutter, GotoKeepsStarted DEF CondInv, StartedInv, At, Sweeping,
      schedVars, statusVars, sweepVars
  <2>3. \A u \in Threads : pc[u] # "mark" /\ Missed(u)'
    BY <1>0, <1>1, <2>1 DEF Missed, Section
  <2>4. QED
    BY <1>0, <2>1, <2>2, <2>3, CondQuietKeeps
       DEF At, Waiting, Section, bootVars, schedVars, waitVars
<1>3. CASE Notify(t)
  <2>1. /\ At(t, "notify") /\ pc' = [pc EXCEPT ![t] = "sweep"]
        /\ SweepStart(t, CondEvent, "event")
        /\ UNCHANGED <<isrVars, target, condVars>>
    BY <1>3 DEF Notify, Goto
  <2>2. StartedInv'
    BY <2>1, <1>0, SweepStartKeepsStarted DEF CondInv, Sweeping
  <2>3. UNCHANGED <<bootVars, schedVars, waitVars, statusVars>>
    BY <2>1 DEF SweepStart
  <2>4. \A u \in Threads : sweep'[t].ev = CondEvent /\ AheadIn(t, u)'
    BY <2>1, <1>0, SweepStartAhead DEF CondInv, StartedInv
  <2>5. \A u \in Threads : Missed(u)'
    BY <2>4, <1>0 DEF Missed, NotificationAhead, AheadIn
  <2>6. QED
    BY <2>1, <2>2, <2>3, <2>5, <1>0, CondQuietKeeps
       DEF At, Waiting, Section, bootVars, schedVars, waitVars, condVars
<1>4. CASE NotifyStep(t) /\ SweepStep(t)
  <2>1. pc[t] = "sweep" /\ UNCHANGED <<pc, target, isrVars, condVars>>
    BY <1>4, <1>0 DEF NotifyStep, At, SweepEnd, SweepStep
  <2>2. StartedInv'
    BY <1>4, <2>1, SweepStepKeepsStarted DEF CondInv, Sweeping, threadVars
  <2>3. /\ UNCHANGED <<bootVars, lock>> /\ \A u \in Threads : StepWaits(u)
        /\ \A u \in Contexts \ {t} : sweep'[u] = sweep[u]
    BY <1>0, <1>4, SweepStepWaits DEF CondInv
  <2>4. SweepMoves(t, {})
    BY <1>4, <2>3 DEF SweepMoves, bootVars
  <2>5. \A u \in Threads : CondWait(u)'
    BY <2>1, <2>3 DEF CondInv, CondWait, StepWaits, condVars
  <2>6. NoMissedCondition'
    <3> SUFFICES ASSUME NEW u \in Waiters, waiting'[u], met \/ stale[u]
                 PROVE  \/ \E v \in Threads : pc[v] = "notify"
                        \/ NotificationAhead(u, CondEvent)'
      BY <2>1 DEF NoMissedCondition, condVars
    <3>1. u \in Threads
      BY ConditionAssumption
    <3>2. waiting[u] /\ event[u] = CondEvent /\ ~suspended[u]
      BY <2>3, <3>1 DEF StepWaits, CondInv, CondWait, StartedInv
    <3>3. QED
      BY <1>0, <2>4, <3>1, <3>2, NotificationComes DEF CondInv, NoMissedCondition, StartedInv
  <2>7. QED
    BY <2>1, <2>2, <2>3, <2>5, <2>6 DEF CondInv, condVars
<1>5. CASE NotifyStep(t) /\ SweepEnd(t)
  <2>1. pc[t] = "sweep" /\ pc' = [pc EXCEPT ![t] = "main"] /\ UNCHANGED <<target, isrVars, condVars>>
    BY <1>5 DEF NotifyStep, At, SweepEnd, SweepStep
  <2>2. StartedInv'
    BY <1>5, <2>1, SweepEndKeepsStarted DEF CondInv, Sweeping
  <2>3. /\ UNCHANGED <<bootVars, schedVars, waitVars, statusVars>>
        /\ \A u \in Contexts \ {t} : sweep'[u] = sweep[u]
    BY <1>0, <1>5 DEF SweepEnd
  <2>4. SweepMoves(t, {})
    BY <1>5, <2>3 DEF SweepMoves, bootVars
  <2>5. \A u \in Threads : u \in Waiters => Missed(u)'
    <3> SUFFICES ASSUME NEW u \in Waiters, u \in Threads, waiting[u], met \/ stale[u]
                 PROVE  \/ \E v \in Threads : pc'[v] = "notify"
                        \/ NotificationAhead(u, CondEvent)'
      BY <2>1, <2>3 DEF Missed, condVars, waitVars
    <3>1. event[u] = CondEvent /\ ~suspended[u] /\ waiting'[u]
      BY <2>3 DEF CondInv, CondWait, StartedInv, waitVars
    <3>2. \A v \in Threads : pc[v] = "notify" => pc'[v] = "notify"
      BY <1>0, <2>1
    <3>3. QED
      BY <1>0, <2>4, <3>1, <3>2, NotificationComes DEF CondInv, NoMissedCondition, StartedInv
  <2>6. QED
    BY <2>1, <2>2, <2>3, <2>5, <1>0, CondQuietKeeps
       DEF Waiting, Section, bootVars, schedVars, waitVars, condVars
<1>6. CASE Consume(t)
  <2>1. /\ UNCHANGED <<kernelVars, isrVars, threadVars, realTime, stale, should>> /\ met' = FALSE
        /\ UNCHANGED <<bootVars, schedVars, waitVars, statusVars, sweepVars>>
    BY <1>6 DEF Consume, kernelVars
  <2>2. StartedInv'
    BY <2>1, KernelStutter, StutterKeepsStarted DEF CondInv, StartedInv,
      schedVars, statusVars, sweepVars
  <2>3. \A u \in Threads : u \in Waiters => Missed(u)'
    BY <2>1, AheadUnchanged DEF Missed, CondInv, NoMissedCondition, threadVars, bootVars,
      sweepVars, waitVars
  <2>4. QED
    BY <1>0, <2>1, <2>2, <2>3, CondQuietKeeps DEF threadVars, bootVars, schedVars, waitVars
<1>7. QED
  BY <1>2, <1>3, <1>4, <1>5, <1>6 DEF Notifying, NotifyStep

\* Interrupts that notify the event of the condition.
LEMMA CondInterruptKeeps ==
  ASSUME CondInv, SectionInv', Timeout \/ \E new \in BOOLEAN : IsrProvide(new)
  PROVE  CondInv'
<1>0. /\ Isr \in Contexts /\ CondEvent \in Events /\ Registered = Threads
      /\ sweep \in [Contexts -> Sweeps] /\ {"event", "OS_TIMEOUT"} \subseteq Rets
      /\ DOMAIN stale = Threads
  BY ConditionAssumption, StartedAssumption
     DEF Contexts, CondInv, StartedInv, Registered, KInv, KernelTypeOK, Rets
<1>1. ASSUME NEW r \in {"event", "OS_TIMEOUT"}, IsrNotify(CondEvent, r),
             UNCHANGED <<threadVars, realTime, should>>, DOMAIN stale' = Threads,
             \A u \in Threads : pc[u] = "mark" => met' = met /\ stale' = stale
      PROVE  CondInv'
  <2>1. /\ StartedInv'
        /\ UNCHANGED <<bootVars, schedVars, waitVars, statusVars>>
    BY <1>0, <1>1, IsrNotifyKeepsStarted DEF CondInv
  <2>2. SweepStart(Isr, CondEvent, r)
    BY <1>1 DEF IsrNotify
  <2>3. \A u \in Threads : sweep'[Isr].ev = CondEvent /\ AheadIn(Isr, u)'
    BY <2>2, <1>0, SweepStartAhead DEF CondInv, StartedInv
  <2>4. \A u \in Threads : Missed(u)'
    BY <2>3, <1>0 DEF Missed, NotificationAhead, AheadIn
  <2>5. QED
    BY <1>1, <2>1, <2>4, CondQuietKeeps DEF threadVars, bootVars, schedVars, waitVars
<1>2. CASE Timeout
  BY <1>0, <1>1, <1>2 DEF Timeout, condVars
<1>3. ASSUME NEW new \in BOOLEAN, IsrProvide(new)
      PROVE  CondInv'
  <2>1. \A u \in Threads : pc[u] \notin Section
    BY <1>3 DEF IsrProvide, InterruptEnabled, Critical, CondInv, SectionInv
  <2>2. QED
    BY <1>0, <1>1, <1>3, <2>1 DEF IsrProvide, Provided, Section
<1>4. QED
  BY <1>2, <1>3

\* Everything else.
LEMMA CondKernelKeeps ==
  ASSUME CondInv, SectionInv', StartedStep, UNCHANGED condVars
  PROVE  CondInv'
<1>1. /\ StartedInv' /\ UNCHANGED <<bootVars, lock>>
      /\ \A u \in Threads : StepWaits(u)
      /\ \A u \in Threads : StepStays(u)
  BY StartedStepKeeps DEF CondInv, KeepsObjects
<1>2. ASSUME NEW u \in Threads
      PROVE  CondWait(u)'
  <2>1. StepWaits(u) /\ (pc'[u] = pc[u] \/ {pc[u], pc'[u]} \cap Waiting = {})
    BY <1>1 DEF StepStays, Waiting, Section
  <2>2. QED
    BY <2>1 DEF CondInv, CondWait, StepWaits, Waiting, Section, condVars
<1>3. NoMissedCondition'
  <2> SUFFICES ASSUME NEW u \in Waiters, waiting'[u], met \/ stale[u]
               PROVE  \/ \E v \in Threads : pc'[v] = "notify"
                      \/ NotificationAhead(u, CondEvent)'
    BY DEF NoMissedCondition, condVars
  <2>1. waiting[u] /\ event[u] = CondEvent /\ u \in Threads
    BY <1>1, ConditionAssumption DEF StepWaits, CondInv, CondWait
  <2>2. \A v \in Threads : pc[v] = "notify" => pc'[v] = "notify"
    BY <1>1 DEF StepStays
  <2>3. QED
    BY <2>1, <2>2, StartedStepComes, ConditionAssumption DEF CondInv, NoMissedCondition
<1>4. QED
  BY <1>1, <1>2, <1>3 DEF CondInv, condVars

LEMMA CondStep ==
  ASSUME CondInv, [Next]_vars
  PROVE  CondInv'
<1>0. SectionInv'
  BY SectionStep DEF CondInv
<1>1. CASE UNCHANGED vars
  <2>1. UNCHANGED <<bootVars, schedVars, waitVars, statusVars, sweepVars, isrVars,
                    threadVars, condVars, kernelVars>>
    BY <1>1 DEF vars, kernelVars
  <2>2. StartedInv'
    BY <2>1, KernelStutter, StutterKeepsStarted DEF CondInv, StartedInv,
      schedVars, statusVars, sweepVars
  <2>3. \A u \in Threads : u \in Waiters => Missed(u)'
    BY <2>1, AheadUnchanged DEF Missed, CondInv, NoMissedCondition, threadVars, bootVars,
      sweepVars, waitVars, condVars
  <2>4. QED
    BY <1>0, <2>1, <2>2, <2>3, CondQuietKeeps
       DEF CondInv, threadVars, bootVars, schedVars, waitVars, condVars
<1>2. CASE Kernel
  BY <1>0, <1>2, CondKernelKeeps DEF Kernel, StartedStep
<1>3. QED
  BY <1>0, <1>1, <1>2, CondWaitKeeps, CondOthersKeep, CondInterruptKeeps DEF Next

\* OSCondition::wait: a thread that waits although the condition holds, or
\* although it would have to prepare again, is about to be notified, whatever comes
\* between the check of the condition and the two writes that start the wait.
THEOREM NoConditionIsMissed == Spec => []NoMissedCondition
<1>1. CondInv => NoMissedCondition
  BY DEF CondInv
<1>2. QED
  BY <1>1, CondInitSafe, CondStep, PTL DEF Spec

-----------------------------------------------------------------------------
(***************************************************************************)
(* The reason a wait has ended for.                                        *)
(***************************************************************************)

\* With the scheduler unlocked a thread that does not wait is told nothing, but
\* by its own steps outside of the places KeepsReason is about.
LEMMA ReasonStays ==
  ASSUME CondInv, [Next]_vars, realTime, NEW t \in Threads,
         pc[t] \in {"exit", "decide", "isCancelled", "perform"}, ~waiting[t]
  PROVE  ret'[t] = ret[t]
<1>0. /\ lock = 0 /\ ret \in [Threads -> Rets] /\ StartedInv
      /\ Threads \subseteq Contexts
  BY DEF CondInv, StartedInv, KInv, KernelTypeOK, Contexts
<1>1. CASE UNCHANGED ret
  BY <1>1
<1>2. ASSUME StepWaits(t)
      PROVE  ret'[t] = ret[t]
  BY <1>0, <1>2 DEF StepWaits
<1>3. ASSUME NEW u \in Threads, WaitEnter(u) \/ CheckWait(u)
      PROVE  ret'[t] = ret[t]
  <2>1. u # t
    BY <1>3 DEF WaitEnter, CheckWait, Free, At
  <2>2. QED
    BY <1>0, <1>3, <2>1 DEF WaitEnter, CheckWait
<1>4. ASSUME NEW u \in Threads, Wait(u), ~CheckWait(u)
      PROVE  UNCHANGED ret
  <2>1. CASE PrepareCheck(u) \/ CheckDone(u) \/ Decide(u) \/ Woken(u)
    BY <2>1 DEF PrepareCheck, CheckDone, Decide, Woken, kernelVars, waitVars
  <2>2. CASE SectionEnter(u) \/ SectionExit(u)
    BY <2>2 DEF SectionEnter, SectionExit, SetLock, kernelVars, waitVars
  <2>3. CASE Mark(u) \/ IsCancelled(u)
    BY <2>3 DEF Mark, IsCancelled, EventWaitSetWaiting, kernelVars, waitVars
  <2>4. CASE Retry(u) \/ Perform(u)
    BY <1>0, <2>4 DEF Retry, Perform, PerformContextSwitch
  <2>5. QED
    BY <1>4, <2>1, <2>2, <2>3, <2>4 DEF Wait
<1>5. ASSUME NEW u \in Threads,
             Notifying(u) \/ Consume(u) \/ \E new \in BOOLEAN : Provide(u, new)
      PROVE  ret'[t] = ret[t]
  <2>1. CASE NotifyStep(u) /\ SweepStep(u)
    BY <1>0, <1>2, <2>1, SweepStepWaits
  <2>2. CASE NotifyStep(u) /\ SweepEnd(u)
    BY <1>1, <2>2 DEF SweepEnd, waitVars
  <2>3. CASE Notify(u) \/ Consume(u) \/ \E new \in BOOLEAN : Provide(u, new)
    BY <1>1, <2>3 DEF Notify, Consume, Provide, SweepStart, kernelVars, waitVars
  <2>4. QED
    BY <1>5, <2>1, <2>2, <2>3 DEF Notifying, NotifyStep
<1>6. CASE Timeout \/ \E new \in BOOLEAN : IsrProvide(new)
  BY <1>1, <1>6 DEF Timeout, IsrProvide, IsrNotify, SweepStart, waitVars
<1>7. CASE Kernel
  BY <1>0, <1>2, <1>7, StartedStepKeeps DEF Kernel, StartedStep, KeepsObjects
<1>8. CASE UNCHANGED vars
  BY <1>1, <1>8 DEF vars, kernelVars, waitVars
<1>9. QED
  BY <1>3, <1>4, <1>5, <1>6, <1>7, <1>8 DEF Next

\* OSRealTimeCondition, whose section masks the interrupts instead of locking the
\* scheduler: what ended a wait, a timeout or a cancellation, is not overwritten
\* before the thread has looked at it.
THEOREM RealTimeReasonReachesWait == Spec => RealTimeReasonIsKept
<1>1. CondInv /\ [Next]_vars => [realTime => \A t \in Threads : KeepsReason(t)]_vars
  <2> SUFFICES ASSUME CondInv, [Next]_vars, realTime, NEW t \in Threads
               PROVE  KeepsReason(t)
    OBVIOUS
  <2>1. QED
    BY ReasonStays DEF KeepsReason
<1>2. QED
  BY <1>1, CondInitSafe, CondStep, PTL DEF Spec, RealTimeReasonIsKept

=============================================================================
