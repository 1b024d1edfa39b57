-------------------------- MODULE OSStarted_proofs --------------------------
(***************************************************************************)
(* What the proofs about the synchronisation objects share: the invariant  *)
(* of the kernel as start() leaves it, kept by everything that OSStarted   *)
(* does and by what the threads of an object may do; and that a            *)
(* notification in progress comes to every thread it has not come to yet.  *)
(***************************************************************************)
EXTENDS OSStarted, OSKernel_proofs

\* Where a thread is inside an eventNotify.
Sweeping == {"sweep", "cancelSweep"}

\* Only a thread, or the interrupt, that is inside an eventNotify has a loop.
SweepsQuiet ==
  /\ isrPc \in {"off", "tick"} => sweep[Isr] = NoSweep
  /\ \A t \in Threads : pc[t] \notin Sweeping => sweep[t] = NoSweep

StartedInv ==
  /\ KInv /\ IsrSound /\ isRunning
  /\ threads = Initial
  /\ running \in Members(ready)
  /\ \A t \in Threads : ~suspended[t]
  /\ DOMAIN pc = Threads
  /\ target \in [Threads -> Threads \cup {NoThread}]
  /\ \A t \in Threads : pc[t] = "cancel" => target[t] \in Threads
  /\ SweepsQuiet

\* The steps of OSStarted: the idle thread, interruptions, and the interrupts
\* but those that are an object's.
StartedStep ==
  \/ IdleYield
  \/ \E t \in Threads : StartInterruption(t) \/ Cancel(t) \/ CancelStep(t)
  \/ \E critical : Tick(critical)
  \/ Handler

-----------------------------------------------------------------------------
(***************************************************************************)
(* How many threads a list may hold.                                       *)
(***************************************************************************)

\* A list without duplicates is not longer than the set of its members allows.
LEMMA ListIsShort ==
  ASSUME NEW S, IsFiniteSet(S), NEW list \in Seq(S), NoDuplicates(list)
  PROVE  Len(list) <= Cardinality(S)
<1>1. Len(list) \in Nat /\ list \in [1..Len(list) -> S]
  OBVIOUS
<1>2. list \in Injection(1..Len(list), S)
  BY <1>1 DEF Injection, IsInjective, NoDuplicates
<1>3. Cardinality(1..Len(list)) <= Cardinality(S)
  BY <1>2, FS_Injection
<1>4. Cardinality(1..Len(list)) = Len(list)
  BY SMTT(30), <1>1, FS_Interval
<1>5. QED
  BY <1>3, <1>4

\* There are as many threads as start() found.
LEMMA ThreadsFit ==
  IsFiniteSet(Threads) /\ Cardinality(Threads) <= Len(Initial) /\ Len(Initial) \in Nat
<1>1. PICK n \in Nat : n = Len(Initial) /\ Initial \in [1..n -> Threads]
  BY StartedAssumption
<1>2. Initial \in Surjection(1..n, Threads)
  <2>1. \A v \in Threads : \E i \in 1..n : Initial[i] = v
    BY <1>1, StartedAssumption DEF Members
  <2>2. QED
    BY <1>1, <2>1 DEF Surjection
<1>3. IsFiniteSet(1..n) /\ Cardinality(1..n) = n
  BY SMTT(40), FS_Interval
<1>4. QED
  BY <1>1, <1>2, <1>3, FS_Surjection

-----------------------------------------------------------------------------
(***************************************************************************)
(* The beginning.                                                          *)
(***************************************************************************)

LEMMA StartedInitSafe ==
  ASSUME StartedInit
  PROVE  StartedInv
<1>1. /\ Initial \in Seq(Threads) /\ Len(Initial) \in Nat
      /\ NoDuplicates(Initial) /\ Members(Initial) = Threads
  BY StartedAssumption
<1>2. /\ ready \in Seq(Threads) /\ NoDuplicates(ready) /\ Members(ready) = Threads
  BY <1>1 DEF StartedInit, ReadyAtStart
<1>3. running \in Members(ready)
  BY <1>2, GetTopMember, KernelAssumption DEF StartedInit
<1>4. KernelTypeOK
  <2>1. NoSweep \in Sweeps
    BY DEF NoSweep, Sweeps, Rets
  <2>2. sweep \in [Contexts -> Sweeps]
    BY <2>1 DEF StartedInit
  <2>3. QED
    BY <1>1, <1>2, <1>3, <2>2, KernelAssumption DEF StartedInit, KernelTypeOK, Rets
<1>5. SweepsInRange
  BY <1>1 DEF StartedInit, SweepsInRange, NoSweep
<1>6. StatusSound /\ ReadyListSound /\ NoLostThread
  BY <1>1, <1>2, <1>3, KernelAssumption
     DEF StartedInit, StatusSound, ReadyListSound, NoLostThread, Registered
<1>7. IsrSound /\ SweepsQuiet
  BY DEF StartedInit, IsrSound, SweepsQuiet, Contexts
<1>8. QED
  BY <1>3, <1>4, <1>5, <1>6, <1>7 DEF StartedInit, StartedInv, KInv

-----------------------------------------------------------------------------
(***************************************************************************)
(* The steps.                                                              *)
(***************************************************************************)

\* What a context switch leaves as it is, and that it picks from the list.
LEMMA SwitchPicks ==
  ASSUME KInv, isRunning, running \in Members(ready), PerformContextSwitch
  PROVE  /\ KInv'
         /\ running' \in Members(ready')
         /\ UNCHANGED <<bootVars, lock, event, waiting, statusVars, sweepVars>>
         /\ \A t \in Threads \ {running} : t \in Members(ready') <=> t \in Members(ready)
         /\ lock = 0 => /\ ret' = ret
                        /\ waiting[running] /\ running # Idle => running \notin Members(ready')
<1>1. KInv' /\ UNCHANGED <<bootVars, lock, event, waiting, statusVars, sweepVars>>
  BY PerformContextSwitchSafe DEF PerformContextSwitch
<1>2. CASE lock # 0 /\ UNCHANGED <<ready, running>>
  BY <1>1, <1>2
<1>3. CASE lock = 0 /\ ready' = Rescheduled /\ running' = GetTop(Rescheduled) /\ UNCHANGED ret
  <2>1. GetTop(Rescheduled) \in Members(Rescheduled)
    BY RescheduledList, GetTopMember
  <2>2. QED
    BY <1>1, <1>3, <2>1, RescheduledList
<1>4. QED
  BY <1>2, <1>3 DEF PerformContextSwitch

\* An iteration of eventNotify, or a notification of one thread, leaves all but
\* that thread as it is, and wakes that thread if it does anything.
LEMMA NotifyWakes ==
  ASSUME KInv, NEW t \in Registered, NEW ev, NEW r \in Rets, NotifyThread(t, ev, r)
  PROVE  /\ \A u \in Threads :
              \/ /\ waiting'[u] = waiting[u] /\ event'[u] = event[u] /\ ret'[u] = ret[u]
                 /\ u \in Members(ready') <=> u \in Members(ready)
              \/ /\ u = t /\ Notifiable(t, ev)
                 /\ ~waiting'[u] /\ ret'[u] = r
         /\ Notifiable(t, ev) => ~waiting'[t]
         /\ Members(ready) \subseteq Members(ready')
<1>1. /\ waiting \in [Threads -> BOOLEAN] /\ event \in [Threads -> Events \cup {NoEvent}]
      /\ ret \in [Threads -> Rets] /\ ready \in Seq(Threads) /\ prio \in [Threads -> Nat]
      /\ t \in Threads
  BY GetTopMember DEF KInv, KernelTypeOK, Registered
<1>2. CASE Notifiable(t, ev)
  <2>1. /\ waiting' = [waiting EXCEPT ![t] = FALSE]
        /\ event' = [event EXCEPT ![t] = NoEvent]
        /\ ret' = [ret EXCEPT ![t] = r]
        /\ ready' = Insert(ready, t, prio)
    BY <1>2 DEF NotifyThread
  <2>2. LET new == Insert(ready, t, prio)
        IN  /\ new \in Seq(Threads)
            /\ Members(new) = Members(ready) \cup {t}
            /\ NoDuplicates(ready) => NoDuplicates(new)
    BY <1>1, InsertList
  <2>3. QED
    BY <1>1, <1>2, <2>1, <2>2
<1>3. CASE ~Notifiable(t, ev)
  BY <1>3 DEF NotifyThread
<1>4. QED
  BY <1>2, <1>3

\* The thread that an iteration of eventNotify looks at.
LEMMA SweepStepThread ==
  ASSUME KInv, NEW c \in Contexts, SweepStep(c)
  PROVE  LET s == sweep[c]
             t == threads[s.at + 1]
         IN  /\ s \in Sweeps /\ s.at \in 0..Len(threads) - 1 /\ s.i \in 0..Len(threads) - 1
             /\ t \in Registered
             /\ NotifyThread(t, s.ev, s.ret)
             /\ sweep' = [sweep EXCEPT ![c] = sweep'[c]]
             /\ sweep'[c].ev = s.ev /\ sweep'[c].ret = s.ret /\ sweep'[c].i = s.i + 1
             /\ sweep'[c].at = IF RoundRobinNotify THEN NextIndex(s.at) ELSE s.at + 1
             /\ UNCHANGED <<isPreemptive, running, lock, notifyIndex, bootVars, statusVars>>
<1> DEFINE s == sweep[c]
           t == threads[s.at + 1]
           hit == s.first = -1 /\ Notifiable(t, s.ev)
           new == [s EXCEPT !.i = s.i + 1,
                     !.at = IF RoundRobinNotify THEN NextIndex(s.at) ELSE s.at + 1,
                     !.first = IF hit THEN s.at ELSE s.first]
<1>1. /\ ~SweepDone(c)
      /\ NotifyThread(t, s.ev, s.ret)
      /\ sweep' = [sweep EXCEPT ![c] = new]
      /\ UNCHANGED <<isPreemptive, running, lock, notifyIndex, bootVars, statusVars>>
  BY DEF SweepStep
<1>2. /\ sweep \in [Contexts -> Sweeps] /\ s \in Sweeps
      /\ threads \in Seq(Threads) /\ Len(threads) \in Nat
      /\ s.i \in Nat /\ s.at \in Nat
  BY DEF KInv, KernelTypeOK, Sweeps
<1>3. s.i < Len(threads)
  BY <1>1, <1>2 DEF SweepDone
<1>4. s.at < Len(threads)
  BY <1>2, <1>3 DEF KInv, SweepsInRange
<1>5. t \in Registered
  BY <1>2, <1>4 DEF Registered, Members
<1>6. /\ sweep'[c] = new
      /\ new.ev = s.ev /\ new.ret = s.ret /\ new.i = s.i + 1
      /\ new.at = IF RoundRobinNotify THEN NextIndex(s.at) ELSE s.at + 1
  BY <1>1, <1>2 DEF Sweeps
<1>7. sweep' = [sweep EXCEPT ![c] = sweep'[c]]
  BY <1>1, <1>6
<1> HIDE DEF new
<1>8. QED
  BY <1>1, <1>2, <1>3, <1>4, <1>5, <1>6, <1>7

\* A step of a thread that is not inside an eventNotify and does not enter one.
LEMMA GotoKeepsStarted ==
  ASSUME StartedInv, KInv', running' \in Members(ready'),
         UNCHANGED <<bootVars, suspended, sweep, isrVars, target>>,
         NEW t \in Threads, pc[t] \notin Sweeping,
         NEW l, l \notin Sweeping \cup {"cancel"}, pc' = [pc EXCEPT ![t] = l]
  PROVE  StartedInv'
BY DEF StartedInv, SweepsQuiet, IsrSound, isrVars, bootVars

\* A step that changes nothing of this.
LEMMA StutterKeepsStarted ==
  ASSUME StartedInv, KInv', running' \in Members(ready'),
         UNCHANGED <<bootVars, suspended, sweep, isrVars, threadVars>>
  PROVE  StartedInv'
BY DEF StartedInv, SweepsQuiet, IsrSound, isrVars, bootVars, threadVars

\* A thread enters an eventNotify.
LEMMA SweepStartKeepsStarted ==
  ASSUME StartedInv, NEW t \in Threads, NEW ev \in Events \cup {NoEvent}, NEW r \in Rets,
         SweepStart(t, ev, r), NEW l \in Sweeping, pc' = [pc EXCEPT ![t] = l],
         UNCHANGED <<isrVars, target>>
  PROVE  StartedInv'
<1>1. KInv'
  BY SweepStartSafe DEF StartedInv, Contexts
<1>2. UNCHANGED <<bootVars, schedVars, waitVars, statusVars>>
  BY DEF SweepStart
<1>3. sweep \in [Contexts -> Sweeps] /\ t # Isr /\ Isr \in Contexts /\ Threads \subseteq Contexts
  BY KernelAssumption DEF StartedInv, KInv, KernelTypeOK, Contexts
<1>4. sweep'[Isr] = sweep[Isr] /\ \A u \in Threads \ {t} : sweep'[u] = sweep[u]
  BY <1>3 DEF SweepStart
<1>5. SweepsQuiet'
  BY <1>3, <1>4 DEF StartedInv, SweepsQuiet, isrVars, Sweeping
<1>6. QED
  BY <1>1, <1>2, <1>5 DEF StartedInv, IsrSound, isrVars, bootVars, schedVars, statusVars, Sweeping

\* A thread goes on with its eventNotify, or returns from it.
LEMMA SweepStepKeepsStarted ==
  ASSUME StartedInv, NEW t \in Threads, pc[t] \in Sweeping,
         SweepStep(t), UNCHANGED <<isrVars, threadVars>>
  PROVE  StartedInv'
<1>1. KInv'
  BY SweepStepSafe DEF StartedInv, Contexts
<1>2. t \in Contexts /\ t # Isr /\ Isr \in Contexts /\ Threads \subseteq Contexts
  BY KernelAssumption DEF Contexts
<1>3. /\ sweep' = [sweep EXCEPT ![t] = sweep'[t]] /\ UNCHANGED <<running, bootVars, statusVars>>
      /\ Members(ready) \subseteq Members(ready')
  BY <1>2, SweepStepThread, NotifyWakes DEF StartedInv, Sweeps
<1>4. sweep'[Isr] = sweep[Isr] /\ \A u \in Threads \ {t} : sweep'[u] = sweep[u]
  BY <1>2, <1>3 DEF StartedInv, KInv, KernelTypeOK
<1>5. SweepsQuiet'
  BY <1>4 DEF StartedInv, SweepsQuiet, isrVars, threadVars
<1>6. QED
  BY <1>1, <1>3, <1>5 DEF StartedInv, IsrSound, isrVars, threadVars, bootVars, statusVars

LEMMA SweepEndKeepsStarted ==
  ASSUME StartedInv, NEW t \in Threads, pc[t] \in Sweeping, SweepEnd(t),
         NEW l, l # "cancel", pc' = [pc EXCEPT ![t] = l],
         UNCHANGED <<isrVars, target>>
  PROVE  StartedInv'
<1>1. KInv'
  BY SweepEndSafe DEF StartedInv, Contexts
<1>2. t \in Contexts /\ t # Isr /\ Isr \in Contexts /\ Threads \subseteq Contexts
  BY KernelAssumption DEF Contexts
<1>3. /\ sweep' = [sweep EXCEPT ![t] = NoSweep]
      /\ UNCHANGED <<bootVars, schedVars, waitVars, statusVars>>
  BY DEF SweepEnd
<1>4. /\ sweep'[Isr] = sweep[Isr] /\ \A u \in Threads \ {t} : sweep'[u] = sweep[u]
      /\ sweep'[t] = NoSweep
  BY <1>2, <1>3 DEF StartedInv, KInv, KernelTypeOK
<1>5. SweepsQuiet'
  BY <1>4 DEF StartedInv, SweepsQuiet, isrVars
<1>6. QED
  BY <1>1, <1>3, <1>5 DEF StartedInv, IsrSound, isrVars, bootVars, schedVars, statusVars

-----------------------------------------------------------------------------
(***************************************************************************)
(* What the steps of OSStarted preserve.                                   *)
(***************************************************************************)

\* Thread u goes on waiting or not waiting, and stays off the ready list if it
\* waits and is off it; or an eventNotify wakes it.
StepWaits(u) ==
  \/ /\ waiting'[u] = waiting[u] /\ event'[u] = event[u]
     /\ lock = 0 => ret'[u] = ret[u]
     /\ waiting[u] /\ u \notin Members(ready) => u \notin Members(ready')
  \/ /\ waiting[u] /\ ~waiting'[u]
     /\ \E c \in Contexts :
          sweep[c].ev = event[u] /\ sweep[c].ev # NoEvent /\ ret'[u] = sweep[c].ret

\* A thread that is in a call of an object stays where it is.
StepStays(u) ==
  /\ pc'[u] = pc[u] \/ {pc[u], pc'[u]} \subseteq {"main", "cancel", "cancelSweep"}
  /\ pc[u] \notin {"main", "cancel", "cancelSweep"} => sweep'[u] = sweep[u]

\* What an object may rely on while something else than its own threads moves.
KeepsObjects ==
  /\ StartedInv'
  /\ UNCHANGED <<bootVars, lock>>
  /\ \A u \in Threads : StepWaits(u)

\* A context switch in which the running thread is not put to sleep by it.
LEMMA SwitchWaits ==
  ASSUME StartedInv, PerformContextSwitch
  PROVE  /\ KInv' /\ running' \in Members(ready')
         /\ UNCHANGED <<bootVars, lock, suspended, sweep>>
         /\ \A u \in Threads : StepWaits(u)
<1>1. /\ KInv' /\ running' \in Members(ready')
      /\ UNCHANGED <<bootVars, lock, event, waiting, statusVars, sweepVars>>
      /\ \A t \in Threads \ {running} : t \in Members(ready') <=> t \in Members(ready)
      /\ lock = 0 => ret' = ret
  BY SwitchPicks DEF StartedInv
<1>2. running \in Members(ready)
  BY DEF StartedInv
<1>3. QED
  BY <1>1, <1>2 DEF StepWaits, statusVars, sweepVars

\* So for the waits of an iteration of eventNotify.
LEMMA SweepStepWaits ==
  ASSUME StartedInv, NEW c \in Contexts, SweepStep(c)
  PROVE  /\ KInv' /\ running' \in Members(ready')
         /\ UNCHANGED <<bootVars, lock, suspended>>
         /\ \A u \in Contexts \ {c} : sweep'[u] = sweep[u]
         /\ \A u \in Threads : StepWaits(u)
<1>1. KInv'
  BY SweepStepSafe DEF StartedInv
<1> DEFINE s == sweep[c]
           t == threads[s.at + 1]
<1>2. /\ s \in Sweeps /\ t \in Registered /\ NotifyThread(t, s.ev, s.ret)
      /\ sweep' = [sweep EXCEPT ![c] = sweep'[c]]
      /\ UNCHANGED <<running, lock, bootVars, statusVars>>
  BY SweepStepThread DEF StartedInv
<1>3. s.ret \in Rets
  BY <1>2 DEF Sweeps
<1> HIDE DEF s, t
<1>4. /\ \A u \in Threads :
           \/ /\ waiting'[u] = waiting[u] /\ event'[u] = event[u] /\ ret'[u] = ret[u]
              /\ u \in Members(ready') <=> u \in Members(ready)
           \/ u = t /\ Notifiable(t, s.ev) /\ ~waiting'[u] /\ ret'[u] = s.ret
      /\ Members(ready) \subseteq Members(ready')
  BY <1>2, <1>3, NotifyWakes DEF StartedInv
<1>5. \A u \in Threads : StepWaits(u)
  BY <1>4 DEF StepWaits, Notifiable, s
<1>6. sweep \in [Contexts -> Sweeps]
  BY DEF StartedInv, KInv, KernelTypeOK
<1>7. QED
  BY <1>1, <1>2, <1>4, <1>5, <1>6 DEF StartedInv, statusVars

LEMMA QuietWaits ==
  ASSUME UNCHANGED <<schedVars, waitVars>>
  PROVE  \A u \in Threads : StepWaits(u)
BY DEF StepWaits, schedVars, waitVars

LEMMA IdleYieldKeeps ==
  ASSUME StartedInv, IdleYield
  PROVE  KeepsObjects /\ \A u \in Threads : StepStays(u)
<1>1. PerformContextSwitch /\ UNCHANGED <<threadVars, isrVars>>
  BY DEF IdleYield
<1>2. QED
  BY <1>1, SwitchWaits, StutterKeepsStarted DEF KeepsObjects, StepStays, threadVars

LEMMA InterruptionKeeps ==
  ASSUME StartedInv, NEW t \in Threads, StartInterruption(t)
  PROVE  KeepsObjects /\ \A u \in Threads : StepStays(u)
<1>1. CASE AckInterruption(t)
  <2>1. SetInterruption(t, FALSE) /\ UNCHANGED <<threadVars, isrVars>>
    BY <1>1 DEF AckInterruption
  <2>2. KInv'
    BY <2>1, SetInterruptionSafe DEF StartedInv
  <2>3. UNCHANGED <<suspended, bootVars, schedVars, waitVars, sweepVars>>
    BY <2>1 DEF SetInterruption
  <2>4. StartedInv'
    BY <2>1, <2>2, <2>3, StutterKeepsStarted DEF StartedInv, schedVars, sweepVars
  <2>5. QED
    BY <2>1, <2>3, <2>4, QuietWaits DEF KeepsObjects, StepStays, threadVars, schedVars, sweepVars
<1>2. ASSUME NEW u \in Threads, RequestInterruption(t, u)
      PROVE  KeepsObjects /\ \A v \in Threads : StepStays(v)
  <2>1. /\ SetInterruption(u, TRUE) /\ pc[t] = "main"
        /\ target' = [target EXCEPT ![t] = u]
        /\ pc' = [pc EXCEPT ![t] = "cancel"]
        /\ UNCHANGED isrVars
    BY <1>2 DEF RequestInterruption, Free, At
  <2>2. KInv'
    BY <2>1, SetInterruptionSafe DEF StartedInv
  <2>3. UNCHANGED <<suspended, bootVars, schedVars, waitVars, sweepVars>>
    BY <2>1 DEF SetInterruption
  <2>4. StartedInv'
    BY <2>1, <2>2, <2>3 DEF StartedInv, SweepsQuiet, Sweeping, IsrSound, isrVars,
      schedVars, sweepVars, bootVars
  <2>5. \A v \in Threads : StepStays(v)
    BY <2>1, <2>3 DEF StartedInv, StepStays, sweepVars
  <2>6. QED
    BY <2>3, <2>4, <2>5, QuietWaits DEF KeepsObjects, schedVars
<1>3. QED
  BY <1>1, <1>2 DEF StartInterruption

LEMMA CancelKeeps ==
  ASSUME StartedInv, NEW t \in Threads, Cancel(t)
  PROVE  KeepsObjects /\ \A u \in Threads : StepStays(u)
<1>0. pc[t] = "cancel" /\ target[t] \in Threads
  BY DEF Cancel, At, StartedInv
<1>1. CASE SweepStart(t, event[target[t]], "OS_CANCELLED") /\ Goto(t, "cancelSweep")
  <2>1. event[target[t]] \in Events \cup {NoEvent} /\ "OS_CANCELLED" \in Rets
    BY <1>0 DEF StartedInv, KInv, KernelTypeOK, Rets
  <2>2. StartedInv'
    BY <1>1, <2>1, SweepStartKeepsStarted DEF Goto, Sweeping
  <2>3. /\ UNCHANGED <<bootVars, schedVars, waitVars>>
        /\ \A u \in Threads \ {t} : sweep'[u] = sweep[u]
    BY <1>1 DEF SweepStart, StartedInv, KInv, KernelTypeOK, Contexts
  <2>4. \A u \in Threads : StepStays(u)
    BY <1>0, <1>1, <2>3 DEF StepStays, Goto, StartedInv
  <2>5. QED
    BY <2>2, <2>3, <2>4, QuietWaits DEF KeepsObjects, schedVars
<1>2. CASE UNCHANGED kernelVars /\ Goto(t, "main")
  <2>1. UNCHANGED <<bootVars, schedVars, waitVars, statusVars, sweepVars>>
    BY <1>2 DEF kernelVars
  <2>2. KInv' /\ running' \in Members(ready')
    BY <1>2, <2>1, KernelStutter DEF StartedInv, schedVars
  <2>3. StartedInv'
    BY <1>0, <1>2, <2>1, <2>2, GotoKeepsStarted DEF Goto, Sweeping, statusVars, sweepVars
  <2>4. \A u \in Threads : StepStays(u)
    BY <1>0, <1>2, <2>1 DEF StepStays, Goto, StartedInv, sweepVars
  <2>5. QED
    BY <2>1, <2>3, <2>4, QuietWaits DEF KeepsObjects, schedVars
<1>3. QED
  BY <1>1, <1>2 DEF Cancel

LEMMA CancelStepKeeps ==
  ASSUME StartedInv, NEW t \in Threads, CancelStep(t)
  PROVE  KeepsObjects /\ \A u \in Threads : StepStays(u)
<1>0. pc[t] = "cancelSweep" /\ t \in Contexts /\ UNCHANGED isrVars
  BY DEF CancelStep, At, Contexts
<1>1. CASE SweepStep(t) /\ UNCHANGED threadVars
  <2>1. StartedInv'
    BY <1>0, <1>1, SweepStepKeepsStarted DEF Sweeping
  <2>2. /\ UNCHANGED <<bootVars, lock>>
        /\ \A u \in Contexts \ {t} : sweep'[u] = sweep[u]
        /\ \A u \in Threads : StepWaits(u)
    BY <1>0, <1>1, SweepStepWaits
  <2>3. QED
    BY <1>0, <1>1, <2>1, <2>2 DEF KeepsObjects, StepStays, threadVars, Contexts
<1>2. CASE SweepEnd(t) /\ pc' = [pc EXCEPT ![t] = "main"] /\ UNCHANGED target
  <2>1. StartedInv'
    BY <1>0, <1>2, SweepEndKeepsStarted DEF Sweeping
  <2>2. /\ UNCHANGED <<bootVars, schedVars, waitVars>>
        /\ \A u \in Threads \ {t} : sweep'[u] = sweep[u]
    BY <1>2 DEF SweepEnd, StartedInv, KInv, KernelTypeOK, Contexts
  <2>3. \A u \in Threads : StepStays(u)
    BY <1>0, <1>2, <2>2 DEF StepStays, StartedInv
  <2>4. QED
    BY <2>1, <2>2, <2>3, QuietWaits DEF KeepsObjects, schedVars
<1>3. QED
  BY <1>1, <1>2 DEF CancelStep

LEMMA TickKeeps ==
  ASSUME StartedInv, NEW critical, Tick(critical)
  PROVE  KeepsObjects /\ \A u \in Threads : StepStays(u)
<1>1. /\ isrPc = "off" /\ IsrGoto("tick", 0) /\ UNCHANGED threadVars
      /\ UNCHANGED <<bootVars, schedVars, waitVars, statusVars, sweepVars>>
      /\ UNCHANGED kernelVars
  BY DEF Tick, IsrTick, kernelVars
<1>2. KInv'
  BY <1>1, KernelStutter DEF StartedInv
<1>3. StartedInv'
  BY <1>1, <1>2 DEF StartedInv, SweepsQuiet, IsrSound, IsrGoto, threadVars, bootVars,
    schedVars, statusVars, sweepVars
<1>4. QED
  BY <1>1, <1>3, QuietWaits DEF KeepsObjects, StepStays, threadVars, schedVars, sweepVars

LEMMA InterruptHandlerKeeps ==
  ASSUME StartedInv, Handler
  PROVE  KeepsObjects /\ \A u \in Threads : StepStays(u)
<1>0. /\ UNCHANGED threadVars /\ HandlerStep
      /\ Isr \in Contexts /\ Threads \subseteq Contexts \ {Isr}
  BY KernelAssumption DEF Handler, Contexts
<1>1. KInv' /\ IsrSound' /\ isRunning'
  BY <1>0, HandlerStepSafe DEF StartedInv
<1>2. ASSUME UNCHANGED <<bootVars, lock, suspended>>, running' \in Members(ready'),
             \A u \in Threads : sweep'[u] = sweep[u],
             \A u \in Threads : StepWaits(u),
             isrPc' \in {"off", "tick"} => sweep'[Isr] = NoSweep
      PROVE  KeepsObjects /\ \A u \in Threads : StepStays(u)
  <2>1. SweepsQuiet'
    BY <1>0, <1>2 DEF SweepsQuiet, StartedInv, threadVars
  <2>2. StartedInv'
    BY <1>0, <1>1, <1>2, <2>1 DEF StartedInv, threadVars, bootVars
  <2>3. QED
    BY <1>0, <1>2, <2>2 DEF KeepsObjects, StepStays, threadVars
<1>3. sweep \in [Contexts -> Sweeps]
  BY DEF StartedInv, KInv, KernelTypeOK
<1>4. CASE TickThread
  <2>1. \/ /\ SweepStart(Isr, event[threads[isrIdx + 1]], "OS_CANCELLED")
           /\ isrPc' = "cancel"
        \/ /\ UNCHANGED <<bootVars, schedVars, waitVars, statusVars, sweepVars>>
           /\ isrPc = "tick"
    BY <1>4 DEF TickThread, IsrGoto, kernelVars
  <2>2. /\ UNCHANGED <<bootVars, schedVars, waitVars, statusVars>>
        /\ \A u \in Threads : sweep'[u] = sweep[u]
        /\ isrPc' \in {"off", "tick"} => sweep'[Isr] = NoSweep
    BY <1>0, <1>3, <2>1 DEF SweepStart, StartedInv, SweepsQuiet, sweepVars
  <2>3. QED
    BY <1>2, <2>2, QuietWaits DEF StartedInv, schedVars, statusVars
<1>5. CASE IsrSweepStep
  <2>1. SweepStep(Isr) /\ isrPc' \notin {"off", "tick"}
    BY <1>5 DEF IsrSweepStep, isrVars
  <2>2. QED
    BY <1>0, <1>2, <2>1, SweepStepWaits
<1>6. CASE TickCancelled \/ IsrNotified
  <2>1. SweepEnd(Isr)
    BY <1>6 DEF TickCancelled, IsrNotified
  <2>2. /\ UNCHANGED <<bootVars, schedVars, waitVars, statusVars>>
        /\ \A u \in Threads : sweep'[u] = sweep[u]
        /\ sweep'[Isr] = NoSweep
    BY <1>0, <1>3, <2>1 DEF SweepEnd
  <2>3. QED
    BY <1>2, <2>2, QuietWaits DEF StartedInv, schedVars, statusVars
<1>7. CASE IsrExit
  <2>1. /\ isrPc = "tick"
        /\ PerformContextSwitch \/ UNCHANGED <<bootVars, schedVars, waitVars, statusVars, sweepVars>>
    BY <1>7 DEF IsrExit, kernelVars
  <2>2. /\ UNCHANGED <<bootVars, lock, suspended, sweep>> /\ running' \in Members(ready')
        /\ \A u \in Threads : StepWaits(u)
    BY <2>1, SwitchWaits, QuietWaits DEF StartedInv, schedVars, statusVars, sweepVars
  <2>3. QED
    BY <1>2, <2>1, <2>2 DEF StartedInv, SweepsQuiet
<1>8. QED
  BY <1>0, <1>4, <1>5, <1>6, <1>7 DEF HandlerStep

\* Every step of OSStarted.
LEMMA StartedStepKeeps ==
  ASSUME StartedInv, StartedStep
  PROVE  KeepsObjects /\ \A u \in Threads : StepStays(u)
BY IdleYieldKeeps, InterruptionKeeps, CancelKeeps, CancelStepKeeps, TickKeeps,
   InterruptHandlerKeeps DEF StartedStep

\* A device notifies an event.
LEMMA IsrNotifyKeepsStarted ==
  ASSUME StartedInv, NEW ev \in Events, NEW r \in Rets, IsrNotify(ev, r),
         UNCHANGED threadVars
  PROVE  /\ StartedInv'
         /\ UNCHANGED <<bootVars, schedVars, waitVars, statusVars>>
         /\ \A u \in Threads : sweep'[u] = sweep[u]
<1>1. KInv' /\ IsrSound' /\ UNCHANGED isRunning
  BY IsrNotifySafe DEF StartedInv
<1>2. /\ UNCHANGED <<bootVars, schedVars, waitVars, statusVars>>
      /\ \A u \in Threads : sweep'[u] = sweep[u]
      /\ isrPc' = "notify"
  BY KernelAssumption DEF IsrNotify, IsrGoto, SweepStart, StartedInv, KInv, KernelTypeOK, Contexts
<1>3. SweepsQuiet'
  BY <1>2 DEF SweepsQuiet, StartedInv, threadVars
<1>4. QED
  BY <1>1, <1>2, <1>3 DEF StartedInv, threadVars, bootVars, schedVars, statusVars

-----------------------------------------------------------------------------
(***************************************************************************)
(* A notification in progress comes to every thread.                       *)
(***************************************************************************)

LEMMA Wrapped ==
  ASSUME NEW n \in Nat, NEW a \in 0..n - 1, NEW k \in 0..n - 1
  PROVE  (a + k) % n = IF a + k < n THEN a + k ELSE a + k - n
OBVIOUS

\* At its start it has not come to anybody.
LEMMA SweepStartAhead ==
  ASSUME KInv, NEW c \in Contexts, NEW ev, NEW r, SweepStart(c, ev, r),
         NEW t \in Registered
  PROVE  sweep'[c].ev = ev /\ AheadIn(c, t)'
<1> DEFINE a == IF RoundRobinNotify THEN notifyIndex ELSE 0
           n == Len(threads)
<1>1. /\ sweep'[c] = [NoSweep EXCEPT !.ev = ev, !.ret = r, !.at = a]
      /\ threads' = threads
  BY DEF SweepStart, bootVars, KInv, KernelTypeOK
<1>2. sweep'[c].ev = ev /\ sweep'[c].at = a /\ sweep'[c].i = 0
  BY <1>1 DEF NoSweep
<1>3. PICK i \in 1..n : threads[i] = t
  BY DEF Registered, Members
<1>4. n \in Nat /\ a \in 0..n - 1
  BY <1>3 DEF KInv, KernelTypeOK, SweepsInRange
<1> DEFINE k == IF a <= i - 1 THEN i - 1 - a ELSE i - 1 - a + n
<1>5. k \in 0..n - 1
  BY <1>3, <1>4
<1>6. (a + k) % n = i - 1
  <2>1. n \in Nat /\ k \in Int
    BY <1>3, <1>4
  <2>2. (a + k) % n = IF a + k < n THEN a + k ELSE a + k - n
    BY <1>4, <1>5, <2>1, Wrapped
  <2>3. CASE a <= i - 1
    BY <1>3, <1>4, <2>1, <2>2, <2>3
  <2>4. CASE ~(a <= i - 1)
    BY <1>3, <1>4, <2>1, <2>2, <2>4
  <2>5. QED
    BY <2>3, <2>4
<1>7. \E m \in 0..n - 1 : (a + m) % n = i - 1
  BY <1>5, <1>6
<1> HIDE DEF k
<1>8. PICK m \in 0..n - 1 : (a + m) % n = i - 1
  BY <1>7
<1> HIDE DEF a
<1>9. /\ Len(threads') = n /\ n - 1 - 0 = n - 1
      /\ threads'[((sweep'[c].at + m) % n) + 1] = t
  BY <1>1, <1>2, <1>3, <1>4, <1>8
<1>10. QED
  BY <1>2, <1>8, <1>9 DEF AheadIn

\* At its end it has come to everybody.
LEMMA SweepDoneAhead ==
  ASSUME KInv, NEW c \in Contexts, SweepDone(c), NEW t
  PROVE  ~AheadIn(c, t)
<1>1. sweep[c].i \in Nat /\ Len(threads) \in Nat /\ sweep[c].i >= Len(threads)
  BY DEF KInv, KernelTypeOK, Sweeps, SweepDone
<1>2. QED
  BY <1>1 DEF AheadIn

\* In between it comes to them one by one.
LEMMA SweepStepAhead ==
  ASSUME KInv, NEW c \in Contexts, SweepStep(c), NEW t, AheadIn(c, t)
  PROVE  t = threads[sweep[c].at + 1] \/ AheadIn(c, t)'
<1> DEFINE s == sweep[c]
           n == Len(threads)
           next == sweep'[c]
<1>1. /\ s \in Sweeps /\ s.at \in 0..n - 1 /\ s.i \in 0..n - 1
      /\ next.i = s.i + 1
      /\ next.at = IF RoundRobinNotify THEN NextIndex(s.at) ELSE s.at + 1
      /\ UNCHANGED bootVars
  BY SweepStepThread
<1>2. n \in Nat /\ threads' = threads
  BY <1>1 DEF KInv, KernelTypeOK, bootVars
<1>3. PICK k \in 0..n - 1 - s.i : threads[((s.at + k) % n) + 1] = t
  BY DEF AheadIn
<1> SUFFICES t = threads[s.at + 1]
             \/ \E m \in 0..n - 1 - next.i : threads[((next.at + m) % n) + 1] = t
  BY <1>2 DEF AheadIn
<1> HIDE DEF s, n, next
<1>4. k \in 0..n - 1
  BY <1>1, <1>2, <1>3
<1>5. (s.at + k) % n = IF s.at + k < n THEN s.at + k ELSE s.at + k - n
  BY <1>4, <1>1, <1>2, Wrapped
<1>6. CASE k = 0
  <2>1. (s.at + k) % n = s.at
    BY <1>1, <1>2, <1>6, <1>5
  <2>2. QED
    BY <1>3, <2>1
<1>7. CASE k # 0
  <2>1. k - 1 \in 0..n - 1 - next.i /\ k \in 0..n - 1 /\ k - 1 \in 0..n - 1
    BY <1>1, <1>2, <1>3, <1>7
  <2>2. CASE next.at = s.at + 1
    <3>1. next.at + (k - 1) = s.at + k
      BY <1>1, <1>3, <2>2
    <3>2. QED
      BY <1>3, <2>1, <3>1
  <2>3. CASE next.at = 0 /\ s.at = n - 1
    <3>1. (s.at + k) % n = k - 1
      BY <1>2, <1>7, <2>1, <2>3, <1>5
    <3>2. next.at \in 0..n - 1
      BY <1>2, <2>1, <2>3
    <3>3. (next.at + (k - 1)) % n =
             IF next.at + (k - 1) < n THEN next.at + (k - 1) ELSE next.at + (k - 1) - n
      BY <1>2, <2>1, <3>2, Wrapped
    <3>4. (next.at + (k - 1)) % n = k - 1
      BY <1>2, <2>1, <2>3, <3>3
    <3>5. QED
      BY <1>3, <2>1, <3>1, <3>4
  <2>4. QED
    BY <1>1, <1>2, <2>2, <2>3 DEF NextIndex, n
<1>8. QED
  BY <1>6, <1>7

\* A step of the kernel moves at most one of the loops; rets are the values
\* that may be sent by one that begins.
SweepMoves(c, rets) ==
  /\ UNCHANGED threads
  /\ \A d \in Contexts \ {c} : sweep'[d] = sweep[d]
  /\ \/ sweep'[c] = sweep[c]
     \/ sweep[c] = NoSweep /\ sweep'[c].ret \in rets
     \/ SweepStep(c)
     \/ SweepEnd(c)

\* So what is on its way to a thread that waits stays on its way until it is
\* there.
LEMMA AheadComes ==
  ASSUME KInv, NEW c \in Contexts, NEW rets, SweepMoves(c, rets),
         NEW d \in Contexts, NEW t \in Threads, NEW ev \in Events,
         waiting[t], ~suspended[t], event[t] = ev, sweep[d].ev = ev, AheadIn(d, t)
  PROVE  ~waiting'[t] \/ (sweep'[d].ev = ev /\ AheadIn(d, t)')
<1>1. CASE sweep'[d] = sweep[d]
  BY <1>1 DEF AheadIn, SweepMoves
<1>2. CASE d = c /\ sweep[c] = NoSweep
  BY <1>2, KernelAssumption DEF NoSweep
<1>3. CASE d = c /\ SweepStep(c)
  <2>1. t = threads[sweep[c].at + 1] \/ AheadIn(c, t)'
    BY <1>3, SweepStepAhead
  <2>2. /\ sweep[c] \in Sweeps /\ sweep'[c].ev = sweep[c].ev
        /\ threads[sweep[c].at + 1] \in Registered
        /\ NotifyThread(threads[sweep[c].at + 1], sweep[c].ev, sweep[c].ret)
    BY <1>3, SweepStepThread
  <2>3. t = threads[sweep[c].at + 1] => ~waiting'[t]
    BY <1>3, <2>2, NotifyWakes, KernelAssumption DEF Notifiable, Sweeps
  <2>4. QED
    BY <1>3, <2>1, <2>2, <2>3
<1>4. CASE d = c /\ SweepEnd(c)
  BY <1>4, SweepDoneAhead DEF SweepEnd
<1>5. QED
  BY <1>1, <1>2, <1>3, <1>4 DEF SweepMoves

LEMMA NotificationComes ==
  ASSUME KInv, NEW c \in Contexts, NEW rets, SweepMoves(c, rets), NEW t \in Threads, NEW ev \in Events,
         waiting[t], ~suspended[t], event[t] = ev, NotificationAhead(t, ev)
  PROVE  ~waiting'[t] \/ NotificationAhead(t, ev)'
<1>1. PICK d \in Contexts : sweep[d].ev = ev /\ AheadIn(d, t)
  BY DEF NotificationAhead
<1>2. CASE ~waiting'[t]
  BY <1>2
<1>3. CASE sweep'[d].ev = ev /\ AheadIn(d, t)'
  BY <1>3 DEF AheadIn, NotificationAhead
<1>4. QED
  BY <1>1, <1>2, <1>3, AheadComes

\* The value an eventNotify in progress sends.
RetsIn(rets) ==
  \A c \in Contexts : sweep[c].ev # NoEvent => sweep[c].ret \in rets

LEMMA RetsStay ==
  ASSUME KInv, NEW c \in Contexts, NEW some, SweepMoves(c, some), NEW rets,
         some \subseteq rets, RetsIn(rets)
  PROVE  RetsIn(rets)'
<1>1. CASE SweepStep(c)
  <2>1. sweep'[c].ev = sweep[c].ev /\ sweep'[c].ret = sweep[c].ret
    BY <1>1, SweepStepThread
  <2>2. QED
    BY <2>1 DEF SweepMoves, RetsIn
<1>2. CASE SweepEnd(c)
  <2>1. sweep'[c].ev = NoEvent
    BY <1>2 DEF SweepEnd, NoSweep, KInv, KernelTypeOK
  <2>2. QED
    BY <2>1 DEF SweepMoves, RetsIn
<1>3. QED
  BY <1>1, <1>2 DEF SweepMoves, RetsIn

\* The steps of OSStarted are such steps.
LEMMA StartedStepMoves ==
  ASSUME StartedInv, StartedStep
  PROVE  \E c \in Contexts : SweepMoves(c, {"OS_CANCELLED"})
<1> USE DEF SweepMoves, bootVars, sweepVars, kernelVars
<1>0. /\ Isr \in Contexts /\ Threads \subseteq Contexts \ {Isr}
      /\ sweep \in [Contexts -> Sweeps]
  BY KernelAssumption DEF Contexts, StartedInv, KInv, KernelTypeOK
<1>1. ASSUME UNCHANGED <<threads, sweep>>
      PROVE  \E c \in Contexts : SweepMoves(c, {"OS_CANCELLED"})
  BY <1>0, <1>1
<1>2. ASSUME NEW c \in Contexts, sweep[c] = NoSweep, NEW ev, SweepStart(c, ev, "OS_CANCELLED")
      PROVE  SweepMoves(c, {"OS_CANCELLED"})
  BY <1>0, <1>2 DEF SweepStart, NoSweep
<1>3. ASSUME NEW c \in Contexts, SweepStep(c) \/ SweepEnd(c)
      PROVE  SweepMoves(c, {"OS_CANCELLED"})
  <2>1. CASE SweepStep(c)
    <3>1. sweep' = [sweep EXCEPT ![c] = sweep'[c]] /\ UNCHANGED bootVars
      BY <2>1, SweepStepThread DEF StartedInv
    <3>2. QED
      BY <1>0, <2>1, <3>1
  <2>2. CASE SweepEnd(c)
    BY <1>0, <2>2 DEF SweepEnd
  <2>3. QED
    BY <1>3, <2>1, <2>2
<1>4. CASE IdleYield
  BY <1>1, <1>4 DEF IdleYield, PerformContextSwitch
<1>5. ASSUME NEW t \in Threads, StartInterruption(t)
      PROVE  \E c \in Contexts : SweepMoves(c, {"OS_CANCELLED"})
  BY <1>1, <1>5 DEF StartInterruption, AckInterruption, RequestInterruption, SetInterruption
<1>6. ASSUME NEW t \in Threads, Cancel(t)
      PROVE  \E c \in Contexts : SweepMoves(c, {"OS_CANCELLED"})
  <2>1. sweep[t] = NoSweep
    BY <1>6 DEF Cancel, At, StartedInv, SweepsQuiet, Sweeping
  <2>2. CASE SweepStart(t, event[target[t]], "OS_CANCELLED")
    BY <1>0, <1>2, <2>1, <2>2
  <2>3. CASE UNCHANGED kernelVars
    BY <1>1, <2>3
  <2>4. QED
    BY <1>6, <2>2, <2>3 DEF Cancel
<1>7. ASSUME NEW t \in Threads, CancelStep(t)
      PROVE  \E c \in Contexts : SweepMoves(c, {"OS_CANCELLED"})
  BY <1>0, <1>3, <1>7 DEF CancelStep
<1>8. ASSUME NEW critical, Tick(critical)
      PROVE  \E c \in Contexts : SweepMoves(c, {"OS_CANCELLED"})
  BY <1>1, <1>8 DEF Tick, IsrTick
<1>9. CASE Handler
  <2>1. CASE TickThread
    <3>1. sweep[Isr] = NoSweep
      BY <2>1 DEF TickThread, StartedInv, SweepsQuiet
    <3>2. CASE SweepStart(Isr, event[threads[isrIdx + 1]], "OS_CANCELLED")
      BY <1>0, <1>2, <3>1, <3>2
    <3>3. CASE UNCHANGED kernelVars
      BY <1>1, <3>3
    <3>4. QED
      BY <2>1, <3>2, <3>3 DEF TickThread
  <2>2. CASE IsrSweepStep \/ TickCancelled \/ IsrNotified
    BY <1>0, <1>3, <2>2 DEF IsrSweepStep, TickCancelled, IsrNotified
  <2>3. CASE IsrExit
    BY <1>1, <2>3 DEF IsrExit, PerformContextSwitch
  <2>4. QED
    BY <1>9, <2>1, <2>2, <2>3 DEF Handler, HandlerStep
<1>10. QED
  BY <1>4, <1>5, <1>6, <1>7, <1>8, <1>9 DEF StartedStep

\* What is under way when something else than the threads of an object moves.
LEMMA StartedStepComes ==
  ASSUME StartedInv, StartedStep, NEW t \in Threads, NEW ev \in Events,
         waiting[t], event[t] = ev, NotificationAhead(t, ev)
  PROVE  ~waiting'[t] \/ NotificationAhead(t, ev)'
BY StartedStepMoves, NotificationComes DEF StartedInv

LEMMA StartedStepRets ==
  ASSUME StartedInv, StartedStep, NEW rets, "OS_CANCELLED" \in rets, RetsIn(rets)
  PROVE  RetsIn(rets)'
BY StartedStepMoves, RetsStay DEF StartedInv

=============================================================================
