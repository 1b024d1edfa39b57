------------------------- MODULE OSScheduler_proofs -------------------------
(***************************************************************************)
(* Safety of the kernel under any application that makes the calls of      *)
(* OSScheduler, for any number of threads and events.                      *)
(***************************************************************************)
EXTENDS OSApplications, OSKernel_proofs

\* The application's control state, with what the calls in progress have
\* established: a call about a thread knows it, and a thread that leaves a
\* lock has entered it.
ClientSound ==
  /\ bootPc \in {"construct", "start", "started"}
  /\ bootIdx \in Nat
  /\ pc \in [Threads -> PcValues]
  /\ target \in [Threads -> Threads \cup {NoThread}]
  /\ loaded \in [Threads -> Nat]
  /\ depth \in [Threads -> Nat]
  /\ stackReady \in [Threads -> BOOLEAN]
  /\ isrPc \in {"off", "notify", "tick", "cancel"}
  /\ isrIdx \in Nat
  /\ \A t \in Threads : pc[t] \in {"cancel", "create"} => target[t] \in Threads
  /\ \A t \in Threads : pc[t] = "dec" => depth[t] > 0

\* Start-up: until the scheduler runs no thread is in a call and no interrupt
\* is served; the threads registered are the first bootIdx constructed, and
\* then the first bootIdx of them are in the ready list unless suspended.
BootSound ==
  /\ isRunning <=> bootPc = "started"
  /\ ~isRunning => /\ isrPc = "off"
                   /\ \A t \in Threads : pc[t] = "main" /\ ~waiting[t] /\ depth[t] = 0
  /\ bootPc = "construct" =>
       /\ bootIdx <= Len(Initial)
       /\ Registered \subseteq { Initial[i] : i \in 1..bootIdx }
  /\ bootPc = "start" =>
       \A i \in 1..Len(threads) :
         i <= bootIdx => threads[i] \in Members(ready) \/ suspended[threads[i]]

IInv == KInv /\ ClientSound /\ BootSound

-----------------------------------------------------------------------------

LEMMA InitInv == Init => IInv
<1> SUFFICES ASSUME Init PROVE IInv
  OBVIOUS
<1> USE KernelAssumption, SchedulerAssumption
<1>1. Members(<<>>) = {}
  <2>1. Len(<<>>) = 0 /\ 1..0 = {}
    OBVIOUS
  <2>2. { <<>>[i] : i \in 1..0 } = {}
    BY <2>1
  <2>3. QED
    BY <2>1, <2>2 DEF Members
<1>2. NoSweep \in Sweeps /\ NoSweep.first = -1 /\ NoSweep.at = 0 /\ NoSweep.i = 0
  BY DEF NoSweep, Sweeps, Rets
<1>3. KernelTypeOK
  <2>1. <<>> \in Seq(Threads) /\ prio \in [Threads -> Nat]
    BY DEF Init
  <2>2. /\ event \in [Threads -> Events \cup {NoEvent}]
        /\ waiting \in [Threads -> BOOLEAN]
        /\ ret \in [Threads -> Rets]
        /\ suspended \in [Threads -> BOOLEAN]
        /\ interrupted \in [Threads -> BOOLEAN]
        /\ sweep \in [Contexts -> Sweeps]
    BY <1>2 DEF Init, Rets
  <2>3. QED
    BY <2>1, <2>2 DEF Init, KernelTypeOK
<1>4. SweepsInRange
  BY <1>2 DEF Init, SweepsInRange
<1>5. StatusSound /\ ReadyListSound /\ NoLostThread
  BY <1>1 DEF Init, StatusSound, ReadyListSound, NoLostThread, NoDuplicates
<1>6. ClientSound
  BY DEF Init, ClientSound, PcValues
<1>7. BootSound
  BY <1>1 DEF Init, BootSound, Registered
<1>8. QED
  BY <1>3, <1>4, <1>5, <1>6, <1>7 DEF IInv, KInv

-----------------------------------------------------------------------------
(***************************************************************************)
(* The control state.                                                      *)
(***************************************************************************)

LEMMA ClientStutter ==
  ASSUME ClientSound, UNCHANGED <<clientVars, isrVars>>
  PROVE  ClientSound'
BY DEF ClientSound, clientVars, isrVars

LEMMA GotoSafe ==
  ASSUME ClientSound, NEW t \in Threads,
         NEW l \in PcValues \ {"cancel", "create", "dec"}, Goto(t, l)
  PROVE  ClientSound'
<1>1. /\ pc' = [pc EXCEPT ![t] = l]
      /\ UNCHANGED <<bootPc, bootIdx, target, loaded, depth, stackReady, isrVars>>
  BY DEF Goto
<1>2. /\ pc' \in [Threads -> PcValues]
      /\ \A u \in Threads : pc'[u] = IF u = t THEN l ELSE pc[u]
  BY <1>1 DEF ClientSound
<1>3. QED
  BY <1>1, <1>2 DEF ClientSound, isrVars

LEMMA GotoWithSafe ==
  ASSUME ClientSound, NEW t \in Threads, NEW l \in PcValues \ {"dec"},
         NEW u \in Threads \cup {NoThread}, GotoWith(t, l, u),
         l \in {"cancel", "create"} => u \in Threads
  PROVE  ClientSound'
<1>1. /\ pc' = [pc EXCEPT ![t] = l]
      /\ target' = [target EXCEPT ![t] = u]
      /\ UNCHANGED <<bootPc, bootIdx, loaded, depth, stackReady, isrVars>>
  BY DEF GotoWith
<1>2. /\ pc' \in [Threads -> PcValues]
      /\ target' \in [Threads -> Threads \cup {NoThread}]
      /\ \A v \in Threads : /\ pc'[v] = IF v = t THEN l ELSE pc[v]
                            /\ target'[v] = IF v = t THEN u ELSE target[v]
  BY <1>1 DEF ClientSound
<1>3. QED
  BY <1>1, <1>2 DEF ClientSound, isrVars

\* Once the scheduler runs, what BootSound says is only that it does.
LEMMA StartedSafe ==
  ASSUME BootSound, isRunning, UNCHANGED <<isRunning, bootPc>>
  PROVE  BootSound'
BY DEF BootSound

-----------------------------------------------------------------------------
(***************************************************************************)
(* Start-up.                                                               *)
(***************************************************************************)

LEMMA ConstructSafe ==
  ASSUME IInv, Construct
  PROVE  IInv'
<1> DEFINE t == Initial[bootIdx + 1]
<1>1. /\ bootPc = "construct" /\ bootIdx < Len(Initial)
      /\ ThreadRegister(t)
      /\ stackReady' = [stackReady EXCEPT ![t] = TRUE]
      /\ bootIdx' = bootIdx + 1
      /\ UNCHANGED <<bootPc, pc, target, loaded, depth, isrVars>>
  BY DEF Construct
<1>2. /\ KInv /\ ClientSound /\ BootSound
      /\ bootIdx \in Nat /\ Len(Initial) \in Nat
      /\ Initial \in Seq(Threads)
      /\ \A i, j \in 1..Len(Initial) : Initial[i] = Initial[j] => i = j
  BY SchedulerAssumption DEF IInv, ClientSound, NoDuplicates
<1>3. /\ bootIdx + 1 \in 1..Len(Initial)
      /\ t \in Threads
  BY <1>1, <1>2
<1>4. t \notin Registered
  <2>1. \A i \in 1..bootIdx : Initial[i] # t
    BY <1>1, <1>2, <1>3
  <2>2. Registered \subseteq { Initial[i] : i \in 1..bootIdx }
    BY <1>1, <1>2 DEF BootSound
  <2> HIDE DEF t
  <2>3. QED
    BY <2>1, <2>2
<1>5. KInv'
  BY <1>1, <1>2, <1>3, <1>4, ThreadRegisterSafe
<1>6. ClientSound'
  <2> HIDE DEF t
  <2>1. stackReady' \in [Threads -> BOOLEAN]
    BY <1>1, <1>2, <1>3 DEF ClientSound
  <2>2. QED
    BY <1>1, <1>2, <2>1 DEF ClientSound, isrVars
<1>7. BootSound'
  <2>1. ~isRunning /\ isRunning' = isRunning /\ waiting' = waiting
    BY <1>1, <1>2 DEF BootSound, ThreadRegister, waitVars
  <2>2. Registered' \subseteq { Initial[i] : i \in 1..bootIdx + 1 }
    <3>1. Registered \subseteq { Initial[i] : i \in 1..bootIdx }
      BY <1>1, <1>2 DEF BootSound
    <3>2. 1..bootIdx \subseteq 1..bootIdx + 1 /\ bootIdx + 1 \in 1..bootIdx + 1
      BY <1>2
    <3>3. t \in { Initial[i] : i \in 1..bootIdx + 1 }
      BY <3>2
    <3> HIDE DEF t
    <3>4. Registered \cup {t} \subseteq { Initial[i] : i \in 1..bootIdx + 1 }
      BY <3>1, <3>2, <3>3
    <3>5. threads' = threads \/ threads' = Append(threads, t)
      BY <1>1 DEF ThreadRegister
    <3>6. threads \in Seq(Threads)
      BY <1>2 DEF KInv, KernelTypeOK
    <3>7. Registered' \subseteq Registered \cup {t}
      <4>1. Members(Append(threads, t)) = Members(threads) \cup {t}
        BY <1>3, <3>6, AppendMembers
      <4>2. QED
        BY <3>5, <4>1 DEF Registered
    <3>8. QED
      BY <3>4, <3>7
  <2>3. QED
    BY <1>1, <1>2, <2>1, <2>2 DEF BootSound, isrVars
<1>8. QED
  BY <1>5, <1>6, <1>7 DEF IInv

LEMMA SuspendAtBootSafe ==
  ASSUME IInv, NEW t \in Threads, SuspendAtBoot(t)
  PROVE  IInv'
<1>1. /\ bootPc = "construct" /\ t \in Registered \ {Idle}
      /\ SuspendThread(t) /\ UNCHANGED <<clientVars, isrVars>>
  BY DEF SuspendAtBoot
<1>2. KInv'
  BY <1>1, SuspendThreadSafe DEF IInv
<1>3. ClientSound'
  BY <1>1, ClientStutter DEF IInv
<1>4. BootSound'
  BY <1>1 DEF IInv, BootSound, SuspendThread, clientVars, isrVars, bootVars,
     waitVars, Registered
<1>5. QED
  BY <1>2, <1>3, <1>4 DEF IInv

LEMMA EnterStartSafe ==
  ASSUME IInv, EnterStart
  PROVE  IInv'
<1>1. UNCHANGED kernelVars
  BY DEF EnterStart
<1>2. KInv'
  BY <1>1, KernelStutter DEF IInv
<1>3. ClientSound'
  BY DEF IInv, ClientSound, EnterStart, isrVars
<1>4. BootSound'
  <2>1. \A i \in 1..Len(threads) : ~(i <= 0)
    BY DEF IInv, KInv, KernelTypeOK
  <2>2. QED
    BY <2>1 DEF IInv, BootSound, EnterStart, kernelVars, bootVars, waitVars, isrVars
<1>5. QED
  BY <1>2, <1>3, <1>4 DEF IInv

LEMMA StartInsertSafe ==
  ASSUME IInv, StartInsert
  PROVE  IInv'
<1> DEFINE t == threads[bootIdx + 1]
<1>1. /\ bootPc = "start" /\ bootIdx < Len(threads)
      /\ ready' = IF suspended[t] THEN ready ELSE Insert(ready, t, prio)
      /\ bootIdx' = bootIdx + 1
      /\ UNCHANGED <<isPreemptive, running, lock, bootVars, waitVars, statusVars,
                     sweepVars, bootPc, pc, target, loaded, depth, stackReady,
                     isrVars>>
  BY DEF StartInsert
<1>2. /\ KernelTypeOK /\ SweepsInRange /\ StatusSound /\ ReadyListSound /\ NoLostThread
      /\ ClientSound /\ BootSound
      /\ threads \in Seq(Threads) /\ ready \in Seq(Threads) /\ NoDuplicates(ready)
      /\ prio \in [Threads -> Nat]
      /\ bootIdx \in Nat /\ Len(threads) \in Nat
      /\ suspended \in [Threads -> BOOLEAN]
  BY DEF IInv, KInv, KernelTypeOK, ReadyListSound, ClientSound
<1>3. t \in Registered /\ t \in Threads
  <2>1. bootIdx + 1 \in 1..Len(threads)
    BY <1>1, <1>2
  <2>2. QED
    BY <1>2, <2>1 DEF Registered, Members
<1>4. ~isRunning
  BY <1>1, <1>2 DEF BootSound
<1>5. /\ ready' \in Seq(Threads) /\ NoDuplicates(ready')
      /\ Members(ready') = IF suspended[t] THEN Members(ready) ELSE Members(ready) \cup {t}
  <2> HIDE DEF t
  <2>1. LET new == Insert(ready, t, prio)
        IN  /\ new \in Seq(Threads)
            /\ Members(new) = Members(ready) \cup {t}
            /\ NoDuplicates(ready) => NoDuplicates(new)
    BY <1>2, <1>3, InsertList
  <2>2. QED
    BY <1>1, <1>2, <1>3, <2>1
<1>6. KInv'
  <2> HIDE DEF t
  <2>1. KernelTypeOK' /\ SweepsInRange'
    BY <1>1, <1>2, <1>5 DEF KernelTypeOK, SweepsInRange, bootVars, waitVars,
       statusVars, sweepVars
  <2>2. StatusSound' /\ NoLostThread'
    BY <1>1, <1>2, <1>4 DEF StatusSound, NoLostThread, Registered, bootVars, statusVars
  <2>3. ReadyListSound'
    BY <1>1, <1>2, <1>3, <1>4, <1>5 DEF ReadyListSound, Registered, bootVars, statusVars
  <2>4. QED
    BY <2>1, <2>2, <2>3 DEF KInv
<1>7. ClientSound'
  BY SMTT(30), <1>1, <1>2 DEF ClientSound, isrVars
<1>8. BootSound'
  <2>1. \A i \in 1..Len(threads) :
          i <= bootIdx + 1 => threads[i] \in Members(ready') \/ suspended[threads[i]]
    <3>1. \A i \in 1..Len(threads) : i <= bootIdx + 1 => i <= bootIdx \/ i = bootIdx + 1
      BY <1>2
    <3>2. QED
      BY <1>1, <1>2, <1>5, <3>1 DEF BootSound
  <2> HIDE DEF t
  <2>2. QED
    BY <1>1, <1>2, <1>4, <2>1 DEF BootSound, bootVars, waitVars, statusVars, isrVars
<1>9. QED
  BY <1>6, <1>7, <1>8 DEF IInv

LEMMA StartFirstSafe ==
  ASSUME IInv, StartFirst
  PROVE  IInv'
<1>1. /\ bootPc = "start" /\ bootIdx >= Len(threads)
      /\ Idle \in Registered
      /\ running' = GetTop(ready) /\ isRunning' = TRUE /\ lock' = 0
      /\ bootPc' = "started"
      /\ UNCHANGED <<threads, isPreemptive, ready, waitVars, statusVars,
                     sweepVars, bootIdx, pc, target, loaded, depth, stackReady,
                     isrVars>>
  BY DEF StartFirst
<1>2. /\ KernelTypeOK /\ SweepsInRange /\ StatusSound /\ ReadyListSound
      /\ ClientSound /\ BootSound
      /\ threads \in Seq(Threads) /\ ready \in Seq(Threads)
      /\ bootIdx \in Nat /\ Len(threads) \in Nat
  BY DEF IInv, KInv, KernelTypeOK, ClientSound
<1>3. \A u \in Registered : u \in Members(ready) \/ suspended[u]
  BY <1>1, <1>2 DEF BootSound, Registered, Members
<1>4. Idle \in Members(ready)
  BY <1>1, <1>2, <1>3 DEF StatusSound
<1>5. GetTop(ready) \in Registered /\ Registered \subseteq Threads
  BY <1>2, <1>4, GetTopMember DEF ReadyListSound, Registered
<1>6. KInv'
  <2>1. KernelTypeOK' /\ SweepsInRange'
    BY <1>1, <1>2, <1>5 DEF KernelTypeOK, SweepsInRange, waitVars, statusVars, sweepVars
  <2>2. StatusSound' /\ ReadyListSound' /\ NoLostThread'
    BY <1>1, <1>2, <1>3, <1>4, <1>5 DEF StatusSound, ReadyListSound,
       NoLostThread, Registered, statusVars
  <2>3. QED
    BY <2>1, <2>2 DEF KInv
<1>7. ClientSound' /\ BootSound'
  BY <1>1, <1>2 DEF ClientSound, BootSound, isrVars
<1>8. QED
  BY <1>6, <1>7 DEF IInv

-----------------------------------------------------------------------------
(***************************************************************************)
(* Threads.  A step of a thread, or of an interrupt, is a kernel routine   *)
(* and a move of the control state, taken while the scheduler runs.        *)
(***************************************************************************)

LEMMA RunningStep ==
  ASSUME IInv, isRunning, KInv', ClientSound', UNCHANGED <<isRunning, bootPc>>
  PROVE  IInv'
BY StartedSafe DEF IInv

LEMMA ContinueSafe ==
  ASSUME IInv, NEW t \in Threads, Continue(t)
  PROVE  IInv'
<1> USE DEF At
<1>0. KInv /\ ClientSound /\ BootSound
  BY DEF IInv
<1>1. CASE WaitMark(t)
  <2>1. KInv'
    BY <1>0, <1>1, EventWaitSetWaitingSafe DEF WaitMark
  <2>2. ClientSound'
    BY <1>0, <1>1, GotoSafe DEF WaitMark, PcValues
  <2>3. isRunning /\ UNCHANGED <<isRunning, bootPc>>
    BY <1>1 DEF WaitMark, EventWaitSetWaiting, Goto, bootVars
  <2>4. QED
    BY <2>1, <2>2, <2>3, RunningStep
<1>2. CASE WaitYield(t)
  <2>1. KInv'
    BY <1>0, <1>2, PerformContextSwitchSafe DEF WaitYield
  <2>2. ClientSound'
    BY <1>0, <1>2, GotoSafe DEF WaitYield, PcValues
  <2>3. isRunning /\ UNCHANGED <<isRunning, bootPc>>
    BY <1>2 DEF WaitYield, PerformContextSwitch, Goto, bootVars
  <2>4. QED
    BY <2>1, <2>2, <2>3, RunningStep
<1>3. CASE WaitReturn(t)
  <2>1. KInv'
    BY <1>0, <1>3, KernelStutter DEF WaitReturn
  <2>2. ClientSound'
    BY <1>0, <1>3, GotoSafe DEF WaitReturn, PcValues
  <2>3. isRunning /\ UNCHANGED <<isRunning, bootPc>>
    BY <1>3 DEF WaitReturn, Goto, kernelVars, bootVars
  <2>4. QED
    BY <2>1, <2>2, <2>3, RunningStep
<1>4. CASE NotifyStep(t)
  <2>1. KInv'
    BY <1>0, <1>4, SweepStepSafe DEF NotifyStep, Contexts
  <2>2. ClientSound'
    BY <1>0, <1>4, ClientStutter DEF NotifyStep
  <2>3. isRunning /\ UNCHANGED <<isRunning, bootPc>>
    BY <1>4 DEF NotifyStep, SweepStep, clientVars, bootVars
  <2>4. QED
    BY <2>1, <2>2, <2>3, RunningStep
<1>5. CASE NotifyReturn(t)
  <2>1. KInv'
    BY <1>0, <1>5, SweepEndSafe DEF NotifyReturn, Contexts
  <2>2. ClientSound'
    BY <1>0, <1>5, GotoWithSafe DEF NotifyReturn, PcValues
  <2>3. isRunning /\ UNCHANGED <<isRunning, bootPc>>
    BY <1>5 DEF NotifyReturn, SweepEnd, GotoWith, bootVars
  <2>4. QED
    BY <2>1, <2>2, <2>3, RunningStep
<1>6. CASE CancelTarget(t)
  <2>1. event[target[t]] \in Events \cup {NoEvent} /\ "OS_CANCELLED" \in Rets
    BY <1>0, <1>6 DEF CancelTarget, ClientSound, KInv, KernelTypeOK, Rets
  <2>2. KInv'
    BY <1>0, <1>6, <2>1, SweepStartSafe DEF CancelTarget, Contexts
  <2>3. ClientSound'
    BY <1>0, <1>6, GotoSafe DEF CancelTarget, PcValues
  <2>4. isRunning /\ UNCHANGED <<isRunning, bootPc>>
    BY <1>6 DEF CancelTarget, SweepStart, Goto, bootVars
  <2>5. QED
    BY <2>2, <2>3, <2>4, RunningStep
<1>7. CASE CancelNothing(t)
  <2>1. KInv'
    BY <1>0, <1>7, KernelStutter DEF CancelNothing
  <2>2. ClientSound'
    BY <1>0, <1>7, GotoWithSafe DEF CancelNothing, PcValues
  <2>3. isRunning /\ UNCHANGED <<isRunning, bootPc>>
    BY <1>7 DEF CancelNothing, GotoWith, kernelVars, bootVars
  <2>4. QED
    BY <2>1, <2>2, <2>3, RunningStep
<1>8. ASSUME NEW l \in {"inc", "dec"}, NEW n \in Nat, NEW d \in Nat,
             StoreLock(t, l, n, d)
      PROVE  IInv'
  <2>1. n % 256 \in Nat
    OBVIOUS
  <2>2. KInv'
    BY <1>0, <1>8, <2>1, SetLockSafe DEF StoreLock
  <2>3. ClientSound'
    <3>1. /\ loaded' = [loaded EXCEPT ![t] = 0]
          /\ depth' = [depth EXCEPT ![t] = d]
          /\ pc' = [pc EXCEPT ![t] = "main"]
          /\ UNCHANGED <<bootPc, bootIdx, target, stackReady, isrVars>>
      BY <1>8 DEF StoreLock
    <3>2. /\ loaded' \in [Threads -> Nat] /\ depth' \in [Threads -> Nat]
          /\ pc' \in [Threads -> PcValues]
          /\ \A u \in Threads : /\ pc'[u] = IF u = t THEN "main" ELSE pc[u]
                                /\ depth'[u] = IF u = t THEN d ELSE depth[u]
      BY <1>0, <3>1 DEF ClientSound, PcValues
    <3>3. QED
      BY <1>0, <3>1, <3>2 DEF ClientSound, isrVars
  <2>4. isRunning /\ UNCHANGED <<isRunning, bootPc>>
    BY <1>8 DEF StoreLock, SetLock, bootVars
  <2>5. QED
    BY <2>2, <2>3, <2>4, RunningStep
<1>9. CASE LockEntered(t)
  <2>1. loaded[t] + 1 \in Nat /\ depth[t] + 1 \in Nat
    BY <1>0 DEF ClientSound
  <2>2. QED
    BY <1>8, <1>9, <2>1 DEF LockEntered
<1>10. CASE LockExited(t)
  <2>1. loaded[t] + 255 \in Nat /\ depth[t] - 1 \in Nat
    BY <1>0, <1>10 DEF ClientSound, LockExited, StoreLock
  <2>2. QED
    BY <1>8, <1>10, <2>1 DEF LockExited
<1>11. CASE CreateStack(t)
  <2>1. KInv'
    BY <1>0, <1>11, KernelStutter DEF CreateStack
  <2>2. ClientSound'
    <3>1. /\ stackReady' = [stackReady EXCEPT ![target[t]] = TRUE]
          /\ pc' = [pc EXCEPT ![t] = "main"]
          /\ target' = [target EXCEPT ![t] = NoThread]
          /\ UNCHANGED <<bootPc, bootIdx, loaded, depth, isrVars>>
      BY <1>11 DEF CreateStack
    <3>2. /\ stackReady' \in [Threads -> BOOLEAN]
          /\ pc' \in [Threads -> PcValues]
          /\ target' \in [Threads -> Threads \cup {NoThread}]
          /\ \A u \in Threads : /\ pc'[u] = IF u = t THEN "main" ELSE pc[u]
                                /\ target'[u] = IF u = t THEN NoThread ELSE target[u]
      BY <1>0, <3>1 DEF ClientSound, PcValues
    <3>3. QED
      BY <1>0, <3>1, <3>2 DEF ClientSound, isrVars
  <2>3. isRunning /\ UNCHANGED <<isRunning, bootPc>>
    BY <1>11 DEF CreateStack, kernelVars, bootVars
  <2>4. QED
    BY <2>1, <2>2, <2>3, RunningStep
<1>12. QED
  BY <1>1, <1>2, <1>3, <1>4, <1>5, <1>6, <1>7, <1>9, <1>10, <1>11 DEF Continue

LEMMA CallSafe ==
  ASSUME IInv, NEW t \in Threads, Call(t)
  PROVE  IInv'
<1> USE DEF At, Calls
<1>0. /\ KInv /\ ClientSound /\ BootSound
      /\ Registered \subseteq Threads
  BY GetTopMember DEF IInv, KInv, KernelTypeOK, Registered
<1>1. ASSUME NEW ev \in Events \cup {NoEvent}, WaitRefused(t, ev)
      PROVE  IInv'
  <2>1. KInv'
    BY <1>0, <1>1, EventWaitRefusedSafe DEF WaitRefused
  <2>2. ClientSound'
    BY <1>0, <1>1, ClientStutter DEF WaitRefused
  <2>3. isRunning /\ UNCHANGED <<isRunning, bootPc>>
    BY <1>1 DEF WaitRefused, EventWaitRefused, clientVars, bootVars
  <2>4. QED
    BY <2>1, <2>2, <2>3, RunningStep
<1>2. ASSUME NEW ev \in Events \cup {NoEvent}, WaitPrepare(t, ev)
      PROVE  IInv'
  <2>1. KInv'
    BY <1>0, <1>2, EventWaitSetEventSafe DEF WaitPrepare
  <2>2. ClientSound'
    BY <1>0, <1>2, GotoSafe DEF WaitPrepare, PcValues
  <2>3. isRunning /\ UNCHANGED <<isRunning, bootPc>>
    BY <1>2 DEF WaitPrepare, EventWaitSetEvent, Goto, bootVars
  <2>4. QED
    BY <2>1, <2>2, <2>3, RunningStep
<1>3. CASE Yield(t)
  <2>1. KInv'
    BY <1>0, <1>3, PerformContextSwitchSafe DEF Yield
  <2>2. ClientSound'
    BY <1>0, <1>3, ClientStutter DEF Yield
  <2>3. isRunning /\ UNCHANGED <<isRunning, bootPc>>
    BY <1>3 DEF Yield, PerformContextSwitch, clientVars, bootVars
  <2>4. QED
    BY <2>1, <2>2, <2>3, RunningStep
<1>4. ASSUME NEW ev \in Events, NEW r \in NotifyRets, Notify(t, ev, r)
      PROVE  IInv'
  <2>1. KInv'
    BY <1>0, <1>4, SweepStartSafe, SchedulerAssumption DEF Notify, Contexts
  <2>2. ClientSound'
    BY <1>0, <1>4, GotoSafe DEF Notify, PcValues
  <2>3. isRunning /\ UNCHANGED <<isRunning, bootPc>>
    BY <1>4 DEF Notify, SweepStart, Goto, bootVars
  <2>4. QED
    BY <2>1, <2>2, <2>3, RunningStep
<1>5. ASSUME NEW u \in Threads, Suspend(t, u)
      PROVE  IInv'
  <2>1. KInv'
    BY <1>0, <1>5, SuspendThreadSafe DEF Suspend
  <2>2. ClientSound'
    BY <1>0, <1>5, ClientStutter DEF Suspend
  <2>3. isRunning /\ UNCHANGED <<isRunning, bootPc>>
    BY <1>5 DEF Suspend, SuspendThread, clientVars, bootVars
  <2>4. QED
    BY <2>1, <2>2, <2>3, RunningStep
<1>6. ASSUME NEW u \in Threads, Resume(t, u)
      PROVE  IInv'
  <2>1. u \in Registered
    BY <1>0, <1>6 DEF Resume, KInv, StatusSound
  <2>2. KInv'
    BY <1>0, <1>6, <2>1, ResumeThreadSafe DEF Resume
  <2>3. ClientSound'
    BY <1>0, <1>6, ClientStutter DEF Resume
  <2>4. isRunning /\ UNCHANGED <<isRunning, bootPc>>
    BY <1>6 DEF Resume, ResumeThread, clientVars, bootVars
  <2>5. QED
    BY <2>2, <2>3, <2>4, RunningStep
<1>7. ASSUME NEW u \in Threads, RequestInterruption(t, u)
      PROVE  IInv'
  <2>1. KInv'
    BY <1>0, <1>7, SetInterruptionSafe DEF RequestInterruption
  <2>2. ClientSound'
    BY <1>0, <1>7, GotoWithSafe DEF RequestInterruption, PcValues
  <2>3. isRunning /\ UNCHANGED <<isRunning, bootPc>>
    BY <1>7 DEF RequestInterruption, SetInterruption, GotoWith, bootVars
  <2>4. QED
    BY <2>1, <2>2, <2>3, RunningStep
<1>8. ASSUME NEW u \in Threads, Create(t, u)
      PROVE  IInv'
  <2>1. KInv'
    BY <1>0, <1>8, ThreadRegisterSafe DEF Create
  <2>2. ClientSound'
    BY <1>0, <1>8, GotoWithSafe DEF Create, PcValues
  <2>3. isRunning /\ UNCHANGED <<isRunning, bootPc>>
    BY <1>8 DEF Create, ThreadRegister, GotoWith
  <2>4. QED
    BY <2>1, <2>2, <2>3, RunningStep
<1>9. ASSUME NEW u \in Threads,
             NEW p \in { Prio0[v] : v \in Threads \ {Idle} }, ChangePriority(t, u, p)
      PROVE  IInv'
  <2>1. p \in Nat
    BY KernelAssumption
  <2>2. KInv'
    BY <1>0, <1>9, <2>1, SetPrioritySafe DEF ChangePriority
  <2>3. ClientSound'
    BY <1>0, <1>9, ClientStutter DEF ChangePriority
  <2>4. isRunning /\ UNCHANGED <<isRunning, bootPc>>
    BY <1>9 DEF ChangePriority, SetPriority, clientVars, bootVars
  <2>5. QED
    BY <2>2, <2>3, <2>4, RunningStep
<1>10. CASE AckInterruption(t)
  <2>1. KInv'
    BY <1>0, <1>10, SetInterruptionSafe DEF AckInterruption
  <2>2. ClientSound'
    BY <1>0, <1>10, ClientStutter DEF AckInterruption
  <2>3. isRunning /\ UNCHANGED <<isRunning, bootPc>>
    BY <1>10 DEF AckInterruption, SetInterruption, clientVars, bootVars
  <2>4. QED
    BY <2>1, <2>2, <2>3, RunningStep
<1>11. ASSUME NEW l \in {"inc", "dec"}, LoadLock(t, l), isRunning,
              l = "dec" => depth[t] > 0
       PROVE  IInv'
  <2>1. KInv'
    BY <1>0, <1>11, KernelStutter DEF LoadLock
  <2>2. ClientSound'
    <3>1. /\ loaded' = [loaded EXCEPT ![t] = lock]
          /\ pc' = [pc EXCEPT ![t] = l]
          /\ UNCHANGED <<bootPc, bootIdx, target, depth, stackReady, isrVars>>
      BY <1>11 DEF LoadLock
    <3>2. /\ loaded' \in [Threads -> Nat]
          /\ pc' \in [Threads -> PcValues]
          /\ \A u \in Threads : pc'[u] = IF u = t THEN l ELSE pc[u]
      BY <1>0, <3>1 DEF ClientSound, PcValues, KInv, KernelTypeOK
    <3>3. QED
      BY <1>0, <1>11, <3>1, <3>2 DEF ClientSound, isrVars
  <2>3. UNCHANGED <<isRunning, bootPc>>
    BY <1>11 DEF LoadLock, kernelVars, bootVars
  <2>4. QED
    BY <1>11, <2>1, <2>2, <2>3, RunningStep
<1>12. CASE LockEnter(t) \/ LockExit(t)
  BY <1>11, <1>12 DEF LockEnter, LockExit
<1>13. ASSUME NEW flag \in BOOLEAN, ChangePreemptive(t, flag)
       PROVE  IInv'
  <2>1. KInv'
    BY <1>0, <1>13, SetPreemptiveSafe DEF ChangePreemptive
  <2>2. ClientSound'
    BY <1>0, <1>13, ClientStutter DEF ChangePreemptive
  <2>3. isRunning /\ UNCHANGED <<isRunning, bootPc>>
    BY <1>13 DEF ChangePreemptive, SetPreemptive, clientVars, bootVars
  <2>4. QED
    BY <2>1, <2>2, <2>3, RunningStep
<1>14. QED
  BY <1>1, <1>2, <1>3, <1>4, <1>5, <1>6, <1>7, <1>8, <1>9, <1>10, <1>12, <1>13
  DEF Call

-----------------------------------------------------------------------------
(***************************************************************************)
(* Interrupts.                                                             *)
(***************************************************************************)

LEMMA InterruptSafe ==
  ASSUME IInv, Interrupt
  PROVE  IInv'
<1>0. /\ KInv /\ ClientSound /\ BootSound
      /\ UNCHANGED clientVars
      /\ IsrSound
  BY DEF IInv, ClientSound, BootSound, IsrSound, Interrupt, Notified, Tick,
     InterruptContinues
<1>1. KInv' /\ IsrSound' /\ isRunning /\ UNCHANGED isRunning
  <2>1. CASE \E ev \in Events, r \in NotifyRets : Notified(ev, r)
    BY <1>0, <2>1, IsrNotifySafe, SchedulerAssumption DEF Notified, InterruptEnabled
  <2>2. CASE Tick
    BY <1>0, <2>2, IsrTickSafe DEF Tick, InterruptEnabled
  <2>3. CASE InterruptContinues
    BY <1>0, <2>3, HandlerStepSafe DEF InterruptContinues
  <2>4. QED
    BY <2>1, <2>2, <2>3 DEF Interrupt
<1>2. isrPc' \in {"off", "notify", "tick", "cancel"}
  BY <1>0 DEF ClientSound, Interrupt, Notified, Tick, InterruptContinues, IsrNotify, IsrTick,
              HandlerStep, TickThread, IsrSweepStep, TickCancelled, IsrNotified, IsrExit,
              IsrGoto, isrVars
<1>3. ClientSound' /\ UNCHANGED bootPc
  BY <1>0, <1>1, <1>2 DEF ClientSound, IsrSound, clientVars
<1>4. QED
  BY <1>0, <1>1, <1>3, RunningStep

-----------------------------------------------------------------------------
(***************************************************************************)
(* The scheduler lock.                                                     *)
(***************************************************************************)

\* A thread between the load and the store of the nesting level has loaded its
\* own depth: it was not switched away with the lock set, and with the lock
\* clear every depth is 0.
LockSound ==
  /\ \A t \in Threads : pc[t] \in {"inc", "dec"} => loaded[t] = depth[t]
  /\ \A t \in Threads : depth[t] <= MaxNesting
  /\ \A t \in Threads : pc[t] = "inc" => depth[t] < MaxNesting
  /\ LockBelongsToRunning

\* No thread starts to enter or leave a lock in the step.
NoNewLockCall ==
  \A t \in Threads : pc'[t] \in {"inc", "dec"} => pc'[t] = pc[t]

LEMMA LockStutter ==
  ASSUME LockSound, NoNewLockCall,
         UNCHANGED <<loaded, depth, lock, running, isRunning>>
  PROVE  LockSound'
BY DEF LockSound, NoNewLockCall, LockBelongsToRunning

\* The processor changes hands only with the lock clear.
LEMMA LockSwitch ==
  ASSUME LockSound, KInv, isRunning, NoNewLockCall, PerformContextSwitch,
         UNCHANGED <<loaded, depth>>
  PROVE  LockSound'
<1>1. /\ UNCHANGED <<lock, isRunning>>
      /\ lock = 0 \/ UNCHANGED running
  BY DEF PerformContextSwitch, bootVars
<1>2. CASE UNCHANGED running
  BY <1>1, <1>2, LockStutter
<1>3. CASE lock = 0
  <2>1. \A t \in Threads : depth[t] = 0
    BY <1>3 DEF LockSound, LockBelongsToRunning
  <2>2. running' \in Threads
    <3>1. KInv' /\ isRunning'
      BY <1>1, PerformContextSwitchSafe
    <3>2. running' \in Registered' /\ threads' \in Seq(Threads)
      BY <3>1 DEF KInv, KernelTypeOK, StatusSound
    <3>3. QED
      BY <3>2 DEF Registered, Members
  <2>3. QED
    BY <1>1, <1>3, <2>1, <2>2 DEF LockSound, NoNewLockCall, LockBelongsToRunning
<1>4. QED
  BY <1>1, <1>2, <1>3

LEMMA LockEnteredSafe ==
  ASSUME LockSound, IInv, NEW t \in Threads, LockEntered(t) \/ LockExited(t)
  PROVE  LockSound'
<1>0. /\ isRunning /\ running = t /\ ClientSound
      /\ MaxNesting \in 0..255 /\ depth[t] \in Nat
      /\ loaded[t] = depth[t] /\ lock = depth[t]
  BY SchedulerAssumption DEF IInv, ClientSound, LockEntered, LockExited, StoreLock, At,
     LockSound, LockBelongsToRunning
<1>1. PICK d \in Nat : /\ d <= MaxNesting
                       /\ lock' = d
                       /\ depth' = [depth EXCEPT ![t] = d]
                       /\ loaded' = [loaded EXCEPT ![t] = 0]
                       /\ pc' = [pc EXCEPT ![t] = "main"]
                       /\ UNCHANGED <<running, isRunning>>
  <2>1. CASE LockEntered(t)
    <3>1. (depth[t] + 1) % 256 = depth[t] + 1 /\ depth[t] + 1 <= MaxNesting
      BY <1>0, <2>1 DEF LockEntered, StoreLock, At, LockSound
    <3>2. /\ lock' = (depth[t] + 1) % 256
          /\ depth' = [depth EXCEPT ![t] = depth[t] + 1]
          /\ loaded' = [loaded EXCEPT ![t] = 0]
          /\ pc' = [pc EXCEPT ![t] = "main"]
          /\ UNCHANGED <<running, isRunning>>
      BY <1>0, <2>1 DEF LockEntered, StoreLock, SetLock, bootVars
    <3>3. depth[t] + 1 \in Nat
      BY <1>0
    <3>4. QED
      BY <3>1, <3>2, <3>3
  <2>2. CASE LockExited(t)
    <3>1. depth[t] > 0 /\ depth[t] <= MaxNesting
      BY <1>0, <2>2 DEF LockExited, StoreLock, At, LockSound, ClientSound
    <3>2. (depth[t] + 255) % 256 = depth[t] - 1 /\ depth[t] - 1 \in Nat
      BY <1>0, <3>1
    <3>3. depth[t] - 1 <= MaxNesting
      BY <1>0, <3>1
    <3>4. QED
      BY <1>0, <2>2, <3>2, <3>3 DEF LockExited, StoreLock, SetLock, bootVars
  <2>3. QED
    BY <2>1, <2>2
<1>2. /\ pc \in [Threads -> PcValues] /\ depth \in [Threads -> Nat]
      /\ loaded \in [Threads -> Nat]
  BY <1>0 DEF ClientSound
<1>3. QED
  BY <1>0, <1>1, <1>2 DEF LockSound, LockBelongsToRunning

LEMMA LoadLockSafe ==
  ASSUME LockSound, IInv, NEW t \in Threads, LockEnter(t) \/ LockExit(t)
  PROVE  LockSound'
<1>1. /\ isRunning /\ running = t /\ lock = depth[t]
      /\ depth[t] < MaxNesting \/ pc'[t] = "dec"
      /\ loaded' = [loaded EXCEPT ![t] = lock]
      /\ \E l \in {"inc", "dec"} : pc' = [pc EXCEPT ![t] = l]
      /\ UNCHANGED <<depth, lock, running, isRunning>>
      /\ pc \in [Threads -> PcValues] /\ loaded \in [Threads -> Nat]
  BY DEF IInv, ClientSound, LockEnter, LockExit, LoadLock, Calls, At, LockSound,
     LockBelongsToRunning, kernelVars, bootVars, schedVars
<1>2. QED
  BY <1>1 DEF LockSound, LockBelongsToRunning

\* Every other step leaves the lock and the depths alone.
LEMMA LockSafe ==
  ASSUME IInv, LockSound, [Next]_vars
  PROVE  LockSound'
<1>0. KInv /\ ClientSound /\ BootSound
  BY DEF IInv
<1>1. CASE StartFirst
  <2>1. /\ lock' = 0 /\ UNCHANGED <<loaded, depth, pc>>
        /\ \A t \in Threads : depth[t] = 0
        /\ isRunning'
    BY <1>0, <1>1 DEF StartFirst, BootSound
  <2>2. running' \in Threads
    <3>1. KInv' /\ isRunning'
      BY <1>1, <2>1, StartFirstSafe DEF IInv
    <3>2. running' \in Registered' /\ threads' \in Seq(Threads)
      BY <3>1 DEF KInv, KernelTypeOK, StatusSound
    <3>3. QED
      BY <3>2 DEF Registered, Members
  <2>3. QED
    BY <2>1, <2>2 DEF LockSound, LockBelongsToRunning
<1>2. CASE Construct \/ EnterStart \/ StartInsert \/ \E t \in Threads : SuspendAtBoot(t)
  <2>1. /\ NoNewLockCall
        /\ UNCHANGED <<loaded, depth, lock, running, isRunning>>
    BY <1>2 DEF NoNewLockCall, Construct, ThreadRegister, EnterStart, StartInsert,
       SuspendAtBoot, SuspendThread, clientVars, kernelVars, bootVars, schedVars
  <2>2. QED
    BY <2>1, LockStutter
<1>3. ASSUME NEW t \in Threads, LockEnter(t) \/ LockExit(t) PROVE LockSound'
  BY <1>3, LoadLockSafe
<1>4. ASSUME NEW t \in Threads, LockEntered(t) \/ LockExited(t) PROVE LockSound'
  BY <1>4, LockEnteredSafe
<1>5. ASSUME NEW t \in Threads, WaitYield(t) \/ Yield(t) PROVE LockSound'
  <2>1. isRunning /\ PerformContextSwitch /\ UNCHANGED <<loaded, depth>>
    BY <1>5 DEF WaitYield, Yield, At, Goto, clientVars
  <2>2. NoNewLockCall
    BY <1>0, <1>5 DEF NoNewLockCall, WaitYield, Yield, Goto, clientVars, ClientSound
  <2>3. QED
    BY <1>0, <2>1, <2>2, LockSwitch
<1>6. ASSUME NEW t \in Threads, Continue(t), ~WaitYield(t),
             ~LockEntered(t), ~LockExited(t)
      PROVE  LockSound'
  <2>1. NoNewLockCall
    BY <1>0, <1>6 DEF NoNewLockCall, ClientSound, Continue, WaitMark, WaitReturn,
       NotifyStep, NotifyReturn, CancelTarget, CancelNothing, CreateStack,
       Goto, GotoWith, clientVars
  <2>2. UNCHANGED <<loaded, depth, lock, running, isRunning>>
    BY <1>6 DEF Continue, WaitMark, WaitReturn, NotifyStep, NotifyReturn,
       CancelTarget, CancelNothing, CreateStack, Goto, GotoWith, clientVars,
       EventWaitSetWaiting, SweepStep, SweepEnd, SweepStart, kernelVars,
       bootVars, schedVars
  <2>3. QED
    BY <2>1, <2>2, LockStutter
<1>7. ASSUME NEW t \in Threads, Call(t), ~Yield(t), ~LockEnter(t), ~LockExit(t)
      PROVE  LockSound'
  <2>1. NoNewLockCall
    BY ZenonT(40), <1>0, <1>7 DEF NoNewLockCall, ClientSound, Call, WaitRefused, WaitPrepare,
       Notify, Suspend, Resume, RequestInterruption, Create, ChangePriority,
       AckInterruption, ChangePreemptive, Goto, GotoWith, clientVars
  <2>2. UNCHANGED <<loaded, depth, lock, running, isRunning>>
    BY <1>7 DEF Call, WaitRefused, WaitPrepare, Notify, Suspend, Resume,
       RequestInterruption, Create, ChangePriority, AckInterruption,
       ChangePreemptive, Goto, GotoWith, clientVars, EventWaitRefused,
       EventWaitSetEvent, SweepStart, SuspendThread, ResumeThread,
       SetInterruption, ThreadRegister, SetPriority, SetPreemptive,
       bootVars, schedVars
  <2>3. QED
    BY <2>1, <2>2, LockStutter
<1>8. CASE Interrupt
  <2>1. NoNewLockCall /\ UNCHANGED <<loaded, depth>>
    BY <1>8 DEF NoNewLockCall, Interrupt, Notified, Tick, InterruptContinues, clientVars
  <2>2. \/ isRunning /\ PerformContextSwitch
        \/ UNCHANGED <<lock, running, isRunning>>
    <3>1. IsrSound
      BY <1>0 DEF ClientSound, BootSound, IsrSound
    <3>2. QED
      BY <1>8, <3>1 DEF IsrSound, Interrupt, Notified, Tick, InterruptContinues,
         IsrNotify, IsrTick, HandlerStep, TickThread, IsrSweepStep, TickCancelled,
         IsrNotified, IsrExit, SweepStart, SweepStep, SweepEnd, kernelVars,
         bootVars, schedVars
  <2>3. QED
    BY <1>0, <2>1, <2>2, LockStutter, LockSwitch
<1>9. CASE UNCHANGED vars
  BY <1>9, LockStutter DEF NoNewLockCall, vars, clientVars, kernelVars, bootVars, schedVars
<1>10. QED
  BY <1>1, <1>2, <1>3, <1>4, <1>5, <1>6, <1>7, <1>8, <1>9 DEF Next, Boot, Call, Continue

-----------------------------------------------------------------------------
(***************************************************************************)
(* The theorems.                                                           *)
(***************************************************************************)

LEMMA NextSafe ==
  ASSUME IInv, [Next]_vars
  PROVE  IInv'
<1>1. CASE Boot
  BY <1>1, ConstructSafe, SuspendAtBootSafe, EnterStartSafe, StartInsertSafe,
     StartFirstSafe DEF Boot
<1>2. CASE \E t \in Threads : Call(t) \/ Continue(t)
  BY <1>2, CallSafe, ContinueSafe
<1>3. CASE Interrupt
  BY <1>3, InterruptSafe
<1>4. CASE UNCHANGED vars
  <2>1. KInv' /\ ClientSound'
    BY <1>4, KernelStutter, ClientStutter DEF IInv, vars
  <2>2. BootSound'
    BY <1>4 DEF IInv, BootSound, vars, clientVars, isrVars, kernelVars,
       bootVars, schedVars, waitVars, statusVars, Registered
  <2>3. QED
    BY <2>1, <2>2 DEF IInv
<1>5. QED
  BY <1>1, <1>2, <1>3, <1>4 DEF Next

\* The inductive invariant holds of the kernel under any application.
THEOREM Invariance == Spec => []IInv
<1>1. Init => IInv
  BY InitInv
<1>2. IInv /\ [Next]_vars => IInv'
  BY NextSafe
<1>3. QED
  BY <1>1, <1>2, PTL DEF Spec

\* Every kernel variable keeps its type, whatever calls are made.
THEOREM TypeCorrect == Spec => []TypeOK
<1>1. IInv => TypeOK
  BY DEF IInv, KInv, ClientSound, TypeOK
<1>2. QED
  BY <1>1, Invariance, PTL

\* The ready list never holds a thread twice, a suspended thread or a thread
\* the scheduler does not know, and never loses the idle thread.
THEOREM ReadyListIsSound == Spec => []ReadyListSound
<1>1. IInv => ReadyListSound
  BY DEF IInv, KInv
<1>2. QED
  BY <1>1, Invariance, PTL

\* No thread is lost: one that is not ready is suspended or waits.
THEOREM NoThreadIsLost == Spec => []NoLostThread
<1>1. IInv => NoLostThread
  BY DEF IInv, KInv
<1>2. QED
  BY <1>1, Invariance, PTL

\* The nesting level is what the running thread has entered, and no other
\* thread is inside a lock, although ++ and -- can be interrupted.
THEOREM LockIsTheRunningThreads == Spec => []LockBelongsToRunning
<1>1. Init => LockSound
  BY SchedulerAssumption DEF Init, LockSound, LockBelongsToRunning
<1>2. IInv /\ LockSound /\ [Next]_vars => LockSound'
  BY LockSafe
<1>3. LockSound => LockBelongsToRunning
  BY DEF LockSound
<1>4. QED
  BY <1>1, <1>2, <1>3, Invariance, PTL DEF Spec

-----------------------------------------------------------------------------
(***************************************************************************)
(* Waits.                                                                  *)
(***************************************************************************)

\* A thread marked waiting is before or behind the yield of its wait; it has the
\* processor only before, and is in the ready list only while it has it.  It
\* holds no lock there, so that the yield does switch.
WakeSound ==
  /\ \A t \in Threads : waiting[t] => t \in Registered /\ pc[t] \in {"yield", "woken"}
  /\ isRunning =>
       \A t \in Threads :
         waiting[t] /\ t \in Members(ready) \cup {running} => t = running /\ pc[t] = "yield"
  /\ \A t \in Threads : pc[t] \in {"mark", "yield"} => depth[t] = 0
  /\ pc[Idle] = "main"

\* A step that makes no thread wait, moves none that waits, and makes none ready
\* that does.
LEMMA WakeKept ==
  ASSUME WakeSound,
         Registered \subseteq Registered', UNCHANGED <<running, isRunning>>,
         pc'[Idle] = pc[Idle],
         \A t \in Threads :
           /\ waiting'[t] => waiting[t] /\ pc'[t] = pc[t]
           /\ waiting'[t] /\ t \in Members(ready') => t \in Members(ready)
           /\ pc'[t] \in {"mark", "yield"} => pc[t] \in {"mark", "yield"} /\ depth'[t] = depth[t]
  PROVE  WakeSound'
BY DEF WakeSound

\* A switch takes away a thread that waits, and enters one that does not.
LEMMA WakeSwitch ==
  ASSUME IInv, WakeSound, isRunning, PerformContextSwitch, pc'[Idle] = pc[Idle],
         UNCHANGED depth,
         \A t \in Threads : /\ pc'[t] \in {"mark", "yield"} => pc[t] = pc'[t]
                            /\ pc'[t] = pc[t] \/ (lock = 0 /\ pc[t] = "yield" /\ pc'[t] = "woken")
  PROVE  WakeSound'
<1>1. /\ KInv /\ UNCHANGED <<waiting, isRunning, threads>>
      /\ waiting \in [Threads -> BOOLEAN]
  BY DEF IInv, KInv, KernelTypeOK, PerformContextSwitch, bootVars
<1>2. CASE lock # 0
  <2>1. UNCHANGED <<ready, running>> /\ \A t \in Threads : pc'[t] = pc[t]
    BY <1>2 DEF PerformContextSwitch
  <2> QED  BY <1>1, <2>1 DEF WakeSound, Registered
<1>3. CASE lock = 0
  <2>1. ready' = Rescheduled /\ running' = GetTop(Rescheduled)
    BY <1>3 DEF PerformContextSwitch
  <2>2. running \in Threads
    BY <1>1, GetTopMember DEF KInv, KernelTypeOK, StatusSound, Registered
  <2>3. running' \in Members(ready')
    BY <1>1, <2>1, RescheduledList, GetTopMember
  <2>4. \A t \in Threads : waiting[t] => t \notin Members(ready')
    <3>1. ASSUME NEW t \in Threads, waiting[t] PROVE t \notin Members(Rescheduled)
      <4>1. t # Idle
        BY <3>1 DEF WakeSound
      <4>2. CASE t = running
        BY <1>1, <3>1, <4>1, <4>2, RescheduledList
      <4>3. CASE t # running
        <5>1. t \notin Members(ready)
          BY <3>1, <4>3 DEF WakeSound
        <5> QED  BY <1>1, <4>3, <5>1, RescheduledList
      <4> QED  BY <4>2, <4>3
    <3> QED  BY <2>1, <3>1
  <2> QED  BY <1>1, <2>3, <2>4 DEF WakeSound, Registered
<1> QED  BY <1>2, <1>3

\* An eventNotify puts in the ready list whom it wakes.
LEMMA WakeSweep ==
  ASSUME KInv, NEW c \in Contexts, SweepStep(c)
  PROVE  /\ waiting \in [Threads -> BOOLEAN] /\ waiting' \in [Threads -> BOOLEAN]
         /\ \A t \in Threads : /\ waiting'[t] => waiting[t]
                               /\ waiting'[t] /\ t \in Members(ready') => t \in Members(ready)
<1> DEFINE s == sweep[c]
           t == threads[s.at + 1]
<1>1. /\ KernelTypeOK /\ SweepsInRange /\ ~SweepDone(c)
      /\ NotifyThread(t, s.ev, s.ret)
  BY DEF KInv, SweepStep
<1>2. s \in Sweeps /\ Len(threads) \in Nat /\ threads \in Seq(Threads)
  BY <1>1 DEF KernelTypeOK
<1>3. s.i \in Nat /\ s.i < Len(threads) /\ s.at \in Nat /\ s.at < Len(threads)
  BY <1>1, <1>2 DEF SweepDone, Sweeps, SweepsInRange
<1>4. t \in Threads /\ ready \in Seq(Threads) /\ prio \in [Threads -> Nat]
      /\ waiting \in [Threads -> BOOLEAN]
  BY <1>1, <1>2, <1>3 DEF KernelTypeOK
<1>5. CASE Notifiable(t, s.ev)
  <2> HIDE DEF t
  <2>1. waiting' = [waiting EXCEPT ![t] = FALSE] /\ ready' = Insert(ready, t, prio)
    BY <1>1, <1>5 DEF NotifyThread
  <2>2. Members(ready') = Members(ready) \cup {t}
    BY <1>4, <2>1, InsertList
  <2>3. \A u \in Threads : waiting'[u] => waiting[u] /\ u # t
    BY <1>4, <2>1
  <2>4. waiting' \in [Threads -> BOOLEAN]
    BY <1>4, <2>1
  <2> QED  BY <1>4, <2>2, <2>3, <2>4
<1>6. CASE ~Notifiable(t, s.ev)
  <2>1. UNCHANGED <<waiting, ready>>
    BY <1>1, <1>6 DEF NotifyThread
  <2> QED  BY <1>4, <2>1
<1> QED  BY <1>5, <1>6

LEMMA WakeBoot ==
  ASSUME IInv, WakeSound, Boot
  PROVE  WakeSound'
<1>1. ~isRunning /\ \A t \in Threads : ~waiting[t] /\ pc[t] = "main"
  BY DEF IInv, BootSound, Boot, Construct, SuspendAtBoot, EnterStart, StartInsert, StartFirst
<1>2. UNCHANGED <<waiting, pc>>
  BY DEF Boot, Construct, ThreadRegister, SuspendAtBoot, SuspendThread, EnterStart, StartInsert,
         StartFirst, waitVars, clientVars, kernelVars
<1> QED  BY <1>1, <1>2, KernelAssumption DEF WakeSound

LEMMA WakeContinue ==
  ASSUME IInv, LockSound, WakeSound, NEW t \in Threads, Continue(t)
  PROVE  WakeSound'
<1>0. /\ KInv /\ isRunning /\ running = t /\ t \in Contexts
      /\ pc \in [Threads -> PcValues] /\ waiting \in [Threads -> BOOLEAN]
      /\ pc[t] # "main" /\ depth \in [Threads -> Nat] /\ target \in [Threads -> Threads \cup {NoThread}]
      /\ t \in Registered
  BY DEF IInv, ClientSound, KInv, KernelTypeOK, StatusSound, Contexts, Continue, WaitMark, WaitYield,
         WaitReturn, NotifyStep, NotifyReturn, CancelTarget, CancelNothing, LockEntered,
         LockExited, StoreLock, CreateStack, At
<1>1. t # Idle
  BY <1>0 DEF WakeSound
<1>2. CASE WaitMark(t)
  <2>1. /\ waiting' = [waiting EXCEPT ![t] = TRUE] /\ pc' = [pc EXCEPT ![t] = "yield"]
        /\ UNCHANGED <<ready, running, isRunning, threads, depth>> /\ pc[t] = "mark"
    BY <1>2 DEF WaitMark, EventWaitSetWaiting, Goto, At, schedVars, bootVars
  <2> QED  BY <1>0, <1>1, <2>1 DEF WakeSound, Registered
<1>3. CASE WaitYield(t)
  <2>1. /\ PerformContextSwitch /\ pc' = [pc EXCEPT ![t] = "woken"] /\ pc[t] = "yield"
        /\ UNCHANGED depth
    BY <1>3 DEF WaitYield, Goto, At
  <2>2. lock = 0
    BY <1>0, <2>1 DEF WakeSound, LockSound, LockBelongsToRunning
  <2>3. \A u \in Threads :
          /\ pc'[u] \in {"mark", "yield"} => pc[u] = pc'[u]
          /\ pc'[u] = pc[u] \/ (lock = 0 /\ pc[u] = "yield" /\ pc'[u] = "woken")
    BY <1>0, <2>1, <2>2
  <2>4. pc'[Idle] = pc[Idle]
    BY <1>0, <1>1, <2>1, KernelAssumption
  <2> QED  BY <1>0, <2>1, <2>3, <2>4, WakeSwitch
<1>4. CASE NotifyStep(t)
  <2>1. /\ SweepStep(t) /\ UNCHANGED <<pc, depth, threads, running, isRunning>>
    BY <1>4 DEF NotifyStep, SweepStep, clientVars, bootVars
  <2>2. /\ waiting \in [Threads -> BOOLEAN] /\ waiting' \in [Threads -> BOOLEAN]
        /\ \A u \in Threads : /\ waiting'[u] => waiting[u]
                              /\ waiting'[u] /\ u \in Members(ready') => u \in Members(ready)
    BY <1>0, <2>1, WakeSweep
  <2>3. \A u \in Threads :
          /\ waiting'[u] => waiting[u] /\ pc'[u] = pc[u]
          /\ waiting'[u] /\ u \in Members(ready') => u \in Members(ready)
          /\ pc'[u] \in {"mark", "yield"} => pc[u] \in {"mark", "yield"} /\ depth'[u] = depth[u]
    BY <2>1, <2>2
  <2>4. Registered' = Registered
    BY <2>1 DEF Registered
  <2> QED  BY <2>1, <2>3, <2>4, WakeKept
<1>5. CASE WaitReturn(t) \/ NotifyReturn(t) \/ CancelTarget(t) \/ CancelNothing(t)
           \/ LockEntered(t) \/ LockExited(t) \/ CreateStack(t)
  <2>1. /\ UNCHANGED <<waiting, ready, running, isRunning, threads>>
        /\ \E l \in {"main", "cancelSweep"} : pc' = [pc EXCEPT ![t] = l]
        /\ \E d : depth' = [depth EXCEPT ![t] = d]
    <3>1. depth = [depth EXCEPT ![t] = depth[t]]
      BY <1>0
    <3> QED
      BY <1>5, <3>1 DEF WaitReturn, NotifyReturn, CancelTarget, CancelNothing, LockEntered,
         LockExited, StoreLock, CreateStack, Goto, GotoWith, SweepEnd, SweepStart, SetLock,
         kernelVars, bootVars, schedVars, waitVars
  <2>2. ~waiting[t]
    <3>1. pc[t] # "yield"
      BY <1>5 DEF WaitReturn, NotifyReturn, CancelTarget, CancelNothing, LockEntered,
         LockExited, StoreLock, CreateStack, At
    <3> QED  BY <1>0, <3>1 DEF WakeSound
  <2>3. \A u \in Threads :
          /\ waiting'[u] => waiting[u] /\ pc'[u] = pc[u]
          /\ pc'[u] \in {"mark", "yield"} => pc[u] \in {"mark", "yield"} /\ depth'[u] = depth[u]
    BY <1>0, <2>1, <2>2
  <2>4. pc'[Idle] = pc[Idle]
    BY <1>0, <1>1, <2>1, KernelAssumption
  <2> QED  BY <2>1, <2>3, <2>4, WakeKept DEF Registered
<1> QED  BY <1>2, <1>3, <1>4, <1>5 DEF Continue

LEMMA WakeCall ==
  ASSUME IInv, LockSound, WakeSound, NEW t \in Threads, Call(t), "suspend" \notin Ops
  PROVE  WakeSound'
<1>0. /\ KInv /\ isRunning /\ running = t /\ pc[t] = "main" /\ ~waiting[t]
      /\ pc \in [Threads -> PcValues] /\ waiting \in [Threads -> BOOLEAN]
      /\ depth \in [Threads -> Nat] /\ lock = depth[t]
  <2>1. isRunning /\ running = t /\ pc[t] = "main"
    BY DEF Call, WaitRefused, WaitPrepare, Yield, Notify, Suspend, Resume, RequestInterruption,
           Create, ChangePriority, AckInterruption, LockEnter, LockExit, ChangePreemptive, Calls, At
  <2> QED
    BY <2>1 DEF IInv, ClientSound, KInv, KernelTypeOK, WakeSound, LockSound, LockBelongsToRunning
<1>1. CASE Yield(t)
  BY <1>0, <1>1, WakeSwitch DEF Yield, clientVars
<1>2. ASSUME NEW ev \in Events \cup {NoEvent}, WaitPrepare(t, ev) PROVE WakeSound'
  <2>1. /\ t # Idle /\ lock = 0 /\ pc' = [pc EXCEPT ![t] = "mark"]
        /\ UNCHANGED <<waiting, ready, running, isRunning, threads, depth>>
    BY <1>2 DEF WaitPrepare, EventWaitSetEvent, PrepareRefused, Calls, Goto, bootVars, schedVars
  <2> QED  BY <1>0, <2>1, KernelAssumption DEF WakeSound, Registered
<1>3. ASSUME NEW u \in Threads, Create(t, u) PROVE WakeSound'
  <2>1. /\ t # Idle /\ u \notin Registered /\ ThreadRegister(u)
        /\ pc' = [pc EXCEPT ![t] = "create"] /\ UNCHANGED <<waiting, running, isRunning, depth>>
    BY <1>3 DEF Create, Calls, GotoWith, ThreadRegister, waitVars
  <2>2. Members(ready') \subseteq Members(ready) \cup {u} /\ Registered \subseteq Registered'
    <3>1. CASE Len(threads) < MaxThreads
      <4>1. threads' = Append(threads, u) /\ ready' = Insert(ready, u, prio)
        BY <1>0, <2>1, <3>1 DEF ThreadRegister
      <4>2. threads \in Seq(Threads) /\ ready \in Seq(Threads) /\ prio \in [Threads -> Nat]
        BY <1>0 DEF KInv, KernelTypeOK
      <4>3. Members(Insert(ready, u, prio)) = Members(ready) \cup {u}
        BY <4>2, InsertList
      <4>4. Members(threads') = Members(threads) \cup {u}
        BY <4>1, <4>2, AppendMembers
      <4> QED  BY <4>1, <4>3, <4>4 DEF Registered
    <3>2. CASE ~(Len(threads) < MaxThreads)
      BY <2>1, <3>2 DEF ThreadRegister, Registered
    <3> QED  BY <3>1, <3>2
  <2>3. ~waiting[u]
    BY <2>1 DEF WakeSound
  <2>4. \A v \in Threads :
          /\ waiting'[v] => waiting[v] /\ v # u /\ pc'[v] = pc[v]
          /\ pc'[v] \in {"mark", "yield"} => pc[v] \in {"mark", "yield"} /\ depth'[v] = depth[v]
    BY <1>0, <2>1, <2>3
  <2>5. pc'[Idle] = pc[Idle]
    BY <1>0, <2>1, KernelAssumption
  <2> QED  BY <2>1, <2>2, <2>4, <2>5, WakeKept
<1>4. ASSUME UNCHANGED <<waiting, ready, running, isRunning, threads, depth>>,
             NEW l \in PcValues \ {"mark", "yield"}, pc' = [pc EXCEPT ![t] = l],
             t # Idle \/ l = "main"
      PROVE  WakeSound'
  <2>1. \A v \in Threads :
          /\ waiting'[v] => waiting[v] /\ pc'[v] = pc[v]
          /\ pc'[v] \in {"mark", "yield"} => pc[v] \in {"mark", "yield"} /\ depth'[v] = depth[v]
    BY <1>0, <1>4
  <2>2. pc'[Idle] = pc[Idle]
    BY <1>0, <1>4, KernelAssumption
  <2> QED  BY <1>4, <2>1, <2>2, WakeKept DEF Registered
<1>5. ASSUME \/ \E ev \in Events \cup {NoEvent} : WaitRefused(t, ev)
             \/ \E ev \in Events, r \in NotifyRets : Notify(t, ev, r)
             \/ \E u \in Threads :
                  \/ RequestInterruption(t, u)
                  \/ \E p \in { Prio0[v] : v \in Threads \ {Idle} } : ChangePriority(t, u, p)
             \/ AckInterruption(t) \/ LockEnter(t) \/ LockExit(t)
             \/ \E flag \in BOOLEAN : ChangePreemptive(t, flag)
      PROVE  WakeSound'
  <2>1. UNCHANGED <<waiting, ready, running, isRunning, threads, depth>>
    BY <1>5 DEF WaitRefused, EventWaitRefused, Notify, SweepStart, RequestInterruption,
       SetInterruption, ChangePriority, SetPriority, AckInterruption, LockEnter, LockExit, LoadLock,
       ChangePreemptive, SetPreemptive, Goto, GotoWith, clientVars, kernelVars, bootVars, schedVars,
       waitVars
  <2>2. t # Idle
    BY <1>5 DEF WaitRefused, Notify, RequestInterruption, ChangePriority, AckInterruption,
       LockEnter, LockExit, ChangePreemptive, Calls
  <2>3. pc' = pc \/ \E l \in PcValues \ {"mark", "yield"} : pc' = [pc EXCEPT ![t] = l]
    BY <1>5 DEF WaitRefused, Notify, RequestInterruption, ChangePriority, AckInterruption,
       LockEnter, LockExit, ChangePreemptive, LoadLock, Goto, GotoWith, clientVars, PcValues
  <2>4. pc' = pc => pc' = [pc EXCEPT ![t] = "main"]
    BY <1>0
  <2>5. "main" \in PcValues \ {"mark", "yield"}
    BY DEF PcValues
  <2> QED  BY <1>4, <2>1, <2>2, <2>3, <2>4, <2>5
<1>6. \A u \in Threads : ~Suspend(t, u) /\ ~Resume(t, u)
  BY DEF Suspend, Resume, Calls
<1> QED  BY <1>1, <1>2, <1>3, <1>5, <1>6 DEF Call

LEMMA WakeInterrupt ==
  ASSUME IInv, WakeSound, Interrupt
  PROVE  WakeSound'
<1>0. /\ KInv /\ UNCHANGED clientVars /\ Isr \in Contexts
      /\ pc \in [Threads -> PcValues] /\ isRunning
  BY DEF IInv, ClientSound, BootSound, Contexts, Interrupt, Notified, Tick, InterruptContinues,
     InterruptEnabled, HandlerStep, TickThread, IsrSweepStep, TickCancelled, IsrNotified, IsrExit
<1>1. CASE SweepStep(Isr)
  <2>1. /\ waiting \in [Threads -> BOOLEAN] /\ waiting' \in [Threads -> BOOLEAN]
        /\ \A u \in Threads : /\ waiting'[u] => waiting[u]
                              /\ waiting'[u] /\ u \in Members(ready') => u \in Members(ready)
    BY <1>0, <1>1, WakeSweep
  <2>2. UNCHANGED <<pc, depth, threads, running, isRunning>>
    BY <1>0, <1>1 DEF SweepStep, clientVars, bootVars
  <2>3. \A u \in Threads :
          /\ waiting'[u] => waiting[u] /\ pc'[u] = pc[u]
          /\ waiting'[u] /\ u \in Members(ready') => u \in Members(ready)
          /\ pc'[u] \in {"mark", "yield"} => pc[u] \in {"mark", "yield"} /\ depth'[u] = depth[u]
    BY <2>1, <2>2
  <2>4. Registered' = Registered
    BY <2>2 DEF Registered
  <2> QED  BY <2>2, <2>3, <2>4, WakeKept
<1>2. CASE PerformContextSwitch
  BY <1>0, <1>2, WakeSwitch DEF clientVars
<1>3. CASE UNCHANGED <<waiting, ready, threads, running, isRunning>>
  BY <1>0, <1>3 DEF WakeSound, Registered, clientVars
<1>4. \/ SweepStep(Isr) \/ PerformContextSwitch
      \/ UNCHANGED <<waiting, ready, threads, running, isRunning>>
  BY DEF Interrupt, Notified, Tick, InterruptContinues, IsrNotify, IsrTick, HandlerStep, TickThread,
     IsrSweepStep, TickCancelled, IsrNotified, IsrExit, SweepStart, SweepEnd, kernelVars, bootVars,
     schedVars, waitVars
<1> QED  BY <1>1, <1>2, <1>3, <1>4

\* A step keeps the waits sound, with threads that no other one suspends.
LEMMA WakeSafe ==
  ASSUME "suspend" \notin Ops, IInv, LockSound, WakeSound, [Next]_vars
  PROVE  WakeSound'
<1>1. CASE Next
  BY <1>1, WakeBoot, WakeCall, WakeContinue, WakeInterrupt DEF Next
<1>2. CASE UNCHANGED vars
  BY <1>2 DEF WakeSound, Registered, vars, clientVars, kernelVars, bootVars, schedVars, waitVars
<1> QED  BY <1>1, <1>2

LEMMA WakeInit == Init => WakeSound /\ LockSound
BY KernelAssumption, SchedulerAssumption
DEF Init, WakeSound, LockSound, LockBelongsToRunning

LEMMA WakeEnds == WakeSound => NoSpuriousWake
BY DEF WakeSound, NoSpuriousWake, At

\* The application's waits end by a notification: no switch and no interrupt
\* between the writes of eventWaitPrepare and the return of the yield brings a
\* thread back that still waits.  A resume() would (OSThread.cpp:211).
THEOREM WaitsEndNotified ==
  ASSUME "suspend" \notin Ops
  PROVE  Spec => []NoSpuriousWake
<1>1. IInv /\ LockSound /\ WakeSound /\ [Next]_vars => WakeSound'
  BY WakeSafe
<1>2. IInv /\ LockSound /\ [Next]_vars => LockSound'
  BY LockSafe
<1> QED  BY <1>1, <1>2, WakeInit, WakeEnds, Invariance, PTL DEF Spec

\* The same of the first of the two applications of OSApplications, of which only
\* the second one may suspend threads.
THEOREM EventsEndNotified ==
  ASSUME "suspend" \notin Ops
  PROVE  ApplicationsSpec => []EventsNoSpuriousWake
<1> DEFINE EventsSound == application = "events" => IInv /\ LockSound /\ WakeSound
<1>1. ApplicationsInit => EventsSound
  BY WakeInit, InitInv DEF ApplicationsInit
<1>2. EventsSound /\ [ApplicationsNext]_applicationVars => EventsSound'
  <2>1. SUFFICES ASSUME EventsSound, [ApplicationsNext]_applicationVars, application' = "events"
                 PROVE  IInv' /\ LockSound' /\ WakeSound'
    OBVIOUS
  <2>2. application = "events" /\ [Next]_vars
    BY <2>1 DEF ApplicationsNext, applicationVars
  <2>3. IInv /\ LockSound /\ WakeSound
    BY <2>1, <2>2
  <2> HIDE DEF EventsSound
  <2> QED  BY <2>2, <2>3, NextSafe, LockSafe, WakeSafe
<1>3. EventsSound => EventsNoSpuriousWake
  BY WakeEnds DEF EventsNoSpuriousWake
<1> HIDE DEF EventsSound
<1> QED  BY <1>1, <1>2, <1>3, PTL DEF ApplicationsSpec

-----------------------------------------------------------------------------
(***************************************************************************)
(* The order of the ready list.                                            *)
(***************************************************************************)

\* In a list without duplicates two threads have one order.
LEMMA BeforeOnce ==
  ASSUME NEW S, NEW list \in Seq(S), NoDuplicates(list), NEW t, NEW u,
         Before(list, t, u), Before(list, u, t)
  PROVE  FALSE
BY DEF Before, NoDuplicates

\* What Insert puts before what: what was before, or by priority what is inserted.
LEMMA InsertBefore ==
  ASSUME NEW S, NEW list \in Seq(S), NEW x \in S, NEW pri \in [S -> Nat],
         Sorted(list, pri), NEW t, NEW u, Before(Insert(list, x, pri), u, t)
  PROVE  \/ Before(list, u, t)
         \/ ~Find(list, x) /\ t = x /\ pri[x] <= pri[u]
         \/ ~Find(list, x) /\ u = x /\ pri[x] > pri[t]
<1>1. CASE Find(list, x)
  BY <1>1 DEF Insert
<1>2. CASE ~Find(list, x)
  <2> DEFINE i == InsertAt(list, pri[x], pri)
             new == ShiftRight(list, i, x)
  <2>1. pri[x] \in Nat /\ Len(list) \in Nat /\ \A j \in 1..Len(list) : pri[list[j]] \in Nat
    OBVIOUS
  <2>2. /\ i \in 1..Len(list) + 1
        /\ i <= Len(list) => pri[x] > pri[list[i]]
        /\ \A j \in 1..i - 1 : pri[x] <= pri[list[j]]
    BY <2>1, InsertAtSlot
  <2>3. Insert(list, x, pri) = new
    BY <1>2 DEF Insert
  <2> HIDE DEF i
  <2>4. /\ DOMAIN new = 1..Len(list) + 1 /\ new \in Seq(S) /\ Len(new) = Len(list) + 1
        /\ \A j \in 1..Len(list) + 1 :
             new[j] = IF j < i THEN list[j] ELSE IF j = i THEN x ELSE list[j - 1]
    BY <2>2, ShiftRightList DEF ShiftRight
  <2> HIDE DEF new
  <2>5. PICK a, b \in 1..Len(list) + 1 : a < b /\ new[a] = u /\ new[b] = t
    BY <2>3, <2>4 DEF Before
  <2>6. CASE a # i /\ b # i
    <3> DEFINE c == IF a < i THEN a ELSE a - 1
               d == IF b < i THEN b ELSE b - 1
    <3>1. c \in 1..Len(list) /\ d \in 1..Len(list) /\ c < d
      BY <2>1, <2>2, <2>5, <2>6
    <3>2. list[c] = u /\ list[d] = t
      BY <2>2, <2>4, <2>5, <2>6
    <3> HIDE DEF c, d
    <3> QED  BY <3>1, <3>2 DEF Before
  <2>7. CASE a = i
    <3>1. u = x /\ b - 1 \in 1..Len(list) /\ i <= b - 1 /\ t = list[b - 1]
      BY <2>1, <2>2, <2>4, <2>5, <2>7
    <3>2. pri[list[i]] >= pri[list[b - 1]]
      BY <2>1, <2>2, <3>1 DEF Sorted
    <3>3. i \in 1..Len(list)
      BY <2>1, <2>2, <3>1
    <3> QED  BY <1>2, <2>1, <2>2, <3>1, <3>2, <3>3
  <2>8. CASE b = i
    <3>1. t = x /\ a \in 1..i - 1 /\ u = list[a]
      BY <2>1, <2>2, <2>4, <2>5, <2>8
    <3> QED  BY <1>2, <2>2, <3>1
  <2> QED  BY <2>6, <2>7, <2>8
<1> QED  BY <1>1, <1>2

\* Remove changes no order.
LEMMA RemoveBefore ==
  ASSUME NEW S, NEW list \in Seq(S), NEW x, NEW t, NEW u, Before(Remove(list, x), u, t)
  PROVE  Before(list, u, t)
<1>1. CASE x = Idle \/ ~Find(list, x)
  BY <1>1 DEF Remove
<1>2. CASE x # Idle /\ Find(list, x)
  <2> DEFINE i == CHOOSE i \in 1..Len(list) : list[i] = x
             new == ShiftLeft(list, i)
  <2>1. i \in 1..Len(list)
    BY <1>2 DEF Find
  <2>2. Remove(list, x) = new
    BY <1>2 DEF Remove
  <2> HIDE DEF i
  <2>3. /\ Len(list) \in Nat /\ Len(new) = Len(list) - 1
        /\ \A j \in 1..Len(list) - 1 : new[j] = IF j < i THEN list[j] ELSE list[j + 1]
    BY <2>1 DEF ShiftLeft
  <2> HIDE DEF new
  <2>4. PICK a, b \in 1..Len(list) - 1 : a < b /\ new[a] = u /\ new[b] = t
    BY <2>2, <2>3 DEF Before
  <2> DEFINE c == IF a < i THEN a ELSE a + 1
             d == IF b < i THEN b ELSE b + 1
  <2>5. c \in 1..Len(list) /\ d \in 1..Len(list) /\ c < d
    BY <2>1, <2>3, <2>4
  <2>6. list[c] = u /\ list[d] = t
    BY <2>3, <2>4
  <2> HIDE DEF c, d
  <2> QED  BY <2>5, <2>6 DEF Before
<1> QED  BY <1>1, <1>2

\* The best thread of a sorted list is its first.
LEMMA TopIsBest ==
  ASSUME NEW S, NEW list \in Seq(S), NEW pri \in [S -> Nat], Sorted(list, pri),
         NEW u \in Members(list)
  PROVE  pri[GetTop(list)] >= pri[u]
<1>1. PICK i \in 1..Len(list) : list[i] = u
  BY DEF Members
<1>2. 1 \in 1..Len(list) /\ i >= 1 /\ list[1] \in S /\ list[i] \in S
  BY <1>1
<1>3. CASE i = 1
  BY <1>1, <1>2, <1>3 DEF GetTop
<1>4. CASE i > 1
  BY <1>1, <1>2, <1>4 DEF Sorted, GetTop
<1> QED  BY <1>2, <1>3, <1>4

\* What a step does to the ready list and the running thread, when no priority is
\* changed.
Switched == isRunning /\ ready' = Rescheduled /\ running' = GetTop(ready')
Changed ==
  \/ ready' = ready /\ running' = running
  \/ ready' = ready /\ running' = GetTop(ready)
  \/ running' = running /\ \E x \in Threads : ready' = Insert(ready, x, prio)
  \/ running' = running /\ \E x \in Threads : ready' = Remove(ready, x)
  \/ Switched

\* A switch.
LEMMA SwitchChanges ==
  ASSUME isRunning, PerformContextSwitch
  PROVE  Changed
BY DEF PerformContextSwitch, Changed, Switched

\* An iteration of an eventNotify inserts a thread, or none.
LEMMA SweepChanges ==
  ASSUME KInv, NEW c \in Contexts, SweepStep(c)
  PROVE  Changed
<1> DEFINE s == sweep[c]
           t == threads[s.at + 1]
<1>1. /\ KernelTypeOK /\ SweepsInRange /\ ~SweepDone(c)
      /\ NotifyThread(t, s.ev, s.ret) /\ running' = running
  BY DEF KInv, SweepStep
<1>2. s \in Sweeps /\ Len(threads) \in Nat /\ threads \in Seq(Threads)
  BY <1>1 DEF KernelTypeOK
<1>3. s.i \in Nat /\ s.i < Len(threads) /\ s.at \in Nat /\ s.at < Len(threads)
  BY <1>1, <1>2 DEF SweepDone, Sweeps, SweepsInRange
<1>4. t \in Threads
  BY <1>2, <1>3
<1> HIDE DEF t
<1> QED  BY <1>1, <1>4 DEF NotifyThread, Changed

\* Every step of the application is one of those.
LEMMA StepChanges ==
  ASSUME IInv, [Next]_vars, "priority" \notin Ops
  PROVE  Changed /\ prio' = prio
<1>0. KInv /\ Isr \in Contexts /\ \A t \in Threads : t \in Contexts
  BY DEF IInv, Contexts
<1>1. CASE Boot
  <2>1. CASE Construct
    <3>1. Initial[bootIdx + 1] \in Threads /\ ~isRunning
      BY <2>1, SchedulerAssumption DEF IInv, ClientSound, BootSound, Construct
    <3> QED  BY <2>1, <3>1 DEF Construct, ThreadRegister, Changed, statusVars
  <2>2. CASE \E t \in Threads : SuspendAtBoot(t)
    BY <2>2 DEF SuspendAtBoot, SuspendThread, Changed
  <2>3. CASE EnterStart
    BY <2>3 DEF EnterStart, Changed, kernelVars, schedVars, statusVars
  <2>4. CASE StartInsert
    <3>1. threads[bootIdx + 1] \in Threads
      BY <2>4 DEF StartInsert, IInv, KInv, KernelTypeOK, ClientSound
    <3> QED  BY <2>4, <3>1 DEF StartInsert, Changed, statusVars
  <2>5. CASE StartFirst
    BY <2>5 DEF StartFirst, Changed, statusVars
  <2> QED  BY <1>1, <2>1, <2>2, <2>3, <2>4, <2>5 DEF Boot
<1>2. ASSUME NEW t \in Threads, Call(t) PROVE Changed /\ prio' = prio
  <2>1. CASE Yield(t)
    BY <2>1, SwitchChanges DEF Yield, At, PerformContextSwitch, statusVars
  <2>2. ASSUME NEW u \in Threads, Suspend(t, u) \/ Resume(t, u) \/ Create(t, u)
        PROVE  Changed /\ prio' = prio
    BY <2>2 DEF Suspend, Resume, Create, SuspendThread, ResumeThread, ThreadRegister, Changed,
       statusVars
  <2>3. ASSUME \/ \E ev \in Events \cup {NoEvent} : WaitRefused(t, ev) \/ WaitPrepare(t, ev)
               \/ \E ev \in Events, r \in NotifyRets : Notify(t, ev, r)
               \/ \E u \in Threads : RequestInterruption(t, u)
               \/ AckInterruption(t) \/ LockEnter(t) \/ LockExit(t)
               \/ \E flag \in BOOLEAN : ChangePreemptive(t, flag)
        PROVE  Changed /\ prio' = prio
    BY <2>3 DEF WaitRefused, EventWaitRefused, WaitPrepare, EventWaitSetEvent, Notify, SweepStart,
       RequestInterruption, SetInterruption, AckInterruption, LockEnter, LockExit, LoadLock,
       ChangePreemptive, SetPreemptive, Changed, kernelVars, schedVars, statusVars
  <2>4. \A u \in Threads : \A p : ~ChangePriority(t, u, p)
    BY DEF ChangePriority, Calls
  <2> QED  BY <1>2, <2>1, <2>2, <2>3, <2>4 DEF Call
<1>3. ASSUME NEW t \in Threads, Continue(t) PROVE Changed /\ prio' = prio
  <2>1. CASE WaitYield(t)
    BY <2>1, SwitchChanges DEF WaitYield, At, PerformContextSwitch, statusVars
  <2>2. CASE NotifyStep(t)
    BY <1>0, <2>2, SweepChanges DEF NotifyStep, SweepStep, statusVars
  <2>3. CASE WaitMark(t) \/ WaitReturn(t) \/ NotifyReturn(t) \/ CancelTarget(t)
             \/ CancelNothing(t) \/ LockEntered(t) \/ LockExited(t) \/ CreateStack(t)
    BY <2>3 DEF WaitMark, EventWaitSetWaiting, WaitReturn, NotifyReturn, SweepEnd, CancelTarget,
       SweepStart, CancelNothing, LockEntered, LockExited, StoreLock, SetLock, CreateStack, Changed,
       kernelVars, schedVars, statusVars
  <2> QED  BY <1>3, <2>1, <2>2, <2>3 DEF Continue
<1>4. CASE Interrupt
  <2>1. CASE SweepStep(Isr)
    BY <1>0, <2>1, SweepChanges DEF SweepStep, statusVars
  <2>2. CASE PerformContextSwitch
    <3>1. isRunning
      BY <1>4 DEF IInv, BootSound, Interrupt, Notified, Tick, InterruptContinues, InterruptEnabled,
         HandlerStep, TickThread, IsrSweepStep, TickCancelled, IsrNotified, IsrExit
    <3> QED  BY <2>2, <3>1, SwitchChanges DEF PerformContextSwitch, statusVars
  <2>3. CASE UNCHANGED <<ready, running, prio>>
    BY <2>3 DEF Changed
  <2>4. SweepStep(Isr) \/ PerformContextSwitch \/ UNCHANGED <<ready, running, prio>>
    BY <1>4 DEF Interrupt, Notified, Tick, InterruptContinues, IsrNotify, IsrTick, HandlerStep,
       TickThread, IsrSweepStep, TickCancelled, IsrNotified, IsrExit, SweepStart, SweepEnd,
       kernelVars, schedVars, statusVars
  <2> QED  BY <2>1, <2>2, <2>3, <2>4
<1>5. CASE UNCHANGED vars
  BY <1>5 DEF Changed, vars, kernelVars, schedVars, statusVars
<1> QED  BY <1>1, <1>2, <1>3, <1>4, <1>5 DEF Next

\* The lists of a switch.
LEMMA SwitchLists ==
  ASSUME KInv, isRunning, Sorted(ready, prio)
  PROVE  LET others == Remove(ready, running)
         IN  /\ running \in Threads /\ ready \in Seq(Threads) /\ prio \in [Threads -> Nat]
             /\ others \in Seq(Threads) /\ Sorted(others, prio)
             /\ Rescheduled = others \/ Rescheduled = Insert(others, running, prio)
<1>1. /\ ready \in Seq(Threads) /\ NoDuplicates(ready) /\ prio \in [Threads -> Nat]
      /\ running \in Threads
  BY GetTopMember DEF KInv, KernelTypeOK, ReadyListSound, StatusSound, Registered
<1>2. Remove(ready, running) \in Seq(Threads) /\ Sorted(Remove(ready, running), prio)
  BY <1>1, RemoveList
<1> QED  BY <1>1, <1>2 DEF Rescheduled

\* The list stays sorted by priority.
LEMMA SortedStep ==
  ASSUME IInv, Sorted(ready, prio), Changed, prio' = prio
  PROVE  Sorted(ready, prio)'
<1>1. /\ ready \in Seq(Threads) /\ NoDuplicates(ready) /\ prio \in [Threads -> Nat] /\ KInv
  BY DEF IInv, KInv, KernelTypeOK, ReadyListSound
<1>2. CASE ready' = ready
  BY <1>2
<1>3. ASSUME NEW x \in Threads, ready' = Insert(ready, x, prio) PROVE Sorted(ready, prio)'
  BY <1>1, <1>3, InsertSorted
<1>4. ASSUME NEW x \in Threads, ready' = Remove(ready, x) PROVE Sorted(ready, prio)'
  BY <1>1, <1>4, RemoveList
<1>5. CASE Switched
  <2>1. Sorted(Rescheduled, prio)
    BY <1>1, <1>5, SwitchLists, InsertSorted DEF Switched
  <2> QED  BY <1>5, <2>1 DEF Switched
<1> QED  BY <1>2, <1>3, <1>4, <1>5 DEF Changed

\* At every moment it is.
LEMMA SortedInit == Init => Sorted(ready, prio)
BY DEF Init, Sorted

LEMMA SortedInvariant ==
  ASSUME "priority" \notin Ops
  PROVE  Spec => []Sorted(ready, prio)
<1>1. Init => Sorted(ready, prio)
  BY SortedInit
<1>2. IInv /\ Sorted(ready, prio) /\ [Next]_vars => Sorted(ready, prio)'
  BY StepChanges, SortedStep
<1> QED  BY <1>1, <1>2, Invariance, PTL DEF Spec

\* A step that switches enters the first of a list that is sorted.
LEMMA StepEntersBest ==
  ASSUME "priority" \notin Ops, IInv, Sorted(ready, prio), [Next]_vars
  PROVE  EntersBest
<1>1. Changed /\ IInv' /\ Sorted(ready, prio)'
  BY StepChanges, SortedStep, NextSafe
<1>2. running' # running => running' = GetTop(ready')
  BY <1>1 DEF Changed, Switched
<1>3. ready' \in Seq(Threads) /\ prio' \in [Threads -> Nat]
  BY <1>1 DEF IInv, KInv, KernelTypeOK
<1> QED  BY <1>1, <1>2, <1>3, TopIsBest DEF EntersBest

\* A switch, at the start, in a yield or at the end of an interrupt, enters a
\* thread that no ready one is better than; setPriority, which does not move the
\* thread in the list, would break it (OSThread.h:425).
THEOREM BestThreadIsEntered ==
  ASSUME "priority" \notin Ops
  PROVE  Spec => HighestPriorityRuns
<1>1. IInv /\ Sorted(ready, prio) /\ [Next]_vars => [EntersBest]_vars
  BY StepEntersBest
<1> QED  BY <1>1, Invariance, SortedInvariant, PTL DEF Spec, HighestPriorityRuns

\* A step that reorders two ready threads is one in which the first gives up the
\* processor.
LEMMA StepKeepsOrder ==
  ASSUME "priority" \notin Ops, IInv, Sorted(ready, prio), [Next]_vars
  PROVE  KeepsOrder
<1>1. /\ ready \in Seq(Threads) /\ NoDuplicates(ready) /\ prio \in [Threads -> Nat] /\ KInv
      /\ Changed
  BY StepChanges DEF IInv, KInv, KernelTypeOK, ReadyListSound
<1>2. SUFFICES ASSUME NEW t \in Threads, NEW u \in Threads, Before(ready, t, u),
                      Before(ready', u, t)
               PROVE  t = running /\ prio[t] <= prio[u]
  BY DEF KeepsOrder
<1>3. ~Before(ready, u, t)
  BY <1>1, <1>2, BeforeOnce
<1>4. Find(ready, t) /\ Find(ready, u) /\ prio[t] \in Nat /\ prio[u] \in Nat
      /\ prio[t] >= prio[u]
  BY <1>1, <1>2 DEF Before, Find, Sorted
<1>5. ASSUME NEW x \in Threads, ready' = Insert(ready, x, prio) PROVE FALSE
  BY <1>1, <1>2, <1>3, <1>4, <1>5, InsertBefore
<1>6. ASSUME NEW x \in Threads, ready' = Remove(ready, x) PROVE FALSE
  BY <1>1, <1>2, <1>3, <1>6, RemoveBefore
<1>7. CASE Switched
  <2> DEFINE others == Remove(ready, running)
  <2>1. /\ running \in Threads /\ others \in Seq(Threads) /\ Sorted(others, prio)
        /\ ready' = others \/ ready' = Insert(others, running, prio)
    BY <1>1, <1>7, SwitchLists DEF Switched
  <2>2. ~Before(others, u, t)
    BY <1>1, <1>3, RemoveBefore
  <2> HIDE DEF others
  <2>3. ready' = Insert(others, running, prio)
    BY <1>2, <2>1, <2>2
  <2>4. \/ t = running /\ prio[running] <= prio[u]
        \/ u = running /\ prio[running] > prio[t]
    BY <1>1, <1>2, <2>1, <2>2, <2>3, InsertBefore
  <2> QED  BY <1>4, <2>4
<1> QED  BY <1>1, <1>2, <1>3, <1>5, <1>6, <1>7 DEF Changed

\* A ready thread is overtaken only when it gives up the processor, and then by its
\* equals only: neither a notification nor another's wait, suspension or preemption
\* reorders the list.
THEOREM OrderIsKept ==
  ASSUME "priority" \notin Ops
  PROVE  Spec => NoOvertaking
<1>1. IInv /\ Sorted(ready, prio) /\ [Next]_vars => [KeepsOrder]_vars
  BY StepKeepsOrder
<1> QED  BY <1>1, Invariance, SortedInvariant, PTL DEF Spec, NoOvertaking

\* The list of the first of the two applications is sorted, although the second
\* one may change priorities.
EventsSorted == application = "events" => IInv /\ Sorted(ready, prio)

LEMMA EventsSortedInvariant ==
  ASSUME "priority" \notin Ops
  PROVE  ApplicationsSpec => []EventsSorted
<1>1. ApplicationsInit => EventsSorted
  BY InitInv, SortedInit DEF ApplicationsInit, EventsSorted
<1>2. EventsSorted /\ [ApplicationsNext]_applicationVars => EventsSorted'
  <2>1. SUFFICES ASSUME EventsSorted, [ApplicationsNext]_applicationVars, application' = "events"
                 PROVE  IInv' /\ Sorted(ready, prio)'
    BY DEF EventsSorted
  <2>2. application = "events" /\ [Next]_vars
    BY <2>1 DEF ApplicationsNext, applicationVars
  <2>3. IInv /\ Sorted(ready, prio)
    BY <2>1, <2>2 DEF EventsSorted
  <2> QED  BY <2>2, <2>3, NextSafe, StepChanges, SortedStep
<1> QED  BY <1>1, <1>2, PTL DEF ApplicationsSpec

\* BestThreadIsEntered for the first application.
THEOREM EventsEnterBest ==
  ASSUME "priority" \notin Ops
  PROVE  ApplicationsSpec => EventsBestRuns
<1> DEFINE EventsBest == application = "events" => EntersBest
<1>1. EventsSorted /\ [ApplicationsNext]_applicationVars => [EventsBest]_applicationVars
  BY StepEntersBest DEF ApplicationsNext, applicationVars, EventsSorted
<1> HIDE DEF EventsBest
<1>2. EventsBestRuns <=> [][EventsBest]_applicationVars
  BY DEF EventsBestRuns, EventsBest
<1> QED  BY <1>1, <1>2, EventsSortedInvariant, PTL DEF ApplicationsSpec

\* OrderIsKept for the first application.
THEOREM EventsKeepOrder ==
  ASSUME "priority" \notin Ops
  PROVE  ApplicationsSpec => EventsNoOvertaking
<1> DEFINE EventsOrder == application = "events" => KeepsOrder
<1>1. EventsSorted /\ [ApplicationsNext]_applicationVars => [EventsOrder]_applicationVars
  BY StepKeepsOrder DEF ApplicationsNext, applicationVars, EventsSorted
<1> HIDE DEF EventsOrder
<1>2. EventsNoOvertaking <=> [][EventsOrder]_applicationVars
  BY DEF EventsNoOvertaking, EventsOrder
<1> QED  BY <1>1, <1>2, EventsSortedInvariant, PTL DEF ApplicationsSpec

=============================================================================
