------------------------------- MODULE OSTimer -------------------------------
(***************************************************************************)
(* class OSTimer (kernel/src/OSTimer.cpp) with its two instances, the one  *)
(* that counts scheduler ticks and the one that counts seconds, and class  *)
(* Timer (kernel/src/Timer.cpp): threads that sleep and start custom       *)
(* timers, and the interrupts of the two clocks.                           *)
(*                                                                         *)
(* A thread sleeps with its own address as the event, which is all that    *)
(* sleep() is used for in the repository.  Left out: sleep(0), the sleep   *)
(* of a thread that is interrupted already (both return at once), the      *)
(* measurements of the debug build, uptime.                                *)
(***************************************************************************)
EXTENDS OSStarted, OSTimerList

CONSTANTS
  Clocks,       \* the OSTimer objects
  Ticks,        \* the one whose interrupt is the scheduler's tick
  Size,         \* m_size
  Durations,    \* the ticks that threads sleep or start timers for
  Sleepers,     \* the threads that sleep
  Timers,       \* the Timer objects, on the clock Ticks
  TimerEvent,   \* per timer: m_event, as set by eventSet()
  CustomTimer,  \* OSEvent::OS_CUSTOM_TIMER
  TickMod,      \* 2^16 in the code: the values of OSTimerTicks_t
  IntWraps      \* whether int has the width of OSTimerTicks_t (AVR8)

ASSUME TimerAssumption ==
  /\ Ticks \in Clocks
  /\ Size \in Nat /\ Durations \subseteq Nat \ {0}
  /\ Threads \subseteq Events
  /\ TimerEvent \in [Timers -> Events]
  /\ CustomTimer \notin Events /\ Timers \cap Threads = {}
  /\ TickMod \in Nat \ {0}
  /\ Sleepers \subseteq Threads /\ IntWraps \in BOOLEAN

VARIABLES
  list,      \* per clock: m_pArray[0 .. m_count - 1]
  now,       \* per clock: m_ticks
  periodic,  \* per timer: m_periodic
  start,     \* per timer: m_ticks, the ticks it was started for
  call,      \* per thread: the arguments of its call, and where it began
  isrClock,  \* the clock whose interrupt runs
  left,      \* history, per thread: the ticks its sleep is still to last
  armed      \* history: the timers in the array that are to go off

historyVars == <<left, armed>>
clockVars == <<list, now, periodic, start, call, isrClock>>
vars == <<kernelVars, isrVars, threadVars, clockVars, historyVars>>

NoCall == [clock |-> Ticks, ticks |-> 0, begin |-> 0, timer |-> NoThread]

Sleeping == {"insert", "perform", "woken"}

\* What an alarm is set for: the sleep of a thread, or a timer; all timers share
\* one event, and starting one removes the alarms of the others.
Groups == { {t} : t \in Threads \ {Idle} } \cup {Timers}

Init ==
  /\ StartedInit
  /\ list = [c \in Clocks |-> <<>>]
  /\ now = [c \in Clocks |-> 0]
  /\ periodic = [tm \in Timers |-> FALSE]
  /\ start = [tm \in Timers |-> 0]
  /\ call = [t \in Threads |-> NoCall]
  /\ isrClock = Ticks
  /\ left = [t \in Threads |-> 0]
  /\ armed = {}

Called(t, rec) == call' = [call EXCEPT ![t] = rec]

\* The call is over; the thread goes on at l.
Return(t, l) == Called(t, NoCall) /\ Goto(t, l)

SetList(c, l) == list' = [list EXCEPT ![c] = l]

-----------------------------------------------------------------------------
(***************************************************************************)
(* sleep                                                                   *)
(***************************************************************************)

\* sleep(n) begins with eventRemove: "Normally the event should not be there".
Sleep(t, c, n) ==
  /\ Free(t) /\ t \in Sleepers /\ ~interrupted[t]
  /\ SetList(c, RemoveEvent(list[c], t))
  /\ Called(t, [NoCall EXCEPT !.clock = c, !.ticks = n])
  /\ Goto(t, "insert")
  /\ UNCHANGED <<kernelVars, now, periodic, start, isrClock, historyVars>>

\* The critical section inserts the alarm and prepares the wait.
SleepInsert(t) ==
  LET c == call[t].clock
      n == call[t].ticks
  IN  /\ At(t, "insert") /\ Len(list[c]) < Size
      /\ SetList(c, InsertAlarm(list[c], n, t, "event"))
      /\ \/ /\ EventWaitPrepare(t, t)
            /\ left' = [left EXCEPT ![t] = n]
            /\ Goto(t, "perform")
            /\ UNCHANGED call
         \/ EventWaitRefused(t, t) /\ Return(t, "main") /\ UNCHANGED left
      /\ UNCHANGED <<now, periodic, start, isrClock, armed>>

\* Variant: it waits nevertheless.
SleepFull_Waits(t) ==
  /\ At(t, "insert") /\ Len(list[call[t].clock]) = Size
  /\ EventWaitPrepare(t, t)
  /\ Goto(t, "perform")
  /\ UNCHANGED <<clockVars, historyVars>>

\* With the array full there is no wait; sleep returns what the last wait of
\* the thread returned.
SleepFull(t) ==
  /\ At(t, "insert") /\ Len(list[call[t].clock]) = Size
  /\ Return(t, "main")
  /\ UNCHANGED <<kernelVars, list, now, periodic, start, isrClock, historyVars>>

SleepPerform(t) ==
  /\ At(t, "perform")
  /\ PerformContextSwitch
  /\ Goto(t, "woken")
  /\ UNCHANGED <<clockVars, historyVars>>

SleepReturn(t) ==
  /\ At(t, "woken")
  /\ Return(t, "main")
  /\ left' = [left EXCEPT ![t] = 0]
  /\ UNCHANGED <<kernelVars, list, now, periodic, start, isrClock, armed>>

-----------------------------------------------------------------------------
(***************************************************************************)
(* sleep with the scheduler locked: a busy wait.                           *)
(***************************************************************************)

Lock(t) ==
  /\ Free(t)
  /\ SetLock(lock + 1)
  /\ Goto(t, "locked")
  /\ UNCHANGED <<clockVars, historyVars>>

Unlock(t) ==
  /\ At(t, "locked")
  /\ SetLock(lock - 1)
  /\ Goto(t, "main")
  /\ UNCHANGED <<clockVars, historyVars>>

SleepLocked(t, c, n) ==
  /\ At(t, "locked")
  /\ Called(t, [NoCall EXCEPT !.clock = c, !.ticks = n, !.begin = now[c]])
  /\ Goto(t, "busy")
  /\ UNCHANGED <<kernelVars, list, now, periodic, start, isrClock, historyVars>>

\* getTicks() - begTicks: both are promoted to int, where the difference does
\* not wrap unless int is as narrow.
Elapsed(t) ==
  LET d == now[call[t].clock] - call[t].begin
  IN  IF IntWraps THEN d % TickMod ELSE d

BusyWaitOver(t) ==
  /\ At(t, "busy") /\ Elapsed(t) >= call[t].ticks
  /\ Return(t, "locked")
  /\ UNCHANGED <<kernelVars, list, now, periodic, start, isrClock, historyVars>>

-----------------------------------------------------------------------------
(***************************************************************************)
(* Custom timers.                                                          *)
(***************************************************************************)

\* start() writes the two fields one after the other; a timer that goes off
\* between the two is removed again by what follows.
StartTimer(t, tm, n, p) ==
  /\ Free(t)
  /\ start' = [start EXCEPT ![tm] = n]
  /\ periodic' = [periodic EXCEPT ![tm] = p]
  /\ Called(t, [NoCall EXCEPT !.ticks = n, !.timer = tm])
  /\ Goto(t, "rearm")
  /\ UNCHANGED <<kernelVars, list, now, isrClock, historyVars>>

\* OSTimer::eventNotify removes the event, and then inserts the alarm if there
\* is room for it.
Rearm(t) ==
  /\ At(t, "rearm")
  /\ SetList(Ticks, RemoveEvent(list[Ticks], CustomTimer))
  /\ armed' = {}
  /\ Goto(t, "arm")
  /\ UNCHANGED <<kernelVars, now, periodic, start, call, isrClock, left>>

Arm(t) ==
  /\ At(t, "arm")
  /\ \/ /\ Len(list[Ticks]) < Size
        /\ SetList(Ticks, InsertAlarm(list[Ticks], call[t].ticks, CustomTimer, call[t].timer))
        /\ armed' = armed \cup {call[t].timer}
     \/ Len(list[Ticks]) = Size /\ UNCHANGED <<list, armed>>
  /\ Return(t, "main")
  /\ UNCHANGED <<kernelVars, now, periodic, start, isrClock, left>>

\* stop() lets the pending event go off.  It writes two fields, either of which
\* keeps the timer from being inserted again.
StopTimer(t, tm) ==
  /\ Free(t)
  /\ start' = [start EXCEPT ![tm] = 0]
  /\ periodic' = [periodic EXCEPT ![tm] = FALSE]
  /\ UNCHANGED <<kernelVars, isrVars, threadVars, list, now, call, isrClock, historyVars>>

-----------------------------------------------------------------------------
(***************************************************************************)
(* The interrupts of the clocks.                                           *)
(***************************************************************************)

\* The end of OSTimer::interruptTick of clock c: the scheduler's tick follows
\* in the interrupt of the ticks, and nothing in that of the seconds.
AfterClock(c) == IsrGoto("tick", IF c = Ticks THEN 0 ELSE Len(threads))

\* The clock counts, and counts down the first alarm.
ClockTick(c) ==
  /\ isrPc = "off" /\ pc[running] # "cancelSweep"
  /\ isrClock' = c
  /\ now' = [now EXCEPT ![c] = (@ + 1) % TickMod]
  /\ IF list[c] = <<>> THEN UNCHANGED list ELSE SetList(c, CountDown(list[c]))
  /\ IF list[c] # <<>> /\ list[c][1].ticks = 1 THEN IsrGoto("expire", 0) ELSE AfterClock(c)
  /\ left' = [t \in Threads |-> IF call[t].clock = c /\ left[t] > 0 THEN left[t] - 1 ELSE left[t]]
  /\ UNCHANGED <<kernelVars, threadVars, periodic, start, call, armed>>

Head1 == list[isrClock][1]

\* The first alarm is due: its event, or timerEvent() of its timer, notifies.
Expire ==
  /\ isrPc = "expire"
  /\ IF Head1.event = CustomTimer
     THEN SweepStart(Isr, TimerEvent[Head1.arg], "OS_VOID")
     ELSE SweepStart(Isr, Head1.event, Head1.arg)
  /\ IsrGoto("fire", 0)
  /\ UNCHANGED <<threadVars, clockVars, historyVars>>

ExpireStep ==
  /\ isrPc = "fire"
  /\ SweepStep(Isr)
  /\ UNCHANGED <<isrVars, threadVars, clockVars, historyVars>>

\* Variant: a periodic timer goes off once.
AfterFire_Once == Tail(list[isrClock])

\* The array after the first entry has gone off; a periodic timer is inserted
\* again.
AfterFire ==
  LET rest == Tail(list[isrClock])
  IN  IF Head1.event = CustomTimer /\ periodic[Head1.arg]
      THEN InsertAlarm(rest, start[Head1.arg], CustomTimer, Head1.arg)
      ELSE rest

\* The loop goes on while the first entry is due.
Fired ==
  /\ isrPc = "fire"
  /\ SweepEnd(Isr)
  /\ SetList(isrClock, AfterFire)
  /\ IF AfterFire # <<>> /\ AfterFire[1].ticks = 0 THEN IsrGoto("expire", 0)
                                                   ELSE AfterClock(isrClock)
  /\ armed' = IF Head1.event = CustomTimer /\ ~periodic[Head1.arg]
              THEN armed \ {Head1.arg} ELSE armed
  /\ UNCHANGED <<threadVars, now, periodic, start, call, isrClock, left>>

ClockHandler == Expire \/ ExpireStep \/ Fired

-----------------------------------------------------------------------------

(***************************************************************************)
(* Interruption.                                                           *)
(***************************************************************************)

\* ISRcancelThread begins with the timers: while u waits, it removes the alarms
\* of its event from each.
WithoutAlarms(u) ==
  IF waiting[u] THEN [c \in Clocks |-> RemoveEvent(list[c], event[u])] ELSE list

CancelThread(t) == Cancel(t) /\ list' = WithoutAlarms(target[t])

\* The tick comes to a thread that has been interrupted.
TickCancels == isrPc = "tick" /\ isrIdx < Len(threads) /\ interrupted[threads[isrIdx + 1]]

TickHandler ==
  /\ Handler
  /\ \/ TickCancels /\ list' = WithoutAlarms(threads[isrIdx + 1])
     \/ ~TickCancels /\ UNCHANGED list
  /\ UNCHANGED <<now, periodic, start, call, isrClock, historyVars>>

Kernel ==
  \/ /\ IdleYield \/ \E t \in Threads : StartInterruption(t) \/ CancelStep(t)
     /\ UNCHANGED <<clockVars, historyVars>>
  \/ /\ \E t \in Threads : CancelThread(t)
     /\ UNCHANGED <<now, periodic, start, call, isrClock, historyVars>>
  \/ TickHandler

SleepStep(t) ==
  \/ SleepInsert(t) \/ SleepFull(t) \/ SleepPerform(t) \/ SleepReturn(t)

Next ==
  \/ \E t \in Threads \ {Idle} :
       \/ \E c \in Clocks, n \in Durations : Sleep(t, c, n)
       \/ SleepStep(t)
       \/ \E tm \in Timers :
            \/ \E n \in Durations, p \in BOOLEAN : StartTimer(t, tm, n, p)
            \/ StopTimer(t, tm)
       \/ Rearm(t) \/ Arm(t)
  \/ \E c \in Clocks : ClockTick(c)
  \/ ClockHandler
  \/ Kernel

Spec == Init /\ [][Next]_vars

\* Where threads lock the scheduler too, and sleep then.
LockStep(t) ==
  \/ Lock(t) \/ Unlock(t) \/ BusyWaitOver(t)
  \/ \E c \in Clocks, n \in Durations : SleepLocked(t, c, n)

LockingNext == Next \/ \E t \in Threads \ {Idle} : LockStep(t)

-----------------------------------------------------------------------------

\* The array as a list of deadlines.
Deadlines ==
  [i \in 1..Len(list[Ticks]) |->
     LET e == list[Ticks][i]
     IN  [left |-> Due(list[Ticks], i),
          mark |-> IF e.event = CustomTimer THEN e.arg ELSE e.event]]

D == INSTANCE TimerDeadlines WITH alarms <- Deadlines, Spans <- Durations

\* The array implements the deadlines: whatever is inserted, removed and fired,
\* the differences it keeps add up to the ticks each alarm was set for.
KeepsDeadlines == D!Spec

\* The cancellation of what t waits for is in progress and comes to t.
CancellationAhead(t) ==
  \E c \in Contexts : sweep[c].ev = t /\ sweep[c].ret = "OS_CANCELLED" /\ AheadIn(c, t)

\* A sleep is neither cut short nor prolonged: while it lasts, and is not being
\* cancelled, the ticks that are left are those of its alarm; at zero the
\* clock's interrupt wakes it.
SleepIsTimed ==
  \A t \in Threads :
    pc[t] \in {"perform", "woken"} =>
      /\ waiting[t] /\ ~CancellationAhead(t) =>
           /\ \E i \in 1..Len(list[call[t].clock]) :
                list[call[t].clock][i].event = t /\ Due(list[call[t].clock], i) = left[t]
           /\ left[t] = 0 => isrPc \in {"expire", "fire"}
      /\ ~waiting[t] /\ ret[t] = "event" => left[t] = 0

\* A timer that was put into the array stays there until it goes off, or until a
\* timer is started, which takes all of them out; the alarms and cancellations
\* of threads around it do not touch it.
StartedTimerGoesOff ==
  \A tm \in armed : \E i \in 1..Len(list[Ticks]) : list[Ticks][i].arg = tm

-----------------------------------------------------------------------------
(***************************************************************************)
(* Liveness.  The clocks tick, not only while the scheduler is locked, and *)
(* every call that is begun goes on.                                       *)
(***************************************************************************)

FairSpec ==
  /\ Init /\ [][LockingNext]_vars
  /\ WF_vars(ClockHandler \/ TickHandler)
  /\ \A c \in Clocks : SF_vars(ClockTick(c)) /\ SF_vars(lock = 0 /\ ClockTick(c))
  /\ \A t \in Threads \ {Idle} : SF_vars(SleepStep(t) \/ BusyWaitOver(t)) /\ SF_vars(Unlock(t))

\* A sleep ends, also a busy wait.
SleepEnds ==
  \A t \in Threads \ {Idle} : pc[t] \in Sleeping \cup {"busy"} ~> pc[t] \in {"main", "locked"}

=============================================================================
