----------------------------- MODULE MCLiveness -----------------------------
(***************************************************************************)
(* The liveness of the scheduler, of a timer and of the real time          *)
(* requests, for one run of TLC: a behaviour is one of OSScheduler, of     *)
(* OSTimer or of OSRealTime, with two threads of equal priority and the    *)
(* idle thread, and the variables of the other modules stay as they are at *)
(* first.                                                                  *)
(***************************************************************************)
EXTENDS OSRealTime

CONSTANTS
  idle, a, b, ev,   \* model values, the threads and an event
  ticks, CustomTimer

VARIABLES
  \* OSScheduler
  bootPc, bootIdx, loaded, depth, stackReady,
  \* OSTimer
  list, now, periodic, start, call, isrClock, left, armed,
  \* which of the three it is
  unit

bootOnly == <<bootPc, bootIdx, loaded, depth, stackReady>>
timerOnly == <<list, now, periodic, start, call, isrClock, left, armed>>
all == <<realTimeVars, bootOnly, timerOnly, unit>>

EqualPrio == [t \in Threads |-> IF t = idle THEN 0 ELSE 1]
Order == <<a, b, idle>>
NoTimers == [x \in {} |-> ev]

S == INSTANCE OSScheduler
  WITH MaxThreads <- 3, Ops <- {"wait", "interrupt"}, NotifyRets <- {"OS_VOID"},
       MaxNesting <- 2

T == INSTANCE OSTimer
  WITH Events <- Threads \cup {ev}, Interruptible <- {}, Clocks <- {ticks}, Ticks <- ticks,
       Size <- 1, Durations <- {1, 2}, Sleepers <- {a, b}, Timers <- {},
       TimerEvent <- NoTimers, TickMod <- 4, IntWraps <- TRUE

\* The variables of a module that is not run.
BootOff == bootPc = "" /\ bootIdx = 0 /\ loaded = 0 /\ depth = 0 /\ stackReady = 0
TimerOff ==
  /\ list = 0 /\ now = 0 /\ periodic = 0 /\ start = 0 /\ call = 0 /\ isrClock = 0
  /\ left = 0 /\ armed = 0
RequestOff == registered = NoThread /\ requested = FALSE /\ arrived = FALSE

LiveInit ==
  \/ unit = "scheduler" /\ S!Init /\ TimerOff /\ RequestOff
  \/ unit = "timer" /\ T!Init /\ BootOff /\ RequestOff
  \/ unit = "requests" /\ RealTimeInit /\ BootOff /\ TimerOff

\* A step of each.
OfScheduler(step) ==
  unit = "scheduler" /\ step /\ UNCHANGED <<timerOnly, requestVars, unit>>
OfTimer(step) == unit = "timer" /\ step /\ UNCHANGED <<bootOnly, requestVars, unit>>
OfRequests(step) == unit = "requests" /\ step /\ UNCHANGED <<bootOnly, timerOnly, unit>>

LiveNext ==
  \/ unit = "scheduler" /\ S!Next /\ UNCHANGED <<timerOnly, requestVars, unit>>
  \/ unit = "timer" /\ T!LockingNext /\ UNCHANGED <<bootOnly, requestVars, unit>>
  \/ unit = "requests" /\ RealTimeNext /\ UNCHANGED <<bootOnly, timerOnly, unit>>

\* What the three modules say of fairness; conditions on actions of which at
\* most one belongs to the behaviour are taken together.
LiveSpec ==
  /\ LiveInit /\ [][LiveNext]_all
  /\ WF_all(OfScheduler(S!Boot))
  /\ WF_all(\/ OfScheduler(S!InterruptContinues)
            \/ OfTimer(T!ClockHandler \/ T!TickHandler)
            \/ OfRequests(InterruptContinues))
  /\ SF_all(\/ OfScheduler(S!Tick)
            \/ OfTimer(T!ClockTick(ticks))
            \/ OfRequests(TickArrives))
  /\ SF_all(\/ OfScheduler(S!Continue(idle))
            \/ OfTimer(lock = 0 /\ T!ClockTick(ticks)))
  /\ SF_all(\/ OfScheduler(S!Continue(a))
            \/ OfTimer(T!SleepStep(a) \/ T!BusyWaitOver(a))
            \/ OfRequests(Receive))
  /\ SF_all(\/ OfScheduler(S!Continue(b))
            \/ OfTimer(T!SleepStep(b) \/ T!BusyWaitOver(b))
            \/ OfRequests(Cancelling(b)))
  /\ SF_all(OfTimer(T!Unlock(a)))
  /\ SF_all(OfTimer(T!Unlock(b)))

InterruptedWaiterWakes == unit = "scheduler" => S!InterruptedWaiterWakes
ReadyThreadRuns == unit = "scheduler" => S!ReadyThreadRuns
SleepEnds == unit = "timer" => T!SleepEnds
=============================================================================
