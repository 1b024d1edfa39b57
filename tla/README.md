# Models of µOS++

TLA+ models of the kernel of µOS++ (`src/system/portable/kernel`) and of the
parts above it in which something runs concurrently or may fail half way: the
buffered character devices, the large circular storage, the SDI-12 sensor. TLC
configurations check them on small systems; TLAPS proves some of their
properties for every system. The reference is the code; where the code
and its comments disagree, a run shows the disagreement (see *Disagreements*).

To repeat the work, in this directory: `tlc -config <run>.cfg <module>` for a
run of the table below, `tlapm <module>_proofs.tla` for the proofs.

## The system

µOS++ is a small real time kernel in C++ for one processor (AVR8, AVR32,
Cortex-M3). Threads run until they wait, yield or are preempted at the end of an
interrupt. All synchronisation rests on one primitive, the event: a thread waits
for a number, and whoever notifies that number makes all its waiters ready.

### Inventory

| component | code (`src/system/portable/`) | state | operations | what makes it correct | modelled |
|---|---|---|---|---|---|
| ready list | `kernel/src/OSScheduler.cpp` (`OSActiveThreads`) | an array of threads, by decreasing priority | insert, remove, find, getTop | no duplicates, sorted, equals in order of insertion | yes |
| scheduler | `kernel/src/OSScheduler.cpp` | table of threads, running thread, lock nesting level, preemption flag, round robin index | start, threadRegister, yield, performContextSwitch, eventWait, eventNotify, the lock, setPreemptive, interruptTick, interruptExit | nobody is lost, overtaken or entered without being ready | yes |
| threads | `kernel/src/OSThread.cpp` | event, waiting, suspended, interrupted, priority, return value of the wait, stack | construction, suspend, resume, eventWaitPrepare, eventNotify, requestInterruption, ackInterruption, setPriority | a wait is ended once, by what ended it | yes, without names, timeouts and stack measuring |
| idle thread | `kernel/src/OSThreadIdle.cpp` | the votes for deep sleep | the loop of yields and sleep | deep sleep only when nothing is to do | the loop |
| critical sections | `kernel/src/OSCriticalSection.cpp` | interrupt mask, stack of masks | enter, exit | nesting restores the mask | as atomicity of steps |
| timers | `kernel/src/OSTimer*.cpp`, `kernel/src/Timer.cpp` | array of alarms by difference, tick count; periodic flag | sleep, eventNotify, eventRemove, interruptTick; start, stop | every alarm goes off at its tick | yes |
| mutex | `kernel/src/OSMutex.cpp` | taken flag, owner, list of waiting threads | acquire, release | one owner; a release reaches the waiters | yes |
| condition | `kernel/src/OSCondition.cpp` | none of its own | wait with its virtual functions | a condition is never missed | yes |
| event flags | `kernel/src/OSEventFlags.cpp` | bits, registered thread | notify, wait, clear | a bit set is never missed | yes |
| event notifiers | `kernel/src/OSEventNotifier*.cpp` | lists of events | add, remove, notify | all are notified | no: one eventNotify for each entry |
| real time section | `kernel/src/OSRealTime.cpp` | the registered thread, one request with its event and value | registerThread, eventNotify, interruptTick | what an interrupt above the mask brings is taken | with one event |
| start of the system | `kernel/src/OS.cpp` | - | the order of construction | the idle thread exists before start() | the order |
| character devices | `devices/character/src` | open flag, two buffers, timeouts, cancellation flag | open, close, readByte, readBytes, writeByte, writeBytes, flush, cancelRead; receive and transmit interrupts | bytes come out in order, each once; no wait misses a byte | partly: without READMATCH, connection, stream interface |
| circular buffers | `misc/src/Circular*.cpp` | array, two pointers, length | clear, put, get, putBytes, getBytes | first in, first out, over the end of the array | bytes: yes; blocks: no |
| large circular storage | `misc/src/LargeCircular*.cpp` | headers on a ring of blocks; cache of the last session; position of the writer and of each reader | createSession, writeSessionBlock, closeSession, openSession and its neighbours, readSessionBlock, search after a restart | the ring is a log whose end is found again after a failure of the power; a reader sees sessions as they were written | sessions: yes, in the linear build; blocks: no |
| SDI-12 sensor | `devices/sdi12/src/SDI12Sensor.cpp` | state of the protocol, flags, buffer, values and their indexes, sleep count | the two threads, the pin, tick and USART interrupts, every command | only complete values are sent, page by page; awake when it listens, not deaf in standby | partly: without the text of the answers, resets, extended and periodic functions |
| persistent configuration | `misc/src/PersistentConfigurationEeprom.cpp` | EEPROM content | read, write | an interrupted write is detected | no: no code uses it, see *Observations* |
| logger | `misc/src/OSLogger.cpp` | - | write | - | no: nothing depends on it |
| memory cards, block devices | `devices/block/src` | card state | open, read, write | exclusive access | no: a command protocol against hardware |
| SDI-12 boot loader, CAN, USB, RTC, LEDs, pins, debug channel | `devices/*/src` | registers | register access | timing | no: the behaviour is the hardware's |
| streams, command line, parsers, dates, positions, checksums, byte order | `stdlib`, `misc/src`, `util` | - | conversions | sequential | no: nothing runs concurrently |
| sample tasks | `tasks`, `active` | - | - | - | no: users of the kernel |
| ports | `src/system/hal` | registers | context save and restore, interrupt entry | - | used: interrupts do not nest |

### How the parts interact

A thread calls `eventWait`, which is `eventWaitPrepare` (checks, then
`m_event`, then `m_isWaiting`) followed by `eventWaitPerform` (a context switch
that drops the thread from the ready list, and the return value once it is back).
`eventNotify` walks the table of threads, each thread in a critical section of
its own. Mutex, condition, event flags, timers and devices call these two; an
interrupt calls `eventNotify` and, at its end, `interruptExit`, which may switch
threads. An interrupt above the kernel's mask may come inside a critical section;
it leaves a request with `OSRealTime`, and the next tick notifies the thread. The timer of the ticks and the scheduler share an interrupt; its tail,
`interruptTick`, cancels the waits of interrupted threads. The lock of the
scheduler keeps `performContextSwitch` from switching but masks no interrupts;
a critical section does.

A character device stands between a thread and the interrupts of a port: the
check of the buffer and `eventWaitPrepare` share a critical section, the
interrupts fill and drain the buffers and notify, a timer may notify the same
event. The storage has one writer and several readers on one block device; they
share a cache under the scheduler's lock and wait with `OSCondition`. In the
SDI-12 sensor one thread talks to the line and another one measures; they and
the interrupts use one `OSEventFlags`, and a counter says who objects to deep
sleep.

### What is hard

* Interrupts between any two steps of a thread outside of critical sections: the
  checks and the two writes of `eventWaitPrepare`, the iterations of
  `eventNotify`, the load and the store of `++ms_nestingLevel`, the walk of
  `OSMutex::release`.
* A real time interrupt between the moment the tick notifies the thread and the
  one it takes the request back.
* Threads that are suspended, resumed, interrupted, reprioritised or constructed
  wherever other threads are in their calls.
* Relative times: one wrong difference shifts all later alarms.
* A power failure between any two writes to the storage, and identifiers that
  go round while the search compares them.
* A timeout, a cancellation and a byte that end the same wait; a call that has
  done half of its work when it gives up.
* A break or a new command while the sensor measures; an answer that came too
  late and is asked for again.
* Limits: full and empty buffers, tables of threads, lists of waiting threads, arrays of alarms, the
  wrap of the tick counter.

`PROJECT.json` lists each hazard at its line with the properties that cover it.

## The modules

```
OSActiveThreads <- OSKernel <- OSInterrupts <-+- OSScheduler <- OSApplications
                                              +- OSStarted <-+- OSMutex
                                                             +- OSEventFlags
                                                             +- OSRealTime
                                                             +- OSCondition
OSActiveThreads <- OSTimerList <-----------------------------+- OSTimer
                                                    (implements TimerDeadlines)

CircularByteBuffer <- OSDeviceCharacter (implements ByteQueue, twice) <-+- Devices
                      LargeCircularSessionsStorage <-------------------+
                      SDI12Sensor <------------------------------------+
                      SDI12Values <------------------------------------+
```

| module | models | state |
|---|---|---|
| `OSActiveThreads` | the ready list as operators on sequences of threads: `Insert`, `Remove`, `GetTop`, `Sorted` | none |
| `OSKernel` | the kernel's variables and its routines as actions on them: `PerformContextSwitch`, the parts of `eventWait`, `eventNotify` (`SweepStart`, `SweepStep`, `SweepEnd`, both loops of the code chosen by `RoundRobinNotify`), suspend, resume, priorities, the lock, registration | `threads` (ms_threads), `running`, `ready`, `lock` (ms_nestingLevel), `isPreemptive`, `notifyIndex`; per thread `event`, `waiting`, `ret`, `suspended`, `interrupted`, `prio`; `sweep`, the local variables of an eventNotify in progress, per thread and for the interrupt |
| `OSInterrupts` | the tick, the notifying interrupt, interruptExit | `isrPc`, `isrIdx` |
| `OSScheduler` | start-up, and then an application whose threads make any sequence of the calls in `Ops` | `bootPc`, `pc`, `target`, `loaded` (the register of a load before its store), `depth`, `stackReady` |
| `OSStarted` | the state start() leaves, and the calls every synchronisation object meets: the idle loop, interruption | `pc`, `target` |
| `OSMutex`, `OSEventFlags`, `OSCondition` | the three synchronisation objects | see the modules |
| `OSRealTime` | the request a real time interrupt leaves and the tick that fulfils it, with a thread that takes what has arrived or waits | `registered` (ms_pThread), `requested` (ms_requestNofication), `arrived` |
| `OSTimerList` | the array of alarms by difference, as operators; its loops that shift entries are those of `OSActiveThreads` | none |
| `OSTimer` | sleep (waiting, and busy when the scheduler is locked), custom timers, what a cancellation does to the alarms, the clocks' interrupts | `list`, `now`, `periodic`, `start`, `call`, `isrClock`; history: `left`, `armed` |
| `TimerDeadlines` | abstract: a list of alarms with the ticks that are left to each; alarms are cancelled by group, a thread's sleep or all timers | `alarms` |
| `CircularByteBuffer` | the byte buffer as operators on a record of array, offsets and length | none |
| `OSDeviceCharacter` | the character device and its buffered implementation, a reader, a writer, the port and the timer | `isOpened`, `doCancelRead`, `rxBuf`, `txBuf`, `rxOn`, `txOn`; per thread `callAt`, `timeout`, `waiting`, `ret`; `todo`, `alarms`; the registers `received`, `sent`; `got` |
| `ByteQueue` | abstract: a bounded queue with an offer at one end | `in`, `queue`, `out` |
| `LargeCircularSessionsStorage` | the storage, its writer and its readers, the search, restarts | `disk`, `recent`, `recentBlock` (the cache), `ws`, `wb`, `rs`, per thread `req`, `scan`, `at`; history: `log`, `start`, `restarts` |
| `SDI12Sensor` | the ten states, the acquisition, the interrupts | `state`, `step`, `flags`, `acq`, `cancel`, `line`, `buf`, `cmd`, `own`, `data`, `awake` |
| `SDI12Values` | the indexes behind the D commands, with a recorder that keeps to the protocol | `dCount`, `currentDindex`, `nextDindex`, `previousDdigit`, `previousDindex`; of the recorder `asked`, `missed`, `page` |
| `Devices` | the four parts above the kernel side by side; they share no variable | theirs |
| `OSApplications` | two applications of `OSScheduler` side by side, *events* and *control*; a behaviour is of one of them | `application`, which one it is |
| `MC*` | the instances for TLC. `MCLiveness` and `MCDevices` put several modules side by side: a behaviour is of one of them | which one it is |
| `OSKernel_proofs`, `OSStarted_proofs` | the lemmas on the ready list, the kernel and its interrupts; those on the kernel as `start()` leaves it, for the objects built on it | |
| `OSScheduler_proofs`, `OSMutex_proofs`, `OSEventFlags_proofs`, `OSCondition_proofs`, `OSTimer_proofs`, `Devices_proofs` | the theorems | |

An action is what the code does between two points where something else may run.
Inside a critical section that is one action for the whole section; outside, one
action per access of shared state. The control state of thread *t* is `pc[t]`; `At(t, l)`
says that *t* is on the processor at *l*, no interrupt running. A thread is
switched away inside `PerformContextSwitch`, called by itself or by `IsrExit`, and
goes on at its `pc` when it is `running` again.

Above the kernel its calls are seen from outside: a thread that waits is one that
takes no step until it is notified, an `eventWaitPrepare` in a critical section is
part of that step, a wait for flags is over when one of them is set. What that
rests on (a notification is not missed, a wait ends for its reason) is what the
kernel's runs check. A step of these modules is one critical section, one
access to the device or one interrupt.

Definitions named `X_Something` are variants: what X would be with a plausible
mistake. No specification uses them; each is there to see that the properties
would notice it.

## The runs

| run | system | what it checks and shows | distinct states |
|---|---|---|---|
| `Kernel` | two applications: *events*, two threads of different priority and idle, with wait, notify, yield, interruption, lock, device interrupts and ticks; *control*, one thread that constructs another, with wait, suspend, resume, priority, preemption and round robin notification | in both the ready list is sound, no thread is lost, the lock level is the running thread's; in *events* also no spurious wake and no overtaking, and the best ready thread is entered (see *Observations*) | 0.9 million |
| `Liveness` | two equal threads, of the scheduler (wait, interruption), of a timer (sleep, also with the scheduler locked; an array of one) or of real time requests (one thread receives, the other interrupts it); fairness | an interrupted waiter wakes although the request races with the wait; equals get the processor in turn; every sleep ends, with the array full too, and the busy wait over the wrap of the counter; what a real time interrupt brings never lies there without a notification of the receiver on its way, and is taken, wherever it falls | 49 thousand |
| `CreateNoStack` | construction at run time | a disagreement, see below | stops at it |
| `MutexContention` | three equal threads; a list of three or no list; ticks | one owner, the list holds the waiters, a release strands nobody | 2.0 million |
| `MutexLive` | two equal threads, one of which is interrupted; lists of 0, 2 and none; fairness | every wait ends, the array is not overrun | 0.1 million |
| `MutexSkipped` | three threads, one interrupted, a list of three | a disagreement, see below | stops at it |
| `Flags` | two equal threads; one bit; strict and other waits; registered thread or none; interrupts, timeouts, interruption; fairness | a bit set while a thread goes to sleep is not missed and ends the wait; a wait ends for one of its reasons | 0.4 million |
| `Condition` | a reader and a writer, which complete blocks and open sessions; both classes; interrupts, timeouts, cancellation; fairness | the critical section excludes, no satisfied condition is slept through, the reason of a wait's end survives in the real time class | 0.5 million |
| `ConditionTimeoutLost` | the same, the plain class, timeouts | a disagreement, see below | stops at it |
| `TimerSafe` | a thread that sleeps, is interrupted and cancelled, two timers that are started and stopped by it and another thread and share their event; an array of two | the array of differences implements the deadlines (`KeepsDeadlines`, a refinement of `TimerDeadlines`), the removals by a cancellation included; a sleep lasts its ticks; a started timer goes off, unless a timer is started again before | 2.1 million |
| `Devices`, the character device | a reader with readByte and readBytes, all timeouts and cancellation; a writer with up to three bytes into a buffer of three | the buffers implement queues (`BuffersAreQueues`), no wait misses a byte | 2.7 million |
| `Devices`, the storage | a ring of four, empty, full once or with identifiers past their wrap, whole sessions or cut short; a writer, a reader, a restart | the ring is the tail of the log, the search finds its end, forward references lead on, the cache is what the device says, no notification is missed, a session that is opened was written | in the same |
| `Devices`, the sensor | every state, break, command and interrupt | only complete values are valid; awake while it listens, unless detection was switched on again over the break (see *Observations*); in standby it hears the break | in the same |
| `Devices`, its values | up to four values, two to a page, lost and late answers | page follows page | in the same |
| `OldestAgain` | a ring that two sessions fill | a disagreement, see below | stops at it |

### Bounds, and why they are enough

* *Threads*: two beside the idle thread are what the races of a wait with a
  notification need; the mutex needs a third, for a waiter to be overlooked
  while another one leaves the list. Priorities: two levels where
  order is the question, one where turns are.
* *Events*: one. Threads that wait for another event are left alone by
  `eventNotify`; that the event is compared at all shows in the timers, where
  every thread has its own.
* `MaxNesting` = 2: one level nested in another; the counter is `% 256`.
* `MaxThreads`: 3 in `Kernel`, as many as there are, so that the table
  is filled up; a table that overflows is covered by the theorems only.
* Timers: in `TimerSafe` `Size` 2 holds the alarm of the sleeper and one of a
  timer, and no other: as starting a timer takes the other timers out first, that
  is room for all. In `Liveness` 1 makes the array full. `Durations` 1 and 2:
  equal alarms, an alarm after and an alarm before
  another. `TickMod` is 2^16 in the code; 4 lets a busy wait pass the wrap, and
  1 in `TimerSafe`, where nothing reads the counter. The two timers of `TimerSafe`
  are alike and notify the same event, hence the symmetry; no liveness is checked
  there.
* `Interruptible` one thread: the one whose cancellation is in question; that it
  strikes those who wait for the same event does not depend on who it is.
* Character device: `Size` 3, `HighWM` 2, `LowWM` 1: bytes go over the end of the
  array at every offset, the buffer is empty, between the marks and full. The
  bytes written are up to as many as fit, so a write may be accepted in parts.
  Reading and writing share no state but the open flag and the cancellation,
  so one run has two instances, one that is read and one that is written.
* Storage: `StorageSize` 4 has a middle that is neither end, and takes two
  sessions and a part of a third, or three whole ones, so that a reader goes
  forward over two references while the writer comes round. `IdMod` 8 lets the identifiers wrap
  on the ring; `NumMod` 16 keeps "invalid" apart from the numbers. `MaxNew` 2
  blocks after the start go over the place of the oldest session;
  `MaxRestarts` 1: a failure at every moment of a first life, and what the second
  one finds. `EmptySessions` FALSE, see *Observations*.
* Sensor: `MaxAwake` 2: one for the thread and one for the line, more only by
  edges that are not matched. `MaxCount` 4 and `MaxPage` 2: pages in the middle,
  short pages, empty ones. One own address and one foreign one; the
  query `?` is taken for the own address, and left out of the run; the change of the
  address is in the model, but not among the commands of the run.
* `Kernel`, `Liveness` and `Devices` have a variable that says which of their
  parts a behaviour is of. The others do not move: nothing is shared, and the
  states of the parts add up instead of multiplying.
* No state space is cut by a constraint.

### Fairness

* An interrupt handler runs to its end: WF of its steps.
* The tick stays pending while interrupts are masked, and is taken at the next
  chance: SF. In conditions and timers threads also lock the scheduler, and a
  tick that is always taken under the lock would never preempt; the ticks are
  periodic and the locked sections short, hence SF of the tick with `lock = 0` as
  well.
* A call that is begun goes on whenever its thread is on the processor: between
  two interrupts at least one instruction is executed. A thread is on the
  processor again and again, not always: SF.
* No fairness for the start of a call, for device interrupts, for a timeout or
  for an interruption: the application may never do these.

* Real time requests: the receiving thread makes its steps when it is on the
  processor, SF. It begins again by itself: its loop is the application's, and a
  thread that does not look again takes nothing. A real time interrupt need
  never come.

Of the parts above the kernel only safety is checked. The code does not
promise that a read or a wait for a block ends, and a sensor may wait for its
recorder for ever; those runs do not look for deadlocks, because a
device that nobody uses does nothing.

## The proofs

TLAPS proves, for any number of threads, events and clocks, any priorities, any
capacity of the table, of an array of alarms, of a device's buffers and of the
storage's ring, and any number of restarts (and
under the hypotheses in the last column, where there are any):

| theorem | module | says | hypotheses |
|---|---|---|---|
| `Invariance` | `OSScheduler_proofs` | `Spec => []IInv` | |
| `TypeCorrect` | `OSScheduler_proofs` | `Spec => []TypeOK` | |
| `ReadyListIsSound` | `OSScheduler_proofs` | `Spec => []ReadyListSound` | |
| `NoThreadIsLost` | `OSScheduler_proofs` | `Spec => []NoLostThread` | |
| `LockIsTheRunningThreads` | `OSScheduler_proofs` | `Spec => []LockBelongsToRunning` | |
| `WaitsEndNotified` | `OSScheduler_proofs` | `Spec => []NoSpuriousWake` | `"suspend" \notin Ops` |
| `BestThreadIsEntered` | `OSScheduler_proofs` | `Spec => HighestPriorityRuns` | `"priority" \notin Ops` |
| `OrderIsKept` | `OSScheduler_proofs` | `Spec => NoOvertaking` | `"priority" \notin Ops` |
| `EventsEndNotified`, `EventsEnterBest`, `EventsKeepOrder` | `OSScheduler_proofs` | the same three of the *events* application beside *control*: `ApplicationsSpec => []EventsNoSpuriousWake`, `ApplicationsSpec => EventsBestRuns` and `ApplicationsSpec => EventsNoOvertaking` | none: *events* neither suspends nor changes priorities |
| `MutexHasOneOwner` | `OSMutex_proofs` | `Spec => []MutualExclusion` | |
| `MutexTypesCorrect` | `OSMutex_proofs` | `Spec => []TypeOK` | |
| `ListHoldsTheWaiters` | `OSMutex_proofs` | `Spec => []WaitersListed` | `ListsSuffice` |
| `NobodyIsStranded` | `OSMutex_proofs` | `Spec => []NoStrandedWaiter` | `ListsSuffice`, `ListUninterrupted` |
| `NoFlagIsMissed` | `OSEventFlags_proofs` | `Spec => []NoMissedFlag` | |
| `WaitsEndForAReason` | `OSEventFlags_proofs` | `Spec => WaitEndsForAReason` | |
| `NoArrivalIsMissed` | `OSEventFlags_proofs` | `RealTimeSpec => []NoArrivalMissed` | |
| `SectionExcludesOthers` | `OSCondition_proofs` | `Spec => []SectionExcludes` | |
| `NoConditionIsMissed` | `OSCondition_proofs` | `Spec => []NoMissedCondition` | |
| `RealTimeReasonReachesWait` | `OSCondition_proofs` | `Spec => RealTimeReasonIsKept` | |
| `ArrayKeepsDeadlines` | `OSTimer_proofs` | `Spec => KeepsDeadlines`, the refinement of `TimerDeadlines` | |
| `SleepsAreTimed` | `OSTimer_proofs` | `Spec => []SleepIsTimed` | `OneClock` |
| `StartedTimersGoOff` | `OSTimer_proofs` | `Spec => []StartedTimerGoesOff` | |
| `DeviceTypesCorrect` | `Devices_proofs` | `DeviceSpec => []DeviceTypeOK` | |
| `BuffersStayConsistent` | `Devices_proofs` | `DeviceSpec => []BuffersConsistent` | |
| `NoByteIsMissed` | `Devices_proofs` | `DeviceSpec => []NoMissedByte` | |
| `DeviceImplementsQueues` | `Devices_proofs` | `DeviceSpec => BuffersAreQueues`, the refinement of `ByteQueue` | |
| `SensorTypesCorrect` | `Devices_proofs` | `SensorSpec => []SensorTypeOK` | |
| `ValidDataIsComplete` | `Devices_proofs` | `SensorSpec => []DataIsComplete` | |
| `ListensAwake` | `Devices_proofs` | `SensorSpec => []AwakeWhileListening` | |
| `BreakIsHeard` | `Devices_proofs` | `SensorSpec => []HearsBreak` | |
| `ValuesTypesCorrect` | `Devices_proofs` | `ValuesSpec => []ValuesTypeOK` | |
| `PagesAreInOrder` | `Devices_proofs` | `ValuesSpec => PagesFollow` | |
| `NotificationsArrive` | `Devices_proofs` | `StorageSpec => []NoMissedNotification` | |
| `DeviceHoldsLog` | `Devices_proofs` | `StorageSpec => []DiskIsLogTail` | `~EmptySessions` |
| `ReferencesPoint` | `Devices_proofs` | `StorageSpec => []ForwardRefsPoint` | `~EmptySessions` |
| `SearchFinds` | `Devices_proofs` | `StorageSpec => []SearchFindsNewest` | `~EmptySessions` |
| `CacheFresh` | `Devices_proofs` | `StorageSpec => []CacheIsFresh` | `~EmptySessions` |
| `SessionsAreReal` | `Devices_proofs` | `StorageSpec => OpenedIsReal` | `~EmptySessions` |
| `StorageTypesCorrect` | `Devices_proofs` | `StorageSpec => []StorageTypeOK` | |
| `PartsTypesCorrect` | `Devices_proofs` | `DevicesSide => []PartsTypeOK` | |

*The scheduler.* The invariants are not inductive by themselves. That the
idle thread is in the ready list, for instance, needs that it never waits and is
never suspended; that a context switch finds a thread to enter needs that the
running one is registered; that the loop of an `eventNotify` stays inside the
table needs a bound on its index. `IInv` is the conjunction of three parts:
`KInv`, on the kernel's variables alone, which each routine of `OSKernel` and
each step of an interrupt preserves (`OSKernel_proofs`, one lemma per routine,
resting on the lemmas on `Insert` and `Remove`); `ClientSound`, on the control
state of the threads, e.g. a thread between the load and the store of the
nesting level has loaded what is there once it runs; and `BootSound`, on the
start-up, in which no thread runs and the ready list holds a prefix of the
table. The proof of the step has one lemma per group of calls.

`LockBelongsToRunning` is the interesting one: `++` and `--` are not atomic. A
thread that is switched away between the load and the store saw 0, because at
any other level no switch takes place, and when it is back the level is 0 again,
as every other thread that runs leaves 0 behind when it is switched away.

`WaitsEndNotified` rests on `WakeSound`: a thread marked waiting has the processor
only before its yield, with no lock, so that the yield does switch, and from then
on it is in the ready list only unmarked. An interrupt that switches a
thread away between the mark and the yield takes it out of the list as well.
`BestThreadIsEntered` and `OrderIsKept` are about the list alone: every step leaves
it, inserts or removes one thread, or switches (`StepChanges`), so it stays
sorted (`SortedInvariant`), and `Insert` puts a thread only behind those that are
as good and before those that are worse (`InsertBefore`). `Kernel` runs two
applications; `EventsEndNotified`, `EventsEnterBest` and `EventsKeepOrder` are the three
theorems for the one that neither suspends nor reprioritises, from the same lemmas.

*The started kernel.* What the objects share is in `OSStarted_proofs`:
`StartedInv`, which is `KInv` with the table as `start()` found it and a loop of
an `eventNotify` only where one is under way, is kept by every call, interrupt
and routine of `OSStarted`. The second half is about a notification in progress.
`AheadIn(c, t)` says that the loop of context *c* has yet to come to thread *t*.
A loop starts with every thread ahead of it, it comes to one after the other, and when it is over
none is ahead (`SweepStartAhead`, `SweepStepAhead`, `SweepDoneAhead`); the place
where a round robin loop wraps is a case of its own. A step takes a thread
out of what is ahead only by waking it (`AheadComes`). So an object needs to show no
more than that whoever makes a condition true has the waiters ahead of its
notification.

*The mutex.* `OwnerInv`: a thread inside the section the mutex protects is
the one in `owner`, and `isAcquired` holds; the steps of the others change neither,
since `acquire` tests and sets in one critical section. `MutexInv` adds the
started kernel and the list: it has no duplicates, is never longer than its
array, and every thread in it is between its `add` and its `remove`. The
converse, that whoever is between the two is in the list, needs places for all:
the idle thread, the owner and the one that asks are not in it, so a list of the
number of threads less two is enough (`WaitersFit`, from the cardinality of the
threads). `StrandInv` is the argument for `NoStrandedWaiter`: either nobody
waits for a free mutex, or some thread is in `release` with that waiter's
position still before it. The second part is why no cancellation may strike:
a waiter that takes itself out of the list moves the others to the left, past
the index of the loop.

*Event flags and conditions.* A wait is prepared by two writes, of the event and
of the mark, and ended by one. `FlagsInv` and `CondInv` say where a thread that is
marked may be, that it is marked for the object's event, and that what its check
has found still holds when it is marked; `NoMissedFlag` and `NoMissedCondition`
are then preserved: the step that sets the flag or meets the condition leaves a
notification to come, and a notification in progress comes to every waiter. That
a wait ends for a reason needs that no notification carries another one
(`RetsIn`), and for the reason to reach the real time class that the scheduler is
not locked there, which is what the plain class misses (`ConditionTimeoutLost`).

*Real time requests.* An interrupt above the mask may come between any two steps, so
only its request can be relied on. `RealTimeInv` says where the receiver may be when
something has arrived: it has not looked yet, or it is on its way to the wait and
the request is pending, or it waits and the next tick can fulfil the request. The
request goes only after the tick has notified the receiver (`RequestDone`), which then neither
waits nor has its look behind it; and a registration is never taken back.

*The timer.* `Due` and `RemoveEvent` are functions defined by recursion on the
length of the array. `OSTimer_proofs` begins with what replaces an induction
over data: the set of the indexes for which a fact holds is all of `Nat`
(`Induction`), two functions that begin alike and go on alike are the same
(`SameFunction`), and a function that follows a given step exists
(`Recursion`). From these come the lemmas on the array: an insertion is a `Put`
among the deadlines, a removal a `Without`, a decrement a `Tick`. `AlarmInv` says
that the first entry is due only while the interrupt is firing and that the calls
in progress carry durations and timers; with it every step of `OSTimer` is
one of `TimerDeadlines`, or none. A cancellation is one of them: it takes the alarms
of an event out of each clock, and `WaitsOK` says that a thread that waits does so
for its own sleep, so what goes from the array is one thread's alarms, a `Without`
of its group (`WithoutAlarmsRefines`, `KernelRefines`). `BaseInv` is `AlarmInv` and
`WaitsOK` over the started kernel. `SleepInv` adds that a thread that waits, and has no
cancellation on its way to it, has one alarm, due when its sleep is to end, and that
`OS_EVENT` is sent by alarms only; that a cancellation which has removed the alarm does
come to its thread is `CancellationComes`, from the lemmas on loops in progress.
`ArmedInv` says the same of a timer: what was put in stays until it goes off or a
timer is started. It needs no room for all, because a timer that finds the
array full was never in it (`OSTimer.cpp:183`).

*The sensor.* `SensorInv` has what the main thread may be doing in each state,
what is switched on there, and what may be said of the values. Break detection is on
in standby and in a measurement, and a break that was seen has switched it off, unless it was
switched on again over it; so no edge of the line undoes the thread's entry into the
sleep count while it listens. The values are valid only if the acquisition that was asked for last has come to its end and no other is
asked for. `ValuesInv` relates the indexes behind the D commands to the page
the recorder has.

*The character device.* `DeviceInv` adds two parts to the invariants. By
`CallsAreOpened` a port is on, and a thread is in a call, only while the
device is open: so no interrupt meets the two parts of the `clear()` in `open`. By
`CallsFindWhatTheySaw` what a check has found (a byte, or room) is still so when
the call acts on it, and a transmit buffer above its high mark is being
sent: so a writer that waits will be woken at the low mark. For the refinement
the lemmas on the buffer show what the operations on the array are to the
sequence it holds: `put` appends, `get` takes the head, `putBytes` with its one
or two copies appends as many as fit. The argument is about offsets modulo the
size: the places of the contents are distinct, and those of the second part
begin where the first ends. Then every step of the device is one of each
queue or a stutter: an arriving byte an offer and its acceptance (or the
loss of it, when the queue is full), `get` a take, a write an offer that is
accepted in parts, a write that gives up a withdrawal, open and close a clear.

*The storage.* `StorageInv` needs nothing of what is on the device. `StorageOK`
and `ScanOK` keep block numbers on the ring, from arithmetic on remainders;
`CachedOK` says who may rely on a cache that is filled: whoever is in
a session, because only a restart empties it. `StorageTypesCorrect` follows from
`StorageOK`. With the three, `Informed`, the argument for
`NoMissedNotification`: what a reader has found missing is still
missing when it waits, unless the writer is between filling the cache and its
`notifyReaders`. `LogInv` then relates the device to the log of all blocks ever
written, which is a history variable:

* the log is in sessions (`InSessions`), the ring holds its tail (`TailOn`) and the
  forward references lead to the ends of sessions (`RefsOn`). `TailAppend` is
  the lemma behind them: writing the block behind the last one takes away the oldest
  and leaves every other place with the block it had;
* `WriterOK`: what the writer holds in its session, its block and the cache at each
  of its steps, e.g. that while a session is open no block on the device has a reference
  for it, although its first block is read again and rewritten at the end;
* `SearchOK`: the end of the ring is always between the two blocks that a
  search has read (`HalfOf`, `BorderOf`, `MiddleOf`). Two blocks of the ring
  are in the same round exactly if their identifiers differ, modulo `IdMod`, by
  the difference of their places; that needs `IdMod` >= 2 * `StorageSize`, which
  the assumption states. A reader's search counts only as long as the cache is
  empty: the reader that comes second finds the cache filled when it has the lock again.

The search needs no induction over the ring in this form: its loop is a step of
the model, and the invariant is on its two ends.

`SessionsAreReal` is about what a reader holds while the writer overwrites it, so it
cannot speak of the device. `HeldInv` speaks of the log, which only grows: the
header that a reader has read is that of a block of the log (`BeforeOK`, `NextOK`),
from the place of its session on the log is of this session or of later ones
(`GoesOn`), and a session that is followed by another one is over for good
(`Ended`). `CopyOK` follows the copy of the cache field by field. It mixes two
sessions when the writer comes between, but then the copy is not complete: a session
is complete in the cache only if a search put it there, and a writer replaces it
before it writes (`DoneOK`).

### Assumptions and hypotheses

The assumptions are the ones named in the modules (`KernelAssumption`,
`SchedulerAssumption`, `StartedAssumption`, `MutexAssumption`,
`EventFlagsAssumption`, `ConditionAssumption`, `TimerAssumption`,
`BufferAssumption`, `DeviceAssumption`, `SensorAssumption`, `ValuesAssumption`,
`StorageAssumption`, `RequestsAssumption`, `LogsAssumption`,
`RealTimeAssumption`):
the events, threads and contexts are told apart from the values for "none", the
idle thread is among the threads constructed before `start()`, the initial list
has no duplicates, the marks of a buffer lie inside its size, an index fits its
byte, block identifiers have at least twice as many values as the ring has
blocks, and what is on the ring at the first start was written in sessions, each with
less blocks than the ring. A writer keeps to the last one by itself: it
refuses a block that would come round to the first of its session.

The hypotheses of single theorems are what the code leaves to its user:

| hypothesis | is | why |
|---|---|---|
| `"suspend" \notin Ops` | no thread is suspended or resumed by another | `resume()` makes a waiting thread ready with its mark (`OSThread.cpp:211`); the *events* application of `Kernel` satisfies it |
| `"priority" \notin Ops` | no priority is changed once a thread is registered | `setPriority` does not move the thread in the list (`OSThread.h:425`), and the best ready thread need not be the first of it; the *events* application of `Kernel` satisfies it |
| `ListsSuffice` | a list of a mutex has two places less than there are threads, or more | `acquire` ignores that the list is full (`OSMutex.cpp:75`); `MutexContention` satisfies it, see *Observations* for what happens otherwise |
| `ListUninterrupted` | where there are lists, no thread is interrupted | `MutexSkipped` shows that it is needed; `MutexContention` satisfies it |
| `OneClock` | the only clock is that of the ticks | a sleep that was refused leaves its alarm on its clock and may cut short a sleep on another (*Observations*); `TimerSafe` satisfies it |
| `~EmptySessions` | a session gets a block before it is closed or left | otherwise its identifier stays unused, the identifiers on the ring have a hole, and the search stops there (*Observations*); `Devices` satisfies it |

### Only model-checked

* Liveness, which is out of the prover's reach with its fairness: the temporal
  properties of `Liveness`, `WaitEnds` of `MutexLive`, `FlagEndsWait` of `Flags` and
  `ConditionEndsWait` of `Condition`.
* `RunningHasStack`, which only fails (`CreateNoStack`), and `PreviousIsOlder` of
  the storage, which only fails (`OldestAgain`).
* The sleeps with the scheduler locked (`LockStep` of `OSTimer`), of which only
  liveness is claimed.

`BuffersConsistent` is the other way round: it is proved, and no run checks it,
because buffers whose pointers do not agree with their lengths are not queues, which
is what the run refutes then. Every invariant and every safety property of a passing
run is the conclusion of a theorem.

## Disagreements

* `CreateNoStack` (`OSThread.cpp:117`): a thread constructed while the scheduler
  runs is put in the ready list by `threadRegister` and gets its stack
  afterwards; an interrupt in between may enter it.
* `MutexSkipped` (`OSMutex.cpp:167`): `release` walks the list of waiting
  threads by index, outside of a critical section. A waiter that was cancelled removes
  itself meanwhile, the one behind it moves into its place and is skipped,
  although the comment says that all are notified; it sleeps with the mutex free.
* `ConditionTimeoutLost` (`OSScheduler.cpp:369`): an interrupt while
  `OSCondition::wait` has the scheduler locked first ends the wait with
  `OS_TIMEOUT` and then, in `performContextSwitch`, overwrites the reason with
  `OS_LOCKED`: the thread waits again.
* `OldestAgain` (`LargeCircularSessionsStorage.cpp:1174`): `openPreviousSession`
  checks that the two blocks it reads belong to one session, not that this session
  is older. On a ring that whole sessions fill exactly, the block before the oldest
  session is the last one of the newest, and it opens that one; `openSession` of
  the oldest session goes round for ever, although its comments say that the end
  of the storage is met and the session stays as it is (lines 908, 1073).

## Observations

Behaviours met while modelling that no document of the repository denies. The
models contain them; no property claims the contrary.

* `resume()` of a thread that waits makes it ready with `m_isWaiting` set
  (`OSThread.cpp:211`): it returns from its wait without having been notified,
  and its next `eventWaitPrepare` (line 453) writes `m_event` with the old mark
  in place. `NoSpuriousWake` is therefore not claimed of the *control*
  application of `Kernel`.
* `setPriority` does not move the thread in the ready list (`OSThread.h:425`).
  The list is unsorted until the thread has run once: a thread that changes the
  priorities of two others behind it to 1 and 2 and yields is followed by the one
  that comes first in the list, although the other is better. `NoOvertaking` and
  `HighestPriorityRuns` are claimed without priority changes, and in `Kernel` of the
  *events* application.
* A thread constructed when the table is full is not registered
  (`OSScheduler.cpp:398`) and never runs; a `resume()` of it would put it in the
  ready list. The applications of `OSScheduler` control registered threads only.
* `ISRcancelThread` notifies the event of its target (`OSScheduler.cpp:482`): other
  threads that wait for the same event are cancelled with it.
* An interruption requested after the check in `eventWaitPrepare`
  (`OSScheduler.cpp:202`) does not refuse the wait; the next tick cancels it.
* In the round robin `eventNotify`, index 0 counts as "nobody notified"
  (`OSScheduler.cpp:278`), so the start index moves by one.
* With more waiters than places in the list of a mutex (`OSMutex.cpp:75`) the
  one without a place is not notified by a release: `NoStrandedWaiter` and
  `WaitEnds` fail with `Lists` = {1} and three threads. The list is meant to be
  configured large enough.
* The busy wait of `sleep` subtracts two 16 bit counters in `int`
  (`OSTimer.cpp:48`). Where `int` is wider a wait that crosses the wrap does not
  end: with `IntWraps` = FALSE TLC refutes `SleepEnds`.
* `sleep` with the array of alarms full does not wait and returns what the
  previous wait returned (`OSTimer.cpp:97`).
* A cancellation removes the alarms of what it cancels from both timers
  (`OSScheduler.cpp:478`), but `sleep` inserts its alarm before
  `eventWaitPrepare`, which refuses the wait of an interrupted thread
  (`OSTimer.cpp:88`). A thread interrupted after the check at the beginning of `sleep`
  leaves its alarm there until it sleeps on the same clock again; with a second
  clock the alarm may end a sleep there. `OSTimer` has any number of clocks, the runs
  one; with two and an interruption TLC refutes `SleepIsTimed`.
* All custom timers share one event, and starting one removes the alarms of that
  event first (`OSTimer.cpp:179`): the others are cancelled. `StartedTimerGoesOff`
  is claimed of a timer until one is started.
* A strict wait of an interrupted thread for event flags is refused and repeated
  without a yield (`OSEventFlags.cpp:113`): threads of lower priority wait until a
  bit is set.

Of the character device:

* An alarm is taken out of the timer only by a wait that goes on
  (`OSDeviceCharacter.cpp:662`). After a timeout of another kind, or when the first
  part of a `writeBytes` did not wait, it stays, and a later wait without a
  timeout may end with `OS_TIMEOUT`; so may a `writeBytes` that has not waited, with
  the return value of an earlier wait.
* `cancelRead` (line 536) does not reach a reader that has looked at the flag and
  does not wait yet, and `readBytes` does not look at the flag.
* A `writeBytes` with `OS_IMMEDIATELY` that was accepted in part returns
  `OS_WOULD_BLOCK`, without the count. `close` does not wake a waiting writer.
  Of two writers the second may find the buffer filled by the first.
* The AVR8 port does not disable itself in `implPortDisable`; with that
  (`Close_PortStays`) an interrupt between the two parts of the `clear()` in `open`
  leaves bytes in a buffer whose pointers say otherwise. The model has the port
  that does.
* A buffer of fewer than three bytes has a low water mark of 0 by default
  (`CircularByteBuffer.cpp:69`): no writer would be woken.
  `BufferAssumption` excludes it.
* `OSDeviceCharacterBufferedUsartBase` hands the transmit and the receive
  buffer over in the other order; the build with READMATCH does not compile.

Of the storage:

* A session left without a block leaves a hole in the block identifiers, which
  the search does not expect: with `EmptySessions` = TRUE TLC refutes
  `DiskIsLogTail`.
* `closeSession` does not mark the session in the cache as complete (line 848):
  a reader that waits for a block beyond its end waits on. One that opens a
  session just created, with blocks before it, does not wait but gets a block
  of the ring's last round.
* The search computes the length of a session with its ends exchanged
  (line 343 against the parameters at `LargeCircularSessionsStorage.h:419`); the
  next write repairs it.
* A session that a failure left open gets its forward reference only if the
  writer searches; if a reader was first, the cache is valid and it stays open.
* A session created between the two checks of a reader that asks for the newest
  one does not meet the second check (line 1603): the reader waits for the next
  notification. `NoMissedNotification` leaves it out.
* `readSessionBlock` assigns `OS_BAD_STATE` and returns `OS_OK`. `Session()`
  leaves its last block number unset; nobody reads it before it is set.
* A reader whose session the writer has come round to sees what is left of it, see
  `OpensReal`. `openNextSession` moreover takes the extent of the next session
  from a block it has read before (lines 1213 to 1256): when the writer has come round
  in between, the session it opens need not be on the device any more.

Of the SDI-12 sensor:

* In `STATE6` the break's `STATE2` (line 620) is overwritten by `STATE3` at line 669.
* `STATE6`, `STATE7` and `STATE8` clear flags after the request that may set them
  (lines 584, 591): with the acquiring thread faster than that, its completion is
  missed and the state is left by a break or a timeout only. In `STATE9` the
  request may be cleared before it was seen (line 1546); then the wait at line 784
  does not end.
* `STATE9` does not set `bIsCcmd`; the answer to an M command then leads to
  `STATE7`.
* An answer to an address command that is too late leaves the new address in use
  and not stored.
* A `!` into an empty buffer reads the byte before the buffer (line 2146), and is a
  command's end like any other; in `STATE2` it stops the marking, and
  the state is left by an error of the reception only. What the byte before the buffer
  does to the count, if it is a space, is left out.
* `STATE0` clears the flag of the break (line 353) and switches detection on (line
  359) outside of a critical section, and detection may be on before, from `STATE7`,
  `STATE8` or `init()`. A break that ends in between is seen and switches detection off, and line 359
  switches it on again: the states after it listen with detection on. An edge that comes before
  the thread's `clear()` and its counterpart after the thread's `enter()` then
  take the thread's own reason not to sleep away: `AwakeWhileListening` leaves these
  behaviours out, and without its exception TLC refutes it.
* A D0 that is asked for again and answered too late has set the index of the
  next page back to 0 (line 1057): the recorder that goes on with D1 gets page 0.
  The recorder of `SDI12Values` asks again for what was not answered, or begins
  again at D0.

Of the real time section:

* There is one request. With two events, or after a change of the registered
  thread, a request that nobody waits for stays, and `eventNotify`
  refuses all later ones (`OSRealTime.cpp:46`). `OSRealTime` has one event.

Of the persistent configuration, which no code of the repository uses:

* The checksum does not cover the version, which `updatePersistentHeader` writes
  first: after a failure right behind that the old content verifies, under the
  new version.

Of others, met on the way: `OSDeviceBlockSynchronised` does not look at what
`acquire` returned; the checks of the idle thread before deep sleep
(`OSThreadIdle.cpp:98`) are not in one critical section with the sleep.

## What is not modelled

The table of the inventory gives the reason for each component. Inside of the
modelled ones: names, identifiers, statistics, stack measuring, LEDs and traces,
which nothing reads; the virtual watchdog and the per thread timeouts of the
devices; attempts that fail at once and change nothing; `OS_ALL` as an event; the
measurements of the debug build. Interrupts do not nest, as in the AVR8 and
Cortex-M3 ports with the kernel's mask level.

Above the kernel: of the character device READMATCH, connections, threads that are
interrupted, `m_sending` and `m_isReceiving`, which nothing here tests; of the
storage `clearCachedValues`, `openStorage` and `closeStorage`, `m_isWriting`, the
payload and the errors of the device; of the real time section a second event; of
the sensor the text and the checksums of
the answers, extended commands, resets, the delayed mode and the periodic
measurement. Most lines of the repository are headers of registers, drivers
for one peripheral, start-up code and samples, which have no behaviour apart
from the hardware's.

## Plan

Done, in this order: ready list and kernel; scheduler with an arbitrary
application, and its theorems; mutex; event flags; condition; timers with their
abstract specification; the theorems on mutex and condition; the character
device with its buffers and the queue they implement; the storage with restarts;
the SDI-12 sensor; the theorems on the character device; real time requests;
the theorems on the sensor, the event flags, the condition's wait, the mutex's
list and the timers; those on the storage; those on the order of the ready list
and on the end of a wait; those on the types of the parts above the kernel and on the
real time requests.

Next, modules:

1. `OSIdleSleep`: the votes for deep sleep against interrupts
   (`OSThreadIdle.cpp:98`), with the counter of `SDI12Sensor` as a client.
2. `CircularBlockBuffer` and `LargeCircularBlocksStorage`, the block versions.
3. `OSCriticalSection`: nesting with and without the stack of masks.
4. The event notifiers; several events in `OSRealTime`.
5. A second clock in the timer runs; `OS_ALL` (`OSThread.cpp:367`); timers that
   start themselves again from `timerEvent`.

Next, theorems:

1. `NoMissedByte` for more than one reader.
2. `SleepIsTimed` with several clocks, of sleeps that no refused one came before.
