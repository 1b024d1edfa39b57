----------------------------- MODULE SDI12Sensor -----------------------------
(***************************************************************************)
(* class SDI12Sensor (devices/sdi12/src/SDI12Sensor.cpp): the thread that  *)
(* talks to the data recorder (a machine of ten states), the thread that   *)
(* acquires the data, and the interrupts of the line, the USART and the    *)
(* clock that wake them through one set of event flags (OSEventFlags, seen *)
(* from outside: a wait is over when one of its flags is set).             *)
(*                                                                         *)
(* The main thread is cut where an interrupt makes a difference: around    *)
(* the clearing of flags and the switching of break detection, and where   *)
(* it waits.  Time is left out: an armed timer may go off at any tick, an  *)
(* answer may come too late.  A command is a member of Commands; the text  *)
(* of the answers is left out.                                             *)
(***************************************************************************)
EXTENDS Integers

CONSTANTS
  Addresses,   \* the addresses the sensor may have
  Others,      \* what else a command may begin with: other sensors, the query
  Commands,    \* what the recorder sends: "ack", "A", "M", "C", "D", "X", "bad"
  MaxAwake     \* where cpuSleepCritical's count stays, 0xFF in the code

ASSUME SensorAssumption == Addresses \cap Others = {} /\ MaxAwake \in Nat \ {0}

VARIABLES
  state,    \* ms_state
  step,     \* where the main thread is in that state
  flags,    \* ms_flags
  acq,      \* where the acquiring thread is
  cancel,   \* its isInterrupted()
  line,     \* what is switched on: receiver, break detection, transmitter and
            \* the two timers, whether the line is low; and auxiliary, whether
            \* detection was switched on again after the break it waits for
  buf,      \* ms_buf: how full (2 is more than one character), and the request
  cmd,      \* what processCommand() left for the states after it
  own,      \* ms_ownAddress, and the copy in non-volatile memory
  data,     \* the D values: valid (ms_bDAvailable) and contents; and auxiliary,
            \* whether a concurrent measurement owes its values
  awake     \* cpuSleepCritical's count

sensorVars == <<state, step, flags, acq, cancel, line, buf, cmd, own, data, awake>>

Query == "?"
Nobody == "0"

\* An empty buffer, and one that holds an answer.
Empty == [count |-> 0, addr |-> Nobody, cmd |-> "ack"]
Answer == [Empty EXCEPT !.count = 2]

SensorInit ==
  /\ state = 0 /\ step = "top" /\ flags = {"INITIALIZED"}
  /\ acq = "clear" /\ cancel = FALSE
  /\ line = [rx |-> FALSE, brk |-> TRUE, tx |-> FALSE, timeout |-> FALSE,
             marking |-> FALSE, low |-> FALSE, again |-> FALSE]
  /\ buf = Empty
  /\ cmd = [more |-> FALSE, acquire |-> FALSE, service |-> FALSE, isC |-> FALSE,
            prev |-> Nobody]
  /\ \E a \in Addresses : own = [ram |-> a, stored |-> a]
  /\ data = [available |-> FALSE, values |-> "none"]
  /\ awake = 0

\* What the main thread waits for in each state.
Awaited(s) ==
  CASE s = 0 -> {"BREAK"}
    [] s = 2 -> {"MARKING", "RX_ERROR", "MARKING_CANCELLED"}
    [] s = 3 -> {"ADDRESS", "BREAK", "TIMEOUT"}
    [] s \in {4, 9} -> {"EXCLAMATION", "MARKING"}
    [] s \in {6, 7} -> {"ACQUIRE_COMPLETED", "BREAK"}
    [] s = 8 -> {"ACQUIRE_COMPLETED", "ADDRESS", "BREAK", "TIMEOUT"}
    [] OTHER -> {}

\* The flags that the main thread waits for at the place where it is.
WaitsFor ==
  CASE step = "wait" -> Awaited(state)
    [] step = "cancel" -> {"ACQUIRE_COMPLETED"}
    [] step \in {"tx", "service"} -> {"TX_COMPLETED"}
    [] OTHER -> {}

Set == WaitsFor \cap flags # {}
Blocked == WaitsFor # {} /\ ~Set

Enter(s) == state' = s /\ step' = "top"

\* OSCpuSleepCriticalSection::enter and exit.
SleepEnter == IF awake < MaxAwake THEN awake + 1 ELSE awake

SleepExit == IF awake > 0 THEN awake - 1 ELSE 0

-----------------------------------------------------------------------------
(***************************************************************************)
(* threadMainSDI12                                                         *)
(***************************************************************************)

\* STATE0: low power standby.  The flag is cleared, in no critical section with
\* what follows; detection may still be on, from STATE7, STATE8 or init() ...
Standby ==
  /\ state = 0 /\ step = "top"
  /\ flags' = flags \ {"BREAK"}
  /\ awake' = 0
  /\ step' = "off"
  /\ UNCHANGED <<state, acq, cancel, line, buf, cmd, own, data>>

\* ... reception is switched off ...
StandbyDeaf ==
  /\ step = "off"
  /\ line' = [line EXCEPT !.rx = FALSE]
  /\ step' = "detect"
  /\ UNCHANGED <<state, flags, acq, cancel, buf, cmd, own, data, awake>>

\* Variant: the flag is cleared when detection is already on.
StandbyDetect_ClearsAfter ==
  \/ /\ step = "detect" /\ step' = "late"
     /\ line' = [line EXCEPT !.brk = TRUE, !.again = FALSE]
     /\ UNCHANGED <<state, flags, acq, cancel, buf, cmd, own, data, awake>>
  \/ /\ step = "late" /\ step' = "wait"
     /\ flags' = flags \ {"BREAK"}
     /\ UNCHANGED <<state, acq, cancel, line, buf, cmd, own, data, awake>>

\* ... and break detection on, or on again when a break was seen meanwhile.
StandbyDetect ==
  /\ step = "detect"
  /\ line' = [line EXCEPT !.brk = TRUE, !.again = "BREAK" \in flags]
  /\ step' = "wait"
  /\ UNCHANGED <<state, flags, acq, cancel, buf, cmd, own, data, awake>>

StandbyOver ==
  /\ state = 0 /\ step = "wait" /\ Set
  /\ Enter(1)
  /\ awake' = 0
  /\ UNCHANGED <<flags, acq, cancel, line, buf, cmd, own, data>>

\* STATE1
Initialise ==
  /\ state = 1
  /\ cmd' = [cmd EXCEPT !.prev = Nobody]
  /\ Enter(2)
  /\ awake' = 0
  /\ UNCHANGED <<flags, acq, cancel, line, buf, own, data>>

\* STATE2 and STATE8 begin with an empty buffer and reception on.
Listen ==
  /\ state \in {2, 8} /\ step = "top"
  /\ buf' = Empty
  /\ line' = [line EXCEPT !.rx = TRUE]
  /\ awake' = 1
  /\ step' = "clear"
  /\ UNCHANGED <<state, flags, acq, cancel, cmd, own, data>>

\* STATE6 and STATE7 begin with the request to acquire.
Request ==
  /\ step = "top" /\ (state = 7 \/ (state = 6 /\ cmd.acquire))
  /\ cmd' = [cmd EXCEPT !.acquire = IF state = 6 THEN FALSE ELSE @]
  /\ line' = [line EXCEPT !.brk = TRUE, !.again = FALSE]
  /\ flags' = flags \cup {"ACQUIRE"}
  /\ awake' = 0
  /\ step' = "clear"
  /\ UNCHANGED <<state, acq, cancel, buf, own, data>>

\* The flags waited for are cleared, the timer is started, the wait begins;
\* STATE3, STATE4 and STATE9 begin here.
Await ==
  /\ step = "clear" \/ (step = "top" /\ state \in {3, 4, 9})
  /\ flags' = flags \ Awaited(state)
  /\ line' = [line EXCEPT !.timeout = state \in {3, 8}, !.marking = state \in {2, 4, 9}]
  /\ awake' = IF step = "top" THEN 1 ELSE awake
  /\ step' = "wait"
  /\ UNCHANGED <<state, acq, cancel, buf, cmd, own, data>>

\* STATE2: the marking was seen, or was none.
Marked ==
  /\ state = 2 /\ step = "wait" /\ Set
  /\ Enter(IF flags \cap {"RX_ERROR", "MARKING_CANCELLED"} # {} THEN 0 ELSE 3)
  /\ line' = [line EXCEPT !.marking = FALSE]
  /\ awake' = SleepExit
  /\ UNCHANGED <<flags, acq, cancel, buf, cmd, own, data>>

\* isAddressValid(ms_buf[0])
AddressValid == buf.addr \in {own.ram, Query}

\* STATE3: an address, a break or 100 ms without either.
Addressed ==
  /\ state = 3 /\ step = "wait" /\ Set
  /\ Enter(IF "BREAK" \in flags THEN 1
           ELSE IF "TIMEOUT" \notin flags /\ AddressValid THEN 4 ELSE 0)
  /\ line' = [line EXCEPT !.timeout = FALSE]
  /\ awake' = SleepExit
  /\ UNCHANGED <<flags, acq, cancel, buf, cmd, own, data>>

-----------------------------------------------------------------------------
(***************************************************************************)
(* processCommand.  A measurement is announced with some values or none,   *)
(* at once or later (then a service request is due); extended commands     *)
(* stand for all that is finished after the answer.                        *)
(***************************************************************************)

Accepted == AddressValid /\ buf.cmd # "bad"

\* Variant: the old values stay valid while new ones are measured.
Process_KeepsValues(isC) ==
  \E some, later \in BOOLEAN, a \in Addresses :
    LET c == IF Accepted THEN buf.cmd ELSE "bad"
        measure == c \in {"M", "C"}
    IN /\ cmd' = [more |-> c \in {"A", "X"} \/ (measure /\ some),
                  acquire |-> measure /\ some, service |-> c = "M" /\ later,
                  isC |-> isC, prev |-> own.ram]
       /\ own' = [own EXCEPT !.ram = IF c = "A" THEN a ELSE @]
       /\ UNCHANGED data

Process(isC) ==
  \E some, later \in BOOLEAN, a \in Addresses :
    LET c == IF Accepted THEN buf.cmd ELSE "bad"
        measure == c \in {"M", "C"}
    IN /\ cmd' = [more |-> c \in {"A", "X"} \/ (measure /\ some),
                  acquire |-> measure /\ some, service |-> c = "M" /\ later,
                  isC |-> isC, prev |-> own.ram]
       /\ own' = [own EXCEPT !.ram = IF c = "A" THEN a ELSE @]
       /\ data' = [data EXCEPT !.available = IF measure THEN FALSE ELSE @]

\* STATE4: the command is in, or a marking came before its end.
Commanded ==
  /\ state = 4 /\ step = "wait" /\ Set
  /\ line' = [line EXCEPT !.marking = FALSE, !.rx = @ /\ "EXCLAMATION" \notin flags]
  /\ awake' = SleepExit
  /\ \/ /\ "EXCLAMATION" \in flags
        /\ Process(buf.cmd = "C")
        /\ Enter(IF Accepted THEN 5 ELSE 2)
     \/ /\ "EXCLAMATION" \notin flags
        /\ Enter(3)
        /\ UNCHANGED <<cmd, own, data>>
  /\ UNCHANGED <<flags, acq, cancel, buf>>

\* transmitResponse up to its wait.
Transmit(then) ==
  /\ step' = then
  /\ flags' = flags \ {"TX_COMPLETED"}
  /\ line' = [line EXCEPT !.tx = TRUE]
  /\ buf' = Answer
  /\ awake' = 1
  /\ UNCHANGED state

\* STATE5: the answer is sent in time, or not at all.
Respond ==
  /\ state = 5 /\ step = "top"
  /\ \/ Transmit("tx")
     \/ /\ Enter(2)
        /\ awake' = 0
        /\ UNCHANGED <<flags, line, buf>>
  /\ UNCHANGED <<acq, cancel, cmd, own, data>>

Responded ==
  /\ step = "tx" /\ Set
  /\ Enter(IF ~cmd.more THEN 3 ELSE IF cmd.isC THEN 7 ELSE 6)
  /\ awake' = SleepExit
  /\ UNCHANGED <<flags, acq, cancel, line, buf, cmd, own, data>>

-----------------------------------------------------------------------------
\* STATE6: the measurement was ended by a break: it is cancelled ...
Broken ==
  /\ state = 6 /\ step = "wait" /\ "BREAK" \in flags
  /\ line' = [line EXCEPT !.brk = FALSE]
  /\ cancel' = TRUE
  /\ awake' = 0
  /\ step' = "cancel"
  /\ UNCHANGED <<state, flags, acq, buf, cmd, own, data>>

\* ... and the end of the cancelled acquisition leads to STATE3, not STATE2.
BrokenOff ==
  /\ state = 6 /\ step = "cancel" /\ Set
  /\ cancel' = FALSE
  /\ data' = [data EXCEPT !.available = FALSE]
  /\ Enter(3)
  /\ UNCHANGED <<flags, acq, line, buf, cmd, own, awake>>

\* Or it is complete: the values are valid, a service request may be due.
Measured ==
  /\ state = 6 /\ step = "wait" /\ Set /\ "BREAK" \notin flags
  /\ data' = [data EXCEPT !.available = TRUE]
  /\ cmd' = [cmd EXCEPT !.service = FALSE]
  /\ IF cmd.service
     THEN /\ step' = "service"
          /\ flags' = flags \ {"TX_COMPLETED"}
          /\ line' = [line EXCEPT !.brk = FALSE, !.tx = TRUE]
          /\ buf' = Answer
          /\ awake' = 1
     ELSE /\ step' = "finish"
          /\ line' = [line EXCEPT !.brk = FALSE]
          /\ awake' = 0
          /\ UNCHANGED <<flags, buf>>
  /\ UNCHANGED <<state, acq, cancel, own>>

Serviced ==
  /\ step = "service" /\ Set
  /\ step' = "finish"
  /\ awake' = SleepExit
  /\ UNCHANGED <<state, flags, acq, cancel, line, buf, cmd, own, data>>

\* After the answer a new address is stored.
Finish ==
  /\ state = 6 /\ (step = "finish" \/ (step = "top" /\ ~cmd.acquire))
  /\ own' = [own EXCEPT !.stored = IF cmd.prev # own.ram THEN own.ram ELSE @]
  /\ Enter(3)
  /\ awake' = IF step = "top" THEN 0 ELSE awake
  /\ UNCHANGED <<flags, acq, cancel, line, buf, cmd, data>>

-----------------------------------------------------------------------------
\* STATE7: a concurrent measurement is complete, or a break came.
Concurrent ==
  /\ state = 7 /\ step = "wait" /\ Set
  /\ awake' = 0
  /\ \/ /\ "BREAK" \in flags
        /\ Enter(8)
        /\ UNCHANGED data
     \/ /\ "BREAK" \notin flags
        /\ data' = [data EXCEPT !.available = TRUE]
        /\ Enter(0)
  /\ UNCHANGED <<flags, acq, cancel, line, buf, cmd, own>>

\* STATE8: the address, a timeout, or the end of the measurement.
ConcurrentAddressed ==
  /\ state = 8 /\ step = "wait" /\ Set
  /\ Enter(IF "BREAK" \in flags THEN 8
           ELSE IF "TIMEOUT" \in flags THEN 7
           ELSE IF "ADDRESS" \in flags THEN (IF AddressValid THEN 9 ELSE 7)
           ELSE 0)
  /\ line' = [line EXCEPT !.timeout = FALSE]
  /\ awake' = SleepExit
  /\ UNCHANGED <<flags, acq, cancel, buf, cmd, own, data>>

\* STATE9: a valid command cancels the measurement ...
ConcurrentCommanded ==
  /\ state = 9 /\ step = "wait" /\ Set
  /\ line' = [line EXCEPT !.marking = FALSE, !.rx = @ /\ "EXCLAMATION" \notin flags]
  /\ \/ /\ "EXCLAMATION" \in flags
        /\ Process(cmd.isC)
        /\ IF Accepted
           THEN /\ cancel' = TRUE
                /\ step' = "cancel"
                /\ UNCHANGED <<state, awake>>
           ELSE /\ Enter(7)
                /\ awake' = SleepExit
                /\ UNCHANGED cancel
     \/ /\ "EXCLAMATION" \notin flags
        /\ Enter(7)
        /\ awake' = SleepExit
        /\ UNCHANGED <<cancel, cmd, own, data>>
  /\ UNCHANGED <<flags, acq, buf>>

\* ... and is answered when the acquisition has ended.
ConcurrentCancelled ==
  /\ state = 9 /\ step = "cancel" /\ Set
  /\ cancel' = FALSE
  /\ data' = [data EXCEPT !.available = FALSE]
  /\ Enter(5)
  /\ awake' = SleepExit
  /\ UNCHANGED <<flags, acq, line, buf, cmd, own>>

Main ==
  \/ Standby \/ StandbyDeaf \/ StandbyDetect \/ StandbyOver \/ Initialise
  \/ Listen \/ Request \/ Await \/ Marked \/ Addressed \/ Commanded \/ Respond \/ Responded
  \/ Broken \/ BrokenOff \/ Measured \/ Serviced \/ Finish
  \/ Concurrent \/ ConcurrentAddressed \/ ConcurrentCommanded \/ ConcurrentCancelled

-----------------------------------------------------------------------------
(***************************************************************************)
(* threadMainAcquire; prepareMeasuredData() is the application's, and may  *)
(* end early when the thread is interrupted.                               *)
(***************************************************************************)

AcquireUnchanged == UNCHANGED <<state, step, cancel, line, buf, cmd, own, awake>>

ClearRequest ==
  /\ acq = "clear"
  /\ acq' = "wait"
  /\ flags' = flags \ {"ACQUIRE"}
  /\ AcquireUnchanged /\ UNCHANGED data

Measure ==
  /\ acq = "wait" /\ "ACQUIRE" \in flags
  /\ acq' = "measure"
  /\ data' = [data EXCEPT !.values = "partial"]
  /\ AcquireUnchanged /\ UNCHANGED flags

Complete ==
  /\ acq = "measure"
  /\ acq' = "clear"
  /\ \E v \in {"partial", "complete"} :
       /\ v = "partial" => cancel
       /\ data' = [data EXCEPT !.values = v]
  /\ flags' = flags \cup {"ACQUIRE_COMPLETED"}
  /\ AcquireUnchanged

Acquire == ClearRequest \/ Measure \/ Complete

-----------------------------------------------------------------------------
(***************************************************************************)
(* The interrupts                                                          *)
(***************************************************************************)

Notify(f) == flags' = flags \cup {f}
InterruptUnchanged == UNCHANGED <<state, step, acq, cancel, cmd, own, data>>

\* interruptPinChangeServiceRoutine: the line goes low ...
PinFalls ==
  /\ ~line.low
  /\ line' = [line EXCEPT !.low = TRUE]
  /\ awake' = IF line.brk THEN SleepEnter ELSE awake
  /\ InterruptUnchanged /\ UNCHANGED <<flags, buf>>

\* Variant: detection stays on after the break.
PinRises_DetectionOn ==
  /\ line.low
  /\ \E long \in BOOLEAN :
       /\ line' = [line EXCEPT !.low = FALSE]
       /\ flags' = flags \cup (IF line.brk /\ long THEN {"BREAK"} ELSE {})
  /\ awake' = IF line.brk THEN SleepExit ELSE awake
  /\ InterruptUnchanged /\ UNCHANGED buf

\* ... and high again: long enough, it was a break, and detection goes off.
PinRises ==
  /\ line.low
  /\ \E long \in BOOLEAN :
       /\ line' = [line EXCEPT !.low = FALSE, !.brk = @ /\ ~long]
       /\ flags' = flags \cup (IF line.brk /\ long THEN {"BREAK"} ELSE {})
  /\ awake' = IF line.brk THEN SleepExit ELSE awake
  /\ InterruptUnchanged /\ UNCHANGED buf

\* interruptTick: the last tick of the timeout ...
TimeoutTick ==
  /\ line.timeout
  /\ line' = [line EXCEPT !.timeout = FALSE]
  /\ Notify("TIMEOUT")
  /\ InterruptUnchanged /\ UNCHANGED <<buf, awake>>

\* ... and of the marking; a low line starts the marking again.
MarkingTick ==
  /\ line.marking
  /\ \/ line.low /\ Notify("MARKING_CANCELLED") /\ UNCHANGED line
     \/ /\ ~line.low
        /\ line' = [line EXCEPT !.marking = FALSE]
        /\ Notify("MARKING")
  /\ InterruptUnchanged /\ UNCHANGED <<buf, awake>>

\* interruptRxServiceRoutine: an error, or no room for the character ...
ReceiveError ==
  /\ line.rx
  /\ Notify("RX_ERROR")
  /\ InterruptUnchanged /\ UNCHANGED <<line, buf, awake>>

\* ... the first character, the address ...
ReceiveFirst ==
  /\ line.rx /\ buf.count = 0
  /\ \E a \in Addresses \cup Others :
       buf' = [count |-> 1, addr |-> a, cmd |-> "ack"]
  /\ Notify("ADDRESS")
  /\ InterruptUnchanged /\ UNCHANGED <<line, awake>>

\* ... the others, the command ...
ReceiveRest ==
  /\ line.rx /\ buf.count = 1
  /\ \E c \in Commands \ {"ack"} : buf' = [buf EXCEPT !.count = 2, !.cmd = c]
  /\ InterruptUnchanged /\ UNCHANGED <<flags, line, awake>>

\* ... and its end.
ReceiveExclamation ==
  /\ line.rx
  /\ line' = [line EXCEPT !.marking = FALSE]
  /\ Notify("EXCLAMATION")
  /\ InterruptUnchanged /\ UNCHANGED <<buf, awake>>

\* interruptTxServiceRoutine until the buffer is sent, then
\* interruptTxCompleteServiceRoutine.
TransmitDone ==
  /\ line.tx
  /\ line' = [line EXCEPT !.tx = FALSE]
  /\ Notify("TX_COMPLETED")
  /\ InterruptUnchanged /\ UNCHANGED <<buf, awake>>

Interrupt ==
  \/ PinFalls \/ PinRises \/ TimeoutTick \/ MarkingTick
  \/ ReceiveError \/ ReceiveFirst \/ ReceiveRest \/ ReceiveExclamation \/ TransmitDone

SensorNext == Main \/ Acquire \/ Interrupt

SensorSpec == SensorInit /\ [][SensorNext]_sensorVars

-----------------------------------------------------------------------------
(***************************************************************************)
(* Properties                                                              *)
(***************************************************************************)

\* The variables stay in their types.
SensorTypeOK ==
  /\ state \in 0..9
  /\ step \in {"top", "off", "detect", "clear", "wait", "cancel", "tx", "service", "finish"}
  /\ acq \in {"clear", "wait", "measure"} /\ cancel \in BOOLEAN
  /\ own \in [ram : Addresses, stored : Addresses]
  /\ buf.count \in 0..2 /\ awake \in 0..MaxAwake

\* D values that the sensor would send are those of an acquisition that ran to
\* its end, and nobody is changing them: neither a cancelled acquisition nor
\* one requested twice makes others valid.
DataIsComplete == data.available => data.values = "complete" /\ acq # "measure"

\* While the thread waits for the USART or the marking the processor does not
\* sleep, however the edges of the line fall between the thread's own entries
\* and exits; unless detection was switched on again over the break that ended
\* the standby (then it is on while the thread listens, and an edge may undo
\* the thread's entry).
AwakeWhileListening ==
  step = "wait" /\ state \in {2, 3, 4, 8, 9} /\ ~line.again => awake > 0

\* A sensor in standby hears the next break: detection is on, or the break has
\* been seen.
HearsBreak == step = "wait" /\ state = 0 => line.brk \/ "BREAK" \in flags

=============================================================================
