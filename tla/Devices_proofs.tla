--------------------------- MODULE Devices_proofs ---------------------------
(***************************************************************************)
(* What three devices promise: the SDI-12 sensor, for every set of         *)
(* addresses and of commands and for every number of values; the buffered  *)
(* character device, for buffers of every size, all watermarks, bytes and  *)
(* timeouts; and the large circular storage, for rings of every size,      *)
(* everything written before, every number of readers and any number of    *)
(* restarts.                                                               *)
(***************************************************************************)
EXTENDS Devices, SequenceTheorems, WellFoundedInduction, TLAPS

(***************************************************************************)
(* The sensor.  Its invariant has three parts: where the main thread may   *)
(* be in each state, what it has switched on there, and what it knows of   *)
(* the values.                                                             *)
(***************************************************************************)

Lines == [rx : BOOLEAN, brk : BOOLEAN, tx : BOOLEAN, timeout : BOOLEAN,
          marking : BOOLEAN, low : BOOLEAN, again : BOOLEAN]
RxBuffers == [count : 0..2, addr : Addresses \cup Others \cup {Query, Nobody},
            cmd : Commands \cup {"ack"}]
Results == [more : BOOLEAN, acquire : BOOLEAN, service : BOOLEAN, isC : BOOLEAN,
            prev : Addresses \cup {Nobody}]

DataStates == [available : BOOLEAN, values : {"none", "partial", "complete"}]

\* The variables and the fields of their records stay in their types.
FieldsOK ==
  /\ SensorTypeOK
  /\ line \in Lines /\ buf \in RxBuffers /\ cmd \in Results
  /\ data \in DataStates

\* Where the main thread may be in each state; it cancels only while it waits
\* for the end of what it cancelled.
PlaceOK ==
  /\ step \in {"off", "detect"} => state = 0
  /\ step = "clear" => state \in {2, 6, 7, 8}
  /\ step = "wait" => state \in {0, 2, 3, 4, 6, 7, 8, 9}
  /\ step = "tx" => state = 5
  /\ step \in {"service", "finish"} => state = 6
  /\ step = "cancel" => state \in {6, 9}
  /\ cancel <=> step = "cancel"

\* Unless it was switched on again over the break that ended the standby, break
\* detection is on only in standby and while a measurement runs, and a break
\* that was seen has switched it off; so no edge of the line counts in
\* cpuSleepCritical while the thread listens.
LineOK ==
  /\ line.brk /\ ~line.again =>
       state \in {0, 7} \/ (state = 6 /\ step \in {"clear", "wait"})
  /\ step = "wait" /\ state \in {0, 6, 7} /\ "BREAK" \in flags /\ ~line.again => ~line.brk
  /\ step = "wait" /\ state = 0 => line.brk \/ "BREAK" \in flags
  /\ state \in {8, 9} \/ (state \in {6, 7} /\ step # "top") => ~line.again
  /\ step \in {"clear", "wait"} /\ state \in {2, 3, 4, 8, 9} /\ ~line.again => awake = 1

\* The acquisition that was asked for last has run to its end, and no other is
\* asked for.
Quiet ==
  /\ data.values = "complete"
  /\ acq # "measure"
  /\ acq = "wait" => "ACQUIRE" \notin flags

\* A state that may go on to ask for an acquisition has no valid values, and
\* the end of an acquisition that is still waited for left complete ones.
DataOK ==
  /\ data.available =>
       /\ Quiet
       /\ state \notin {7, 8, 9}
       /\ state = 5 => ~(cmd.more /\ cmd.isC)
       /\ state \in {5, 6} => ~cmd.acquire
       /\ state = 6 => step \notin {"clear", "wait", "cancel"}
  /\ state = 6 /\ step # "top" => ~cmd.acquire
  /\ state \in {6, 7} /\ step = "wait" /\ "ACQUIRE_COMPLETED" \in flags => Quiet

SensorInv == FieldsOK /\ PlaceOK /\ LineOK /\ DataOK

\* What processCommand() leaves for the states after it stays in its type.
LEMMA ProcessCmd ==
  ASSUME own.ram \in Addresses, NEW isC \in BOOLEAN, Process(isC)
  PROVE  cmd' \in Results
<1>1. PICK some \in BOOLEAN, later \in BOOLEAN :
        LET c == IF Accepted THEN buf.cmd ELSE "bad"
            measure == c \in {"M", "C"}
        IN cmd' = [more |-> c \in {"A", "X"} \/ (measure /\ some),
                   acquire |-> measure /\ some, service |-> c = "M" /\ later,
                   isC |-> isC, prev |-> own.ram]
  BY DEF Process
<1> QED
  BY <1>1 DEF Results

\* No step puts anything else into the record of what is switched on.
LEMMA LineField ==
  ASSUME line \in Lines, SensorNext
  PROVE  line' \in Lines
<1>1. CASE StandbyDeaf
  BY <1>1 DEF StandbyDeaf, Lines
<1>20. CASE StandbyDetect
  <2>1. \A b \in BOOLEAN : [line EXCEPT !.brk = TRUE, !.again = b] \in Lines
    BY DEF Lines
  <2>2. ("BREAK" \in flags) \in BOOLEAN
    OBVIOUS
  <2> QED
    BY <1>20, <2>1, <2>2 DEF StandbyDetect
<1>2. CASE Listen
  BY <1>2 DEF Listen, Lines
<1>3. CASE Request
  BY <1>3 DEF Request, Lines
<1>4. CASE Await
  <2>1. \A b, c \in BOOLEAN : [line EXCEPT !.timeout = b, !.marking = c] \in Lines
    BY DEF Lines
  <2>2. (state \in {3, 8}) \in BOOLEAN /\ (state \in {2, 4, 9}) \in BOOLEAN
    OBVIOUS
  <2> QED
    BY <1>4, <2>1, <2>2 DEF Await
<1>5. CASE Marked
  BY <1>5 DEF Marked, Lines
<1>6. CASE Addressed
  BY <1>6 DEF Addressed, Lines
<1>7. CASE Commanded
  BY <1>7 DEF Commanded, Lines
<1>8. CASE Respond
  BY <1>8 DEF Respond, Transmit, Lines
<1>9. CASE Broken
  BY <1>9 DEF Broken, Lines
<1>10. CASE Measured
  BY <1>10 DEF Measured, Lines
<1>11. CASE ConcurrentAddressed
  BY <1>11 DEF ConcurrentAddressed, Lines
<1>12. CASE ConcurrentCommanded
  BY <1>12 DEF ConcurrentCommanded, Lines
<1>13. CASE PinFalls
  BY <1>13 DEF PinFalls, Lines
<1>14. CASE PinRises
  BY <1>14 DEF PinRises, Lines
<1>15. CASE TimeoutTick
  BY <1>15 DEF TimeoutTick, Lines
<1>16. CASE MarkingTick
  BY <1>16 DEF MarkingTick, Lines
<1>17. CASE ReceiveExclamation
  BY <1>17 DEF ReceiveExclamation, Lines
<1>18. CASE TransmitDone
  BY <1>18 DEF TransmitDone, Lines
<1>19. CASE UNCHANGED line
  BY <1>19
<1> QED
  BY <1>1, <1>2, <1>3, <1>4, <1>5, <1>6, <1>7, <1>8, <1>9, <1>10, <1>11,
     <1>12, <1>13, <1>14, <1>15, <1>16, <1>17, <1>18, <1>19, <1>20
    DEF SensorNext, Main, Acquire, Interrupt, AcquireUnchanged,
        InterruptUnchanged, Standby, StandbyOver, Initialise, Responded,
        BrokenOff, Serviced, Finish, Concurrent, ConcurrentCancelled, ClearRequest,
        Measure, Complete, ReceiveError, ReceiveFirst, ReceiveRest

\* No step puts anything else into the buffer.
LEMMA BufField ==
  ASSUME buf \in RxBuffers, SensorNext
  PROVE  buf' \in RxBuffers
<1>1. CASE Listen
  BY <1>1 DEF Listen, Empty, Nobody, RxBuffers
<1>2. CASE Respond
  BY <1>2 DEF Respond, Transmit, Answer, Empty, Nobody, RxBuffers
<1>3. CASE Measured
  BY <1>3 DEF Measured, Answer, Empty, Nobody, RxBuffers
<1>4. CASE ReceiveFirst
  BY <1>4 DEF ReceiveFirst, RxBuffers
<1>5. CASE ReceiveRest
  <2>1. PICK c \in Commands : buf' = [buf EXCEPT !.count = 2, !.cmd = c]
    BY <1>5 DEF ReceiveRest
  <2>2. buf' = [count |-> 2, addr |-> buf.addr, cmd |-> c]
    BY <2>1 DEF RxBuffers
  <2> QED
    BY <2>2 DEF RxBuffers
<1>6. CASE UNCHANGED buf
  BY <1>6
<1> QED
  BY <1>1, <1>2, <1>3, <1>4, <1>5, <1>6
    DEF SensorNext, Main, Acquire, Interrupt, AcquireUnchanged,
        InterruptUnchanged, Standby, StandbyDeaf, StandbyDetect, StandbyOver, Initialise, Request,
        Await, Marked, Addressed, Commanded, Responded, Broken, BrokenOff,
        Serviced, Finish, Concurrent, ConcurrentAddressed,
        ConcurrentCommanded, ConcurrentCancelled, ClearRequest, Measure,
        Complete, PinFalls, PinRises, TimeoutTick, MarkingTick,
        ReceiveError, ReceiveExclamation, TransmitDone

\* No step puts anything else into the results of processCommand().
LEMMA CmdField ==
  ASSUME cmd \in Results, buf \in RxBuffers, own.ram \in Addresses, SensorNext
  PROVE  cmd' \in Results
<1>1. CASE Initialise
  BY <1>1 DEF Initialise, Results
<1>2. CASE Request
  BY <1>2 DEF Request, Results
<1>3. CASE Commanded
  <2>1. Process(buf.cmd = "C") => cmd' \in Results
    BY ProcessCmd DEF RxBuffers, Results
  <2> QED
    BY <1>3, <2>1 DEF Commanded
<1>4. CASE Measured
  BY <1>4 DEF Measured, Results
<1>5. CASE ConcurrentCommanded
  <2>1. Process(cmd.isC) => cmd' \in Results
    BY ProcessCmd DEF RxBuffers, Results
  <2> QED
    BY <1>5, <2>1 DEF ConcurrentCommanded
<1>6. CASE UNCHANGED cmd
  BY <1>6
<1> QED
  BY <1>1, <1>2, <1>3, <1>4, <1>5, <1>6
    DEF SensorNext, Main, Acquire, Interrupt, AcquireUnchanged,
        InterruptUnchanged, Standby, StandbyDeaf, StandbyDetect, StandbyOver, Listen, Await, Marked,
        Addressed, Respond, Responded, Broken, BrokenOff, Serviced, Finish,
        Concurrent, ConcurrentAddressed, ConcurrentCancelled, ClearRequest,
        Measure, Complete, PinFalls, PinRises, TimeoutTick, MarkingTick,
        ReceiveError, ReceiveFirst, ReceiveRest, ReceiveExclamation,
        TransmitDone

\* No step puts anything else into the own address.
LEMMA OwnField ==
  ASSUME own \in [ram : Addresses, stored : Addresses], SensorNext
  PROVE  own' \in [ram : Addresses, stored : Addresses]
<1>1. CASE Commanded
  BY <1>1 DEF Commanded, Process
<1>2. CASE Finish
  BY <1>2 DEF Finish
<1>3. CASE ConcurrentCommanded
  BY <1>3 DEF ConcurrentCommanded, Process
<1>4. CASE UNCHANGED own
  BY <1>4
<1> QED
  BY <1>1, <1>2, <1>3, <1>4
    DEF SensorNext, Main, Acquire, Interrupt, AcquireUnchanged,
        InterruptUnchanged, Standby, StandbyDeaf, StandbyDetect, StandbyOver, Initialise, Listen,
        Request, Await, Marked, Addressed, Respond, Responded, Broken,
        BrokenOff, Measured, Serviced, Concurrent, ConcurrentAddressed,
        ConcurrentCancelled, ClearRequest, Measure, Complete, PinFalls,
        PinRises, TimeoutTick, MarkingTick, ReceiveError, ReceiveFirst,
        ReceiveRest, ReceiveExclamation, TransmitDone

\* No step puts anything else into the state of the values.
LEMMA DataField ==
  ASSUME data \in DataStates, SensorNext
  PROVE  data' \in DataStates
<1>1. CASE Commanded
  BY <1>1 DEF Commanded, Process, DataStates
<1>2. CASE BrokenOff
  BY <1>2 DEF BrokenOff, DataStates
<1>3. CASE Measured
  BY <1>3 DEF Measured, DataStates
<1>4. CASE Concurrent
  BY <1>4 DEF Concurrent, DataStates
<1>5. CASE ConcurrentCommanded
  BY <1>5 DEF ConcurrentCommanded, Process, DataStates
<1>6. CASE ConcurrentCancelled
  BY <1>6 DEF ConcurrentCancelled, DataStates
<1>7. CASE Measure
  BY <1>7 DEF Measure, DataStates
<1>8. CASE Complete
  BY <1>8 DEF Complete, DataStates
<1>9. CASE UNCHANGED data
  BY <1>9
<1> QED
  BY <1>1, <1>2, <1>3, <1>4, <1>5, <1>6, <1>7, <1>8, <1>9
    DEF SensorNext, Main, Acquire, Interrupt, AcquireUnchanged,
        InterruptUnchanged, Standby, StandbyDeaf, StandbyDetect, StandbyOver, Initialise, Listen,
        Request, Await, Marked, Addressed, Respond, Responded, Broken,
        Serviced, Finish, ConcurrentAddressed, ClearRequest, PinFalls,
        PinRises, TimeoutTick, MarkingTick, ReceiveError, ReceiveFirst,
        ReceiveRest, ReceiveExclamation, TransmitDone

\* processCommand() changes no values and makes none valid; the valid ones stay so
\* only if it asks for no acquisition.
LEMMA ProcessData ==
  ASSUME data \in DataStates,
         NEW isC, Process(isC)
  PROVE  /\ data'.values = data.values
         /\ cmd'.isC = isC
         /\ data'.available =>
              data.available /\ ~cmd'.acquire /\ (Accepted => buf.cmd \notin {"M", "C"})
<1>1. PICK some \in BOOLEAN, later \in BOOLEAN :
        LET c == IF Accepted THEN buf.cmd ELSE "bad"
            measure == c \in {"M", "C"}
        IN /\ cmd' = [more |-> c \in {"A", "X"} \/ (measure /\ some),
                      acquire |-> measure /\ some, service |-> c = "M" /\ later,
                      isC |-> isC, prev |-> own.ram]
           /\ data' = [data EXCEPT !.available = IF measure THEN FALSE ELSE @]
  BY DEF Process
<1> QED
  BY <1>1 DEF DataStates

\* The states, the places and the count stay in their ranges.
LEMMA TypesStep ==
  ASSUME SensorTypeOK, SensorNext
  PROVE  /\ state' \in 0..9
         /\ step' \in {"top", "off", "detect", "clear", "wait", "cancel", "tx", "service", "finish"}
         /\ acq' \in {"clear", "wait", "measure"} /\ cancel' \in BOOLEAN
         /\ awake' \in 0..MaxAwake
<1> USE SensorAssumption DEF SensorTypeOK, Enter, SleepExit, SleepEnter, Notify,
            InterruptUnchanged,
            AcquireUnchanged, Transmit
<1>1. CASE Standby
  BY <1>1 DEF Standby
<1>2. CASE StandbyOver
  BY <1>2 DEF StandbyOver
<1>3. CASE Initialise
  BY <1>3 DEF Initialise
<1>4. CASE Listen
  BY <1>4 DEF Listen
<1>5. CASE Request
  BY <1>5 DEF Request
<1>6. CASE Await
  BY <1>6 DEF Await
<1>7. CASE Marked
  BY <1>7 DEF Marked
<1>8. CASE Addressed
  BY <1>8 DEF Addressed
<1>9. CASE Commanded
  BY <1>9 DEF Commanded
<1>10. CASE Respond
  BY <1>10 DEF Respond
<1>11. CASE Responded
  BY <1>11 DEF Responded
<1>12. CASE Broken
  BY <1>12 DEF Broken
<1>13. CASE BrokenOff
  <2>1. cancel' = cancel \/ cancel' = TRUE \/ cancel' = FALSE
    BY <1>13, Zenon DEF BrokenOff
  <2>2. /\ state' \in 0..9
        /\ step' \in {"top", "clear", "wait", "cancel", "tx", "service", "finish"}
        /\ acq' \in {"clear", "wait", "measure"}
        /\ awake' \in 0..MaxAwake
    BY <1>13 DEF BrokenOff
  <2> QED
    BY <2>1, <2>2
<1>14. CASE Measured
  BY <1>14 DEF Measured
<1>15. CASE Serviced
  BY <1>15 DEF Serviced
<1>16. CASE Finish
  BY <1>16 DEF Finish
<1>17. CASE Concurrent
  BY <1>17 DEF Concurrent
<1>18. CASE ConcurrentAddressed
  BY <1>18 DEF ConcurrentAddressed
<1>19. CASE ConcurrentCommanded
  <2>1. cancel' = cancel \/ cancel' = TRUE \/ cancel' = FALSE
    BY <1>19, Zenon DEF ConcurrentCommanded
  <2>2. /\ state' \in 0..9
        /\ step' \in {"top", "clear", "wait", "cancel", "tx", "service", "finish"}
        /\ acq' \in {"clear", "wait", "measure"}
        /\ awake' \in 0..MaxAwake
    BY <1>19 DEF ConcurrentCommanded
  <2> QED
    BY <2>1, <2>2
<1>20. CASE ConcurrentCancelled
  <2>1. cancel' = cancel \/ cancel' = TRUE \/ cancel' = FALSE
    BY <1>20, Zenon DEF ConcurrentCancelled
  <2>2. /\ state' \in 0..9
        /\ step' \in {"top", "clear", "wait", "cancel", "tx", "service", "finish"}
        /\ acq' \in {"clear", "wait", "measure"}
        /\ awake' \in 0..MaxAwake
    BY <1>20 DEF ConcurrentCancelled
  <2> QED
    BY <2>1, <2>2
<1>21. CASE ClearRequest
  BY <1>21 DEF ClearRequest
<1>22. CASE Measure
  BY <1>22 DEF Measure
<1>23. CASE Complete
  BY <1>23 DEF Complete
<1>24. CASE PinFalls
  BY <1>24 DEF PinFalls
<1>25. CASE PinRises
  BY <1>25 DEF PinRises
<1>26. CASE TimeoutTick
  BY <1>26 DEF TimeoutTick
<1>27. CASE MarkingTick
  BY <1>27 DEF MarkingTick
<1>28. CASE ReceiveError
  BY <1>28 DEF ReceiveError
<1>29. CASE ReceiveFirst
  BY <1>29 DEF ReceiveFirst
<1>30. CASE ReceiveRest
  BY <1>30 DEF ReceiveRest
<1>31. CASE ReceiveExclamation
  BY <1>31 DEF ReceiveExclamation
<1>32. CASE TransmitDone
  BY <1>32 DEF TransmitDone
<1>33. CASE StandbyDeaf
  BY <1>33 DEF StandbyDeaf
<1>34. CASE StandbyDetect
  BY <1>34 DEF StandbyDetect
<1> QED
  BY <1>1, <1>2, <1>3, <1>4, <1>5, <1>6, <1>7, <1>8, <1>9, <1>10, <1>11,
     <1>12, <1>13, <1>14, <1>15, <1>16, <1>17, <1>18, <1>19, <1>20,
     <1>21, <1>22, <1>23, <1>24, <1>25, <1>26, <1>27, <1>28, <1>29,
     <1>30, <1>31, <1>32, <1>33, <1>34
     DEF SensorNext, Main, Acquire, Interrupt

\* The main thread stays where its state allows it to be.
LEMMA PlaceStep ==
  ASSUME FieldsOK, PlaceOK, SensorNext
  PROVE  PlaceOK'
<1> USE DEF PlaceOK, FieldsOK, SensorTypeOK, Enter, SleepExit,
            SleepEnter, Set, WaitsFor, Awaited, Notify,
            InterruptUnchanged, AcquireUnchanged, Transmit
<1>1. CASE Standby
  BY <1>1 DEF Standby
<1>2. CASE StandbyOver
  BY <1>2 DEF StandbyOver
<1>3. CASE Initialise
  BY <1>3 DEF Initialise
<1>4. CASE Listen
  BY <1>4 DEF Listen
<1>5. CASE Request
  BY <1>5 DEF Request
<1>6. CASE Await
  BY <1>6 DEF Await
<1>7. CASE Marked
  BY <1>7 DEF Marked
<1>8. CASE Addressed
  BY <1>8 DEF Addressed
<1>9. CASE Commanded
  BY <1>9 DEF Commanded
<1>10. CASE Respond
  BY <1>10 DEF Respond
<1>11. CASE Responded
  BY <1>11 DEF Responded
<1>12. CASE Broken
  BY <1>12 DEF Broken
<1>13. CASE BrokenOff
  BY <1>13 DEF BrokenOff
<1>14. CASE Measured
  BY <1>14 DEF Measured
<1>15. CASE Serviced
  BY <1>15 DEF Serviced
<1>16. CASE Finish
  BY <1>16 DEF Finish
<1>17. CASE Concurrent
  BY <1>17 DEF Concurrent
<1>18. CASE ConcurrentAddressed
  BY <1>18 DEF ConcurrentAddressed
<1>19. CASE ConcurrentCommanded
  BY <1>19 DEF ConcurrentCommanded
<1>20. CASE ConcurrentCancelled
  BY <1>20 DEF ConcurrentCancelled
<1>21. CASE ClearRequest
  BY <1>21 DEF ClearRequest
<1>22. CASE Measure
  BY <1>22 DEF Measure
<1>23. CASE Complete
  BY <1>23 DEF Complete
<1>24. CASE PinFalls
  BY <1>24 DEF PinFalls
<1>25. CASE PinRises
  BY <1>25 DEF PinRises
<1>26. CASE TimeoutTick
  BY <1>26 DEF TimeoutTick
<1>27. CASE MarkingTick
  BY <1>27 DEF MarkingTick
<1>28. CASE ReceiveError
  BY <1>28 DEF ReceiveError
<1>29. CASE ReceiveFirst
  BY <1>29 DEF ReceiveFirst
<1>30. CASE ReceiveRest
  BY <1>30 DEF ReceiveRest
<1>31. CASE ReceiveExclamation
  BY <1>31 DEF ReceiveExclamation
<1>32. CASE TransmitDone
  BY <1>32 DEF TransmitDone
<1>33. CASE StandbyDeaf
  BY <1>33 DEF StandbyDeaf
<1>34. CASE StandbyDetect
  BY <1>34 DEF StandbyDetect
<1> QED
  BY <1>1, <1>2, <1>3, <1>4, <1>5, <1>6, <1>7, <1>8, <1>9, <1>10, <1>11,
     <1>12, <1>13, <1>14, <1>15, <1>16, <1>17, <1>18, <1>19, <1>20,
     <1>21, <1>22, <1>23, <1>24, <1>25, <1>26, <1>27, <1>28, <1>29,
     <1>30, <1>31, <1>32, <1>33, <1>34
     DEF SensorNext, Main, Acquire, Interrupt

\* Break detection and the processor's sleep stay as the states need them.
LEMMA LineStep ==
  ASSUME SensorInv, SensorNext
  PROVE  LineOK'
<1> USE DEF SensorInv, PlaceOK, FieldsOK, SensorTypeOK, Lines, LineOK,
            Enter, SleepExit, SleepEnter, Set, WaitsFor, Awaited, Notify,
            InterruptUnchanged, AcquireUnchanged, Transmit
<1>1. CASE Standby
  BY <1>1 DEF Standby
<1>2. CASE StandbyOver
  BY <1>2 DEF StandbyOver
<1>3. CASE Initialise
  BY <1>3 DEF Initialise
<1>4. CASE Listen
  BY <1>4 DEF Listen
<1>5. CASE Request
  <2>1. line'.brk /\ ~line'.again /\ step' = "clear" /\ state' = state
    BY <1>5 DEF Request
  <2>2. state \in {6, 7}
    BY <1>5 DEF Request
  <2> QED
    BY <2>1, <2>2
<1>6. CASE Await
  BY <1>6 DEF Await
<1>7. CASE Marked
  BY <1>7 DEF Marked
<1>8. CASE Addressed
  BY <1>8 DEF Addressed
<1>9. CASE Commanded
  BY <1>9 DEF Commanded
<1>10. CASE Respond
  BY <1>10 DEF Respond
<1>11. CASE Responded
  BY <1>11 DEF Responded
<1>12. CASE Broken
  BY <1>12 DEF Broken
<1>13. CASE BrokenOff
  BY <1>13 DEF BrokenOff
<1>14. CASE Measured
  BY <1>14 DEF Measured
<1>15. CASE Serviced
  BY <1>15 DEF Serviced
<1>16. CASE Finish
  BY <1>16 DEF Finish
<1>17. CASE Concurrent
  BY <1>17 DEF Concurrent
<1>18. CASE ConcurrentAddressed
  BY <1>18 DEF ConcurrentAddressed
<1>19. CASE ConcurrentCommanded
  BY <1>19 DEF ConcurrentCommanded
<1>20. CASE ConcurrentCancelled
  BY <1>20 DEF ConcurrentCancelled
<1>21. CASE ClearRequest
  BY <1>21 DEF ClearRequest
<1>22. CASE Measure
  BY <1>22 DEF Measure
<1>23. CASE Complete
  BY <1>23 DEF Complete
<1>24. CASE PinFalls
  BY <1>24 DEF PinFalls
<1>25. CASE PinRises
  BY <1>25 DEF PinRises
<1>26. CASE TimeoutTick
  BY <1>26 DEF TimeoutTick
<1>27. CASE MarkingTick
  BY <1>27 DEF MarkingTick
<1>28. CASE ReceiveError
  BY <1>28 DEF ReceiveError
<1>29. CASE ReceiveFirst
  BY <1>29 DEF ReceiveFirst
<1>30. CASE ReceiveRest
  BY <1>30 DEF ReceiveRest
<1>31. CASE ReceiveExclamation
  BY <1>31 DEF ReceiveExclamation
<1>32. CASE TransmitDone
  BY <1>32 DEF TransmitDone
<1>33. CASE StandbyDeaf
  BY <1>33 DEF StandbyDeaf
<1>34. CASE StandbyDetect
  <2>1. line'.brk /\ (line'.again <=> "BREAK" \in flags)
    BY <1>34 DEF StandbyDetect
  <2>2. state' = 0 /\ step' = "wait" /\ flags' = flags
    BY <1>34 DEF StandbyDetect
  <2> QED
    BY <2>1, <2>2
<1> QED
  BY <1>1, <1>2, <1>3, <1>4, <1>5, <1>6, <1>7, <1>8, <1>9, <1>10, <1>11,
     <1>12, <1>13, <1>14, <1>15, <1>16, <1>17, <1>18, <1>19, <1>20,
     <1>21, <1>22, <1>23, <1>24, <1>25, <1>26, <1>27, <1>28, <1>29,
     <1>30, <1>31, <1>32, <1>33, <1>34
     DEF SensorNext, Main, Acquire, Interrupt

\* Values become valid only when the acquisition that was asked for last has ended
\* by itself.
LEMMA DataStep ==
  ASSUME SensorInv, SensorNext
  PROVE  DataOK'
<1> USE DEF SensorInv, PlaceOK, FieldsOK, SensorTypeOK, Results, DataStates, DataOK,
            Quiet, Enter, SleepExit, SleepEnter, Set, WaitsFor, Awaited,
            Notify, InterruptUnchanged, AcquireUnchanged, Transmit
<1>1. CASE Standby
  BY <1>1 DEF Standby
<1>2. CASE StandbyOver
  BY <1>2 DEF StandbyOver
<1>3. CASE Initialise
  BY <1>3 DEF Initialise
<1>4. CASE Listen
  BY <1>4 DEF Listen
<1>5. CASE Request
  BY <1>5 DEF Request
<1>6. CASE Await
  BY <1>6 DEF Await
<1>7. CASE Marked
  BY <1>7 DEF Marked
<1>8. CASE Addressed
  BY <1>8 DEF Addressed
<1>9. CASE Commanded
  <2>1. Process(buf.cmd = "C") \/ UNCHANGED <<cmd, data>>
    BY <1>9 DEF Commanded
  <2> QED
    BY <1>9, <2>1, ProcessData DEF Commanded
<1>10. CASE Respond
  BY <1>10 DEF Respond
<1>11. CASE Responded
  BY <1>11 DEF Responded
<1>12. CASE Broken
  BY <1>12 DEF Broken
<1>13. CASE BrokenOff
  BY <1>13 DEF BrokenOff
<1>14. CASE Measured
  BY <1>14 DEF Measured
<1>15. CASE Serviced
  BY <1>15 DEF Serviced
<1>16. CASE Finish
  BY <1>16 DEF Finish
<1>17. CASE Concurrent
  BY <1>17 DEF Concurrent
<1>18. CASE ConcurrentAddressed
  BY <1>18 DEF ConcurrentAddressed
<1>19. CASE ConcurrentCommanded
  <2>1. ~data.available
    BY <1>19 DEF ConcurrentCommanded
  <2>2. ~data'.available
    BY <1>19, <2>1, ProcessData DEF ConcurrentCommanded
  <2> QED
    BY <1>19, <2>2 DEF ConcurrentCommanded
<1>20. CASE ConcurrentCancelled
  BY <1>20 DEF ConcurrentCancelled
<1>21. CASE ClearRequest
  BY <1>21 DEF ClearRequest
<1>22. CASE Measure
  BY <1>22 DEF Measure
<1>23. CASE Complete
  BY <1>23 DEF Complete
<1>24. CASE PinFalls
  BY <1>24 DEF PinFalls
<1>25. CASE PinRises
  BY <1>25 DEF PinRises
<1>26. CASE TimeoutTick
  BY <1>26 DEF TimeoutTick
<1>27. CASE MarkingTick
  BY <1>27 DEF MarkingTick
<1>28. CASE ReceiveError
  BY <1>28 DEF ReceiveError
<1>29. CASE ReceiveFirst
  BY <1>29 DEF ReceiveFirst
<1>30. CASE ReceiveRest
  BY <1>30 DEF ReceiveRest
<1>31. CASE ReceiveExclamation
  BY <1>31 DEF ReceiveExclamation
<1>32. CASE TransmitDone
  BY <1>32 DEF TransmitDone
<1>33. CASE StandbyDeaf
  BY <1>33 DEF StandbyDeaf
<1>34. CASE StandbyDetect
  BY <1>34 DEF StandbyDetect
<1> QED
  BY <1>1, <1>2, <1>3, <1>4, <1>5, <1>6, <1>7, <1>8, <1>9, <1>10, <1>11,
     <1>12, <1>13, <1>14, <1>15, <1>16, <1>17, <1>18, <1>19, <1>20,
     <1>21, <1>22, <1>23, <1>24, <1>25, <1>26, <1>27, <1>28, <1>29,
     <1>30, <1>31, <1>32, <1>33, <1>34
     DEF SensorNext, Main, Acquire, Interrupt

\* Every step preserves the types of the variables and of their fields.
LEMMA FieldsStep ==
  ASSUME FieldsOK, SensorNext
  PROVE  FieldsOK'
<1>1. line' \in Lines
  BY LineField DEF FieldsOK
<1>2. buf' \in RxBuffers /\ buf'.count \in 0..2
  BY BufField DEF FieldsOK, RxBuffers
<1>3. own.ram \in Addresses
  BY DEF FieldsOK, SensorTypeOK
<1>4. cmd' \in Results
  BY <1>3, CmdField DEF FieldsOK
<1>5. own' \in [ram : Addresses, stored : Addresses]
  BY OwnField DEF FieldsOK, SensorTypeOK
<1>6. data' \in DataStates
  BY DataField DEF FieldsOK
<1> QED
  BY <1>1, <1>2, <1>4, <1>5, <1>6, TypesStep DEF FieldsOK, SensorTypeOK

\* The sensor's invariant holds at the beginning and after every step.
LEMMA SensorInvariant == SensorSpec => []SensorInv
<1>1. SensorInit => SensorInv
  <2> SUFFICES ASSUME SensorInit  PROVE SensorInv
    OBVIOUS
  <2> USE SensorAssumption DEF SensorInit, DataStates
  <2>1. line \in Lines /\ buf \in RxBuffers /\ cmd \in Results
    BY DEF Lines, RxBuffers, Results, Empty, Nobody
  <2>2. own \in [ram : Addresses, stored : Addresses]
    <3>1. PICK a \in Addresses : own = [ram |-> a, stored |-> a]
      OBVIOUS
    <3> QED
      BY <3>1
  <2>3. cancel \in BOOLEAN
    BY Zenon
  <2>4. SensorTypeOK
    <3>1. state \in 0..9 /\ buf.count \in 0..2 /\ awake \in 0..MaxAwake
      BY DEF Empty
    <3> QED
      BY <2>2, <2>3, <3>1, Zenon DEF SensorTypeOK
  <2>5. data \in DataStates
    OBVIOUS
  <2>6. PlaceOK /\ LineOK /\ DataOK
    BY DEF PlaceOK, LineOK, DataOK
  <2> QED
    BY <2>1, <2>4, <2>5, <2>6 DEF SensorInv, FieldsOK
<1>2. SensorInv /\ [SensorNext]_sensorVars => SensorInv'
  <2> SUFFICES ASSUME SensorInv, [SensorNext]_sensorVars  PROVE SensorInv'
    OBVIOUS
  <2>1. CASE SensorNext
    BY <2>1, FieldsStep, PlaceStep, LineStep, DataStep DEF SensorInv
  <2>2. CASE UNCHANGED sensorVars
    BY <2>2 DEF sensorVars, SensorInv, FieldsOK, SensorTypeOK, PlaceOK, LineOK, DataOK,
      Quiet
  <2> QED
    BY <2>1, <2>2
<1> QED
  BY <1>1, <1>2, PTL DEF SensorSpec

\* The states, the buffer and the count of cpuSleepCritical stay in their types.
THEOREM SensorTypesCorrect == SensorSpec => []SensorTypeOK
  BY SensorInvariant, PTL DEF SensorInv, FieldsOK

\* The D values that are valid are those of an acquisition that ran to its end and
\* that no other is changing, whatever breaks and cancellations came in between.
THEOREM ValidDataIsComplete == SensorSpec => []DataIsComplete
<1>1. SensorInv => DataIsComplete
  BY DEF SensorInv, DataOK, Quiet, DataIsComplete
<1> QED
  BY <1>1, SensorInvariant, PTL

\* The processor does not sleep while the thread waits for the USART or the marking,
\* unless detection was switched on again after the break that it answers.
THEOREM ListensAwake == SensorSpec => []AwakeWhileListening
<1>1. SensorInv => AwakeWhileListening
  BY DEF SensorInv, LineOK, AwakeWhileListening
<1> QED
  BY <1>1, SensorInvariant, PTL

\* A sensor in standby hears the next break, or has heard it.
THEOREM BreakIsHeard == SensorSpec => []HearsBreak
<1>1. SensorInv => HearsBreak
  BY DEF SensorInv, LineOK, HearsBreak
<1> QED
  BY <1>1, SensorInvariant, PTL

-----------------------------------------------------------------------------
(***************************************************************************)
(* The D commands.                                                         *)
(***************************************************************************)

\* The page that begins at a value follows what the recorder has.
Fits(digit, from) ==
  /\ digit = 0 => from = 0
  /\ page # Nothing /\ digit = page.digit => from = page.from
  /\ page # Nothing /\ digit = page.digit + 1 => from = page.to

PageOK ==
  /\ page # Nothing =>
       /\ page \in [digit : Digits, from : 0..MaxCount, to : 0..MaxCount]
       /\ page.digit = 0 => page.from = 0
  /\ missed \in Digits \cup {Byte}
  /\ previousDindex \in 0..MaxCount

\* What the indexes are, as the recorder sees them: after an answer (or a
\* command of another kind), after an answer that was late, and while an answer
\* is due.
IndexesOK ==
  /\ asked = Byte /\ missed = Byte /\ previousDdigit # Byte =>
       /\ page # Nothing /\ previousDdigit = page.digit
       /\ previousDindex = page.from /\ nextDindex = page.to
  /\ asked = Byte /\ missed # Byte =>
       /\ previousDdigit \in {Byte, missed}
       /\ previousDdigit = missed => Fits(missed, previousDindex)
  /\ asked # Byte =>
       IF currentDindex = Byte THEN previousDdigit = Byte
       ELSE previousDdigit = asked /\ Fits(asked, previousDindex)

ValuesInv == ValuesTypeOK /\ PageOK /\ IndexesOK

\* A page begins where the recorder expects it when the index comes from the
\* last digit answered, or from the one that was late.
LEMMA FromFits ==
  ASSUME ValuesInv, asked = Byte,
         NEW digit \in Digits, MayAsk(digit), From(digit) # Byte
  PROVE  From(digit) \in 0..MaxCount /\ Fits(digit, From(digit))
<1> USE ValuesAssumption DEF ValuesInv, ValuesTypeOK, PageOK, Digits, Byte
<1>1. From(digit) \in 0..MaxCount
  BY DEF From
<1>2. CASE digit = 0
  BY <1>2 DEF IndexesOK, From, Fits
<1>3. CASE digit # 0 /\ missed = Byte
  BY <1>3 DEF IndexesOK, From, Fits, MayAsk
<1>4. CASE digit # 0 /\ missed # Byte
  BY <1>4 DEF IndexesOK, From, Fits, MayAsk
<1> QED
  BY <1>1, <1>2, <1>3, <1>4

\* Every step of the sensor and of the recorder preserves the invariant.
LEMMA ValuesStep ==
  ASSUME ValuesInv, [ValuesNext]_valuesVars
  PROVE  ValuesInv'
<1> USE ValuesAssumption DEF ValuesInv, Digits, Byte
<1>1. CASE MeasureCommand
  BY <1>1 DEF MeasureCommand, ValuesTypeOK, PageOK, IndexesOK, Nothing
<1>2. CASE OtherCommand
  BY <1>2 DEF OtherCommand, ValuesTypeOK, PageOK, IndexesOK, Fits
<1>3. CASE DCommand
  <2>1. PICK digit \in Digits, n \in 0..MaxPage :
          /\ MayAsk(digit) /\ asked' = digit
          /\ nextDindex' = IF digit = 0 THEN 0 ELSE nextDindex
          /\ IF From(digit) = Byte
             THEN currentDindex' = Byte /\ UNCHANGED <<previousDdigit, previousDindex>>
             ELSE /\ From(digit) + n <= dCount
                  /\ currentDindex' = From(digit) + n
                  /\ previousDdigit' = digit
                  /\ previousDindex' = From(digit)
    BY <1>3 DEF DCommand
  <2>2. asked = Byte /\ UNCHANGED <<dCount, missed, page>>
    BY <1>3 DEF DCommand
  <2>3. CASE From(digit) = Byte
    <3>1. previousDdigit = Byte
      BY <2>1, <2>2, <2>3 DEF From, ValuesTypeOK, PageOK, IndexesOK, MayAsk, Fits
    <3> QED
      BY <2>1, <2>2, <2>3, <3>1 DEF ValuesTypeOK, PageOK, IndexesOK
  <2>4. CASE From(digit) # Byte
    <3>1. From(digit) \in 0..MaxCount /\ Fits(digit, From(digit))
      BY <2>1, <2>2, <2>4, FromFits
    <3>2. currentDindex' \in 0..MaxCount
      BY <2>1, <2>2, <2>4, <3>1 DEF ValuesTypeOK
    <3> QED
      BY <2>1, <2>2, <2>4, <3>1, <3>2 DEF ValuesTypeOK, PageOK, IndexesOK, Fits
  <2> QED
    BY <2>3, <2>4
<1>4. CASE Answered
  <2>1. CASE currentDindex = Byte
    BY <1>4, <2>1 DEF Answered, ValuesTypeOK, PageOK, IndexesOK
  <2>2. CASE currentDindex # Byte
    <3>1. page' = [digit |-> asked, from |-> previousDindex, to |-> currentDindex]
      BY <1>4, <2>2 DEF Answered
    <3>2. /\ asked \in Digits /\ currentDindex \in 0..MaxCount
          /\ previousDdigit = asked /\ Fits(asked, previousDindex)
      BY <1>4, <2>2 DEF Answered, ValuesTypeOK, IndexesOK
    <3>3. /\ page' # Nothing /\ page'.digit = asked
          /\ page'.from = previousDindex /\ page'.to = currentDindex
      BY <3>1, <3>2 DEF Nothing
    <3>4. PageOK'
      BY <1>4, <3>1, <3>2, <3>3 DEF Answered, PageOK, Fits
    <3> QED
      BY <1>4, <3>2, <3>3, <3>4 DEF Answered, ValuesTypeOK, IndexesOK
  <2> QED
    BY <2>1, <2>2
<1>5. CASE Late
  BY <1>5 DEF Late, ValuesTypeOK, PageOK, IndexesOK, Fits
<1>6. CASE UNCHANGED valuesVars
  BY <1>6 DEF valuesVars, ValuesTypeOK, PageOK, IndexesOK, Fits
<1> QED
  BY <1>1, <1>2, <1>3, <1>4, <1>5, <1>6 DEF ValuesNext

\* A step that hands the recorder a page hands it one that follows.
LEMMA PageStep ==
  ASSUME ValuesInv, [ValuesNext]_valuesVars
  PROVE  PageFollows
<1>1. CASE MeasureCommand
  BY <1>1 DEF MeasureCommand, PageFollows
<1>2. CASE Answered
  BY <1>2 DEF Answered, PageFollows, ValuesInv, PageOK, IndexesOK, Fits
<1>3. CASE UNCHANGED page
  BY <1>3 DEF PageFollows
<1> QED
  BY <1>1, <1>2, <1>3 DEF ValuesNext, OtherCommand, DCommand, Late, valuesVars

\* The invariant of the D commands holds at the beginning and after every step.
LEMMA ValuesInvariant == ValuesSpec => []ValuesInv
<1>1. ValuesInit => ValuesInv
  BY ValuesAssumption DEF ValuesInit, ValuesInv, ValuesTypeOK, PageOK, IndexesOK,
    Digits, Byte, Nothing
<1> QED
  BY <1>1, ValuesStep, PTL DEF ValuesSpec

\* The indexes and digits stay in their types: an index is one of the values, or
\* 0xFF for none.
THEOREM ValuesTypesCorrect == ValuesSpec => []ValuesTypeOK
  BY ValuesInvariant, PTL DEF ValuesInv

\* The pages of D values that the recorder gets follow each other, however many
\* answers were late, asked for again or followed by other commands.
THEOREM PagesAreInOrder == ValuesSpec => PagesFollow
  BY ValuesInvariant, PageStep, PTL DEF ValuesSpec, PagesFollow

-----------------------------------------------------------------------------
(***************************************************************************)
(* The character device: its types, that its buffers stay consistent, that *)
(* no wait misses a byte, and that the buffers are the bounded queues that *)
(* ByteQueue describes.                                                    *)
(***************************************************************************)

-----------------------------------------------------------------------------
(***************************************************************************)
(* The circular buffer is a queue: what putting bytes in and taking bytes  *)
(* out does to its contents.                                               *)
(***************************************************************************)

USE BufferAssumption

\* A pointer moved by at most the size of the array stays on it.
LEMMA WrapOnRing ==
  ASSUME NEW n \in 0..2 * Size - 1
  PROVE  Wrap(n) \in Offsets
BY SMT DEF Wrap, Offsets

\* The contents are as many bytes as the length says.
LEMMA ContentsSeq ==
  ASSUME NEW b \in Buffers
  PROVE  /\ Contents(b) \in Seq(Bytes) /\ Len(Contents(b)) = b.len
         /\ \A i \in 1..b.len : Contents(b)[i] = b.mem[Wrap(b.get + i - 1)]
<1>1. /\ b.mem \in [Offsets -> Bytes] /\ b.get \in Offsets /\ b.len \in 0..Size
  BY DEF Buffers
<1>2. ASSUME NEW i \in 1..b.len
      PROVE  Wrap(b.get + i - 1) \in Offsets
  BY SMTT(30), <1>1, WrapOnRing DEF Offsets
<1>3. Contents(b) \in [1..b.len -> Bytes]
  BY <1>1, <1>2 DEF Contents
<1>4. \A i \in 1..b.len : Contents(b)[i] = b.mem[Wrap(b.get + i - 1)]
  BY DEF Contents
<1> HIDE DEF Contents
<1>5. Contents(b) \in Seq(Bytes) /\ Len(Contents(b)) = b.len
  BY <1>1, <1>3
<1>6. QED
  BY <1>4, <1>5

\* A buffer whose length is zero has no contents.
LEMMA ContentsEmpty ==
  ASSUME NEW b \in Buffers, b.len = 0
  PROVE  Contents(b) = <<>>
BY ContentsSeq, EmptySeq

-----------------------------------------------------------------------------
(***************************************************************************)
(* Taking bytes out                                                        *)
(***************************************************************************)

\* get and getBytes remove the oldest bytes, which are the ones they return.
LEMMA LeftIsTail ==
  ASSUME NEW b \in Buffers, Consistent(b), NEW n \in 1..b.len
  PROVE  /\ Left(b, n) \in Buffers
         /\ Consistent(Left(b, n))
         /\ Left(b, n).len = b.len - n
         /\ Got(b, n) = SubSeq(Contents(b), 1, n)
         /\ Contents(Left(b, n)) = SubSeq(Contents(b), n + 1, b.len)
<1> DEFINE k == BeforeEnd(b.get, n)
           left == Left(b, n)
<1>1. /\ b.mem \in [Offsets -> Bytes] /\ b.put \in Offsets /\ b.get \in Offsets
      /\ b.len \in 0..Size
  BY DEF Buffers
<1>2. /\ b.put \in 0..Size - 1 /\ b.get \in 0..Size - 1 /\ n \in 1..Size
      /\ b.len \in 0..Size /\ n <= b.len /\ Size \in Nat
  BY <1>1 DEF Offsets
<1>3. k \in 0..n /\ (k = n \/ k = Size - b.get) /\ b.get + k <= Size
  BY <1>2 DEF BeforeEnd
<1>4. left.get = Wrap(b.get + n) /\ left.get \in Offsets
  <2>1. left.get = IF k = n THEN Wrap(b.get + n) ELSE n - k
    BY DEF Left, Buffers
  <2>2. k # n => b.get + n >= Size /\ n - k = b.get + n - Size
    BY <1>2, <1>3 DEF BeforeEnd
  <2>3. b.get + n \in 0..2 * Size - 1
    BY <1>2
  <2> HIDE DEF k, left
  <2>4. left.get = Wrap(b.get + n)
    BY <1>2, <2>1, <2>2 DEF Wrap
  <2>5. QED
    BY <2>3, <2>4, WrapOnRing
<1>5. left.mem = b.mem /\ left.put = b.put /\ left.len = b.len - n
  BY DEF Left, Buffers
<1>6. left \in Buffers
  <2>1. b.len - n \in 0..Size
    BY <1>1, <1>2
  <2>2. left = [b EXCEPT !.get = left.get, !.len = left.len]
    BY DEF Left, Buffers
  <2>3. QED
    BY <1>1, <1>4, <1>5, <2>1, <2>2 DEF Buffers
<1> HIDE DEF left
<1>7. Consistent(left)
  BY <1>2, <1>4, <1>5 DEF Consistent, Wrap
<1>8. Got(b, n) = SubSeq(Contents(b), 1, n)
  <2>1. \A i \in 1..n : Got(b, n)[i] = b.mem[Wrap(b.get + i - 1)]
    BY <1>2, <1>3, SMT DEF Got, Wrap, BeforeEnd
  <2>2. \A i \in 1..n : Got(b, n)[i] = Contents(b)[i]
    BY <1>2, <2>1, ContentsSeq
  <2>3. \A i \in 1..n : Contents(b)[i] \in Bytes
    BY <1>2, ContentsSeq, ElementOfSeq
  <2>4. Got(b, n) \in [1..n -> Bytes]
    BY <2>2, <2>3 DEF Got
  <2>5. Got(b, n) \in Seq(Bytes) /\ Len(Got(b, n)) = n
    <3> HIDE DEF k
    <3>1. \A f \in [1..n -> Bytes] : f \in Seq(Bytes) /\ Len(f) = n
      BY <1>2
    <3>2. QED
      BY <2>4, <3>1
  <2>6. /\ SubSeq(Contents(b), 1, n) \in Seq(Bytes)
        /\ Len(SubSeq(Contents(b), 1, n)) = n
        /\ \A i \in 1..n : SubSeq(Contents(b), 1, n)[i] = Contents(b)[i]
    BY <1>2, <2>3
  <2>7. QED
    BY <2>2, <2>5, <2>6, SeqEqual
<1>9. Contents(left) = SubSeq(Contents(b), n + 1, b.len)
  <2>1. \A i \in 1..b.len - n : Wrap(left.get + i - 1) = Wrap(b.get + n + i - 1)
    BY <1>2, <1>4 DEF Wrap
  <2> DEFINE c == Contents(b)
  <2>a. c \in Seq(Bytes) /\ Len(c) = b.len
    BY ContentsSeq
  <2>2. /\ SubSeq(c, n + 1, b.len) \in Seq(Bytes)
        /\ Len(SubSeq(c, n + 1, b.len)) = b.len - n
        /\ \A i \in 1..b.len - n : SubSeq(c, n + 1, b.len)[i] = c[n + i]
    <3> HIDE DEF c
    <3>1. QED
      BY SMTT(30), <1>2, <2>a
  <2>3. ASSUME NEW i \in 1..b.len - n
        PROVE  Contents(left)[i] = SubSeq(c, n + 1, b.len)[i]
    <3>1. Contents(left)[i] = left.mem[Wrap(left.get + i - 1)]
      BY <1>5, <1>6, ContentsSeq
    <3>2. n + i \in 1..b.len /\ b.get + (n + i) - 1 = b.get + n + i - 1
      BY <1>2
    <3>3. c[n + i] = b.mem[Wrap(b.get + (n + i) - 1)]
      BY <3>2, ContentsSeq
    <3>4. QED
      BY <1>5, <2>1, <2>2, <3>1, <3>2, <3>3
  <2>4. Contents(left) \in Seq(Bytes) /\ Len(Contents(left)) = b.len - n
    BY <1>5, <1>6, ContentsSeq
  <2> HIDE DEF c
  <2>5. Contents(left) = SubSeq(c, n + 1, b.len)
    BY <2>2, <2>3, <2>4, SeqEqual
  <2>6. QED
    BY <2>5 DEF c
<1>10. QED
  BY <1>5, <1>6, <1>7, <1>8, <1>9 DEF left

-----------------------------------------------------------------------------
(***************************************************************************)
(* Putting bytes in                                                        *)
(***************************************************************************)

\* Two places of a buffer are different when they are less than its size apart.
LEMMA WrapInjective ==
  ASSUME NEW g \in Offsets, NEW i \in 0..Size, NEW j \in 0..Size,
         i < j, j < i + Size
  PROVE  Wrap(g + i) # Wrap(g + j)
BY DEF Wrap, Offsets

\* A pointer that is moved twice is where it comes to in one move.
LEMMA WrapTwice ==
  ASSUME NEW g \in Offsets, NEW i \in Nat, NEW j \in Nat, i + j <= Size
  PROVE  Wrap(Wrap(g + i) + j) = Wrap(g + i + j)
BY DEF Wrap, Offsets

\* The two parts in which n bytes are put behind len bytes, k of them before the
\* end of the array, do not meet the latter.
LEMMA PartsApart ==
  ASSUME NEW g \in Offsets, NEW len \in Nat, NEW n \in Nat, NEW k \in 0..n,
         NEW p \in Offsets, len + n <= Size, p = Wrap(g + len),
         p + k <= Size, k # n => k = Size - p
  PROVE  /\ \A i \in 1..len : /\ Wrap(g + i - 1) \notin p..p + k - 1
                             /\ Wrap(g + i - 1) \notin 0..n - k - 1
         /\ \A i \in 1..k : Wrap(g + len + i - 1) = p + i - 1
         /\ \A i \in k + 1..n : /\ Wrap(g + len + i - 1) = i - k - 1
                               /\ i - k - 1 < p
<1>1. CASE g + len < Size
  BY <1>1 DEF Wrap, Offsets
<1>2. CASE g + len >= Size
  BY <1>2 DEF Wrap, Offsets
<1>3. QED
  BY <1>1, <1>2 DEF Offsets

\* A byte of the second part is at the beginning of the array, before the first
\* part.
LEMMA SecondPart ==
  ASSUME NEW p \in Offsets, NEW n \in Nat, NEW k \in 0..n, NEW i \in k + 1..n,
         i - k - 1 < p
  PROVE  /\ i - k - 1 \in Offsets /\ i - k - 1 \in 0..n - k - 1
         /\ k + (i - k - 1) + 1 = i /\ i - k - 1 \notin p..p + k - 1
BY SMT DEF Offsets

\* A buffer with m more bytes, which lie where the pointer m_pPut was and after,
\* while the bytes before them stay: its contents are longer by them.
LEMMA ContentsGrow ==
  ASSUME NEW b \in Buffers, Consistent(b), NEW d \in Buffers,
         NEW s \in Seq(Bytes), NEW m \in 0..Len(s),
         b.len + m <= Size, d.get = b.get, d.len = b.len + m,
         \A i \in 1..b.len : d.mem[Wrap(b.get + i - 1)] = b.mem[Wrap(b.get + i - 1)],
         \A i \in 1..m : d.mem[Wrap(b.get + b.len + i - 1)] = s[i]
  PROVE  Contents(d) = Contents(b) \o SubSeq(s, 1, m)
<1> DEFINE c == Contents(b)
           e == SubSeq(s, 1, m)
<1>1. /\ b.get \in 0..Size - 1 /\ b.len \in 0..Size /\ Size \in Nat
      /\ Len(s) \in Nat
  BY DEF Buffers, Offsets
<1>2. /\ c \in Seq(Bytes) /\ Len(c) = b.len
      /\ \A i \in 1..b.len : c[i] = b.mem[Wrap(b.get + i - 1)]
  BY ContentsSeq
<1>3. e \in Seq(Bytes) /\ Len(e) = m /\ \A i \in 1..m : e[i] = s[i]
  BY <1>1
<1>4. /\ Contents(d) \in Seq(Bytes) /\ Len(Contents(d)) = b.len + m
      /\ \A i \in 1..b.len + m : Contents(d)[i] = d.mem[Wrap(b.get + i - 1)]
  BY ContentsSeq
<1> HIDE DEF c, e
<1>5. /\ c \o e \in Seq(Bytes) /\ Len(c \o e) = b.len + m
      /\ \A i \in 1..b.len + m : (c \o e)[i] = IF i <= b.len THEN c[i] ELSE e[i - b.len]
  <2>1. /\ c \o e \in Seq(Bytes) /\ Len(c \o e) = Len(c) + Len(e)
        /\ \A i \in 1..Len(c) + Len(e) :
             (c \o e)[i] = IF i <= Len(c) THEN c[i] ELSE e[i - Len(c)]
    BY <1>2, <1>3, ConcatProperties
  <2>2. QED
    BY <1>2, <1>3, <2>1
<1>6. ASSUME NEW i \in 1..b.len + m
      PROVE  Contents(d)[i] = (c \o e)[i]
  <2>1. CASE i <= b.len
    <3>1. i \in 1..b.len
      BY <1>1, <2>1
    <3>2. QED
      BY <1>2, <1>4, <1>5, <2>1, <3>1
  <2>2. CASE i > b.len
    <3> DEFINE l == b.len
               g == b.get
    <3>a. l \in Nat /\ g \in Nat /\ m \in Nat /\ i \in 1..l + m /\ i > l
      BY <1>1, <2>2
    <3> HIDE DEF l, g
    <3>b. i - l \in 1..m /\ g + l + (i - l) - 1 = g + i - 1 /\ ~(i <= l)
      BY ONLY <3>a
    <3>1. /\ i - b.len \in 1..m
          /\ b.get + b.len + (i - b.len) - 1 = b.get + i - 1
          /\ ~(i <= b.len)
      BY <3>b DEF l, g
    <3>2. d.mem[Wrap(b.get + b.len + (i - b.len) - 1)] = s[i - b.len]
      BY <3>1
    <3>3. QED
      BY <1>3, <1>4, <1>5, <3>1, <3>2
  <2>3. i <= b.len \/ i > b.len
    BY <1>1
  <2>4. QED
    BY <2>1, <2>2, <2>3
<1>7. QED
  BY <1>4, <1>5, <1>6, SeqEqual DEF c, e

\* put adds one byte at the end.
LEMMA PutAppends ==
  ASSUME NEW b \in Buffers, Consistent(b), ~IsFull(b), NEW x \in Bytes
  PROVE  /\ Put(b, x) \in Buffers
         /\ Consistent(Put(b, x))
         /\ Put(b, x).len = b.len + 1
         /\ Contents(Put(b, x)) = Contents(b) \o <<x>>
<1> DEFINE d == Put(b, x)
<1>1. /\ b.mem \in [Offsets -> Bytes] /\ b.put \in Offsets /\ b.get \in Offsets
      /\ b.put \in 0..Size - 1 /\ b.get \in 0..Size - 1
      /\ b.len \in 0..Size - 1 /\ Size \in Nat /\ b.put = Wrap(b.get + b.len)
  BY DEF Buffers, Offsets, IsFull, Consistent
<1>2. /\ d.mem = [b.mem EXCEPT ![b.put] = x] /\ d.put = Wrap(b.put + 1)
      /\ d.get = b.get /\ d.len = b.len + 1
      /\ d = [b EXCEPT !.mem = d.mem, !.put = d.put, !.len = d.len]
  <2>1. d.mem = [b.mem EXCEPT ![b.put] = x]
    BY DEF Put, Buffers
  <2>2. d.put = Wrap(b.put + 1) /\ d.get = b.get /\ d.len = b.len + 1
    BY DEF Put, Buffers
  <2>3. d = [b EXCEPT !.mem = d.mem, !.put = d.put, !.len = d.len]
    BY DEF Put, Buffers
  <2>4. QED
    BY <2>1, <2>2, <2>3
<1> HIDE DEF d
<1>3. d.put \in Offsets
  <2>1. b.put + 1 \in 0..2 * Size - 1
    BY <1>1
  <2>2. QED
    BY <1>2, <2>1, WrapOnRing
<1>4. d \in Buffers
  <2>1. d.mem \in [Offsets -> Bytes] /\ d.len \in 0..Size
    BY <1>1, <1>2
  <2>2. QED
    BY <1>1, <1>2, <1>3, <2>1 DEF Buffers
<1>5. Consistent(d)
  BY <1>1, <1>2 DEF Consistent, Wrap
<1>6. Contents(d) = Contents(b) \o <<x>>
  <2> DEFINE s == <<x>>
  <2>1. s \in Seq(Bytes) /\ Len(s) = 1 /\ s[1] = x
    OBVIOUS
  <2> HIDE DEF s
  <2>2. ASSUME NEW i \in 1..b.len
        PROVE  d.mem[Wrap(b.get + i - 1)] = b.mem[Wrap(b.get + i - 1)]
    <3>1. /\ i - 1 \in 0..Size /\ b.len \in 0..Size /\ i - 1 < b.len
          /\ b.len < i - 1 + Size /\ b.get + (i - 1) = b.get + i - 1
          /\ b.get + i - 1 \in 0..2 * Size - 1
      BY <1>1
    <3>2. Wrap(b.get + i - 1) # b.put
      BY <1>1, <3>1, WrapInjective
    <3>3. Wrap(b.get + i - 1) \in Offsets
      BY <3>1, WrapOnRing
    <3>4. QED
      BY <1>1, <1>2, <3>2, <3>3
  <2>3. d.mem[b.put] = x
    BY <1>1, <1>2
  <2> DEFINE m == 1
  <2>4. /\ \A i \in 1..m : d.mem[Wrap(b.get + b.len + i - 1)] = s[i]
        /\ m \in 0..Len(s) /\ b.len + m <= Size /\ d.len = b.len + m
        /\ d.get = b.get
    BY <1>1, <1>2, <2>1, <2>3
  <2> HIDE DEF m
  <2>5. Contents(d) = Contents(b) \o SubSeq(s, 1, m)
    BY <1>4, <2>1, <2>2, <2>4, ContentsGrow
  <2>6. QED
    BY <2>1, <2>5, SubSeqFull DEF s, m
<1>7. QED
  BY <1>2, <1>4, <1>5, <1>6 DEF d

\* putBytes adds as many bytes as there is room for, in their order.
LEMMA PutBytesAppends ==
  ASSUME NEW b \in Buffers, Consistent(b), NEW s \in Seq(Bytes)
  PROVE  LET n == Room(b, Len(s))
             d == PutBytes(b, s)
         IN  /\ n \in 0..Len(s)
             /\ ~IsFull(b) /\ s # <<>> => n > 0
             /\ d \in Buffers
             /\ Consistent(d)
             /\ d.len = b.len + n
             /\ Contents(d) = Contents(b) \o SubSeq(s, 1, n)
<1> DEFINE n == Room(b, Len(s))
           k == BeforeEnd(b.put, n)
           d == PutBytes(b, s)
<1>1. /\ b.mem \in [Offsets -> Bytes] /\ b.put \in Offsets /\ b.get \in Offsets
      /\ b.put \in 0..Size - 1 /\ b.get \in 0..Size - 1
      /\ b.len \in 0..Size /\ Size \in Nat /\ b.put = Wrap(b.get + b.len)
      /\ Len(s) \in Nat
  BY DEF Buffers, Offsets, Consistent
<1>2. n \in 0..Len(s) /\ b.len + n <= Size
  BY <1>1 DEF Room
<1>3. ~IsFull(b) /\ s # <<>> => n > 0
  <2>1. s # <<>> => Len(s) > 0
    BY EmptySeq
  <2>2. QED
    BY <1>1, <2>1 DEF Room, IsFull
<1> DEFINE mem == [o \in Offsets |->
                     IF o \in b.put..b.put + k - 1 THEN s[o - b.put + 1]
                     ELSE IF o \in 0..n - k - 1 THEN s[k + o + 1] ELSE b.mem[o]]
<1>4. /\ d.mem = mem /\ d.get = b.get /\ d.len = b.len + n
      /\ d.put = IF k = n THEN Wrap(b.put + n) ELSE n - k
      /\ d = [b EXCEPT !.mem = d.mem, !.put = d.put, !.len = d.len]
  <2>1. d.mem = mem
    BY DEF PutBytes, Buffers
  <2>2. /\ d.get = b.get /\ d.len = b.len + n
        /\ d.put = IF k = n THEN Wrap(b.put + n) ELSE n - k
    BY DEF PutBytes, Buffers
  <2>3. d = [b EXCEPT !.mem = d.mem, !.put = d.put, !.len = d.len]
    BY DEF PutBytes, Buffers
  <2>4. QED
    BY <2>1, <2>2, <2>3
<1> HIDE DEF d, n
<1>5. /\ k \in 0..n /\ b.put + k <= Size
      /\ k # n => k = Size - b.put
  BY <1>1, <1>2 DEF BeforeEnd
<1> HIDE DEF k
<1>n. n \in Nat /\ b.len \in Nat
  BY <1>1, <1>2
<1>6. d.put = Wrap(b.put + n) /\ d.put \in Offsets
  <2> HIDE DEF mem
  <2>p. d.put = IF k = n THEN Wrap(b.put + n) ELSE n - k
    BY <1>4
  <2>1. k # n => b.put + n >= Size /\ n - k = b.put + n - Size
    BY <1>1, <1>2, <1>5
  <2>2. b.put + n \in 0..2 * Size - 1
    BY SMTT(30), <1>1, <1>2
  <2>3. d.put = Wrap(b.put + n)
    <3>1. CASE k = n
      BY ONLY <2>p, <3>1
    <3>2. CASE k # n
      <4>1. Wrap(b.put + n) = b.put + n - Size
        BY <1>1, <1>n, <2>1, <3>2 DEF Wrap
      <4>2. QED
        BY ONLY <2>p, <2>1, <3>2, <4>1
    <3>3. QED
      BY ONLY <3>1, <3>2
  <2>4. QED
    BY <2>2, <2>3, WrapOnRing
<1>7. mem \in [Offsets -> Bytes]
  <2>1. ASSUME NEW o \in Offsets
        PROVE  mem[o] \in Bytes
    <3> HIDE DEF mem
    <3>n. /\ b.put \in Nat /\ k \in Nat /\ n \in Nat /\ k <= n /\ n <= Len(s)
          /\ Len(s) \in Nat
      BY <1>1, <1>2, <1>5
    <3>1. o \in b.put..b.put + k - 1 => o - b.put + 1 \in 1..Len(s)
      BY <3>n
    <3>2. o \in 0..n - k - 1 => k + o + 1 \in 1..Len(s)
      BY <3>n
    <3> USE DEF mem
    <3>3. QED
      BY <1>1, <3>1, <3>2, ElementOfSeq
  <2>2. QED
    BY <2>1
<1>8. d \in Buffers
  <2>1. d.len \in 0..Size
    BY <1>1, <1>2, <1>4
  <2> HIDE DEF mem
  <2>2. QED
    BY <1>1, <1>4, <1>6, <1>7, <2>1 DEF Buffers
<1>9. Consistent(d)
  <2>1. Wrap(Wrap(b.get + b.len) + n) = Wrap(b.get + b.len + n)
    BY <1>1, <1>2, <1>n, WrapTwice
  <2>2. b.get + d.len = b.get + b.len + n /\ d.get = b.get
    BY <1>1, <1>4, <1>n
  <2>3. QED
    BY <1>1, <1>6, <2>1, <2>2 DEF Consistent
<1>a. /\ \A i \in 1..b.len : /\ Wrap(b.get + i - 1) \notin b.put..b.put + k - 1
                           /\ Wrap(b.get + i - 1) \notin 0..n - k - 1
      /\ \A i \in 1..k : Wrap(b.get + b.len + i - 1) = b.put + i - 1
      /\ \A i \in k + 1..n : /\ Wrap(b.get + b.len + i - 1) = i - k - 1
                            /\ i - k - 1 < b.put
  BY <1>1, <1>2, <1>5, <1>n, PartsApart
<1>10. ASSUME NEW i \in 1..b.len
       PROVE  d.mem[Wrap(b.get + i - 1)] = b.mem[Wrap(b.get + i - 1)]
  <2> DEFINE o == Wrap(b.get + i - 1)
  <2>1. o \in Offsets
    <3>1. b.get + i - 1 \in 0..2 * Size - 1
      BY <1>1
    <3>2. QED
      BY <3>1, WrapOnRing
  <2>2. o \notin b.put..b.put + k - 1
    BY <1>a
  <2>3. o \notin 0..n - k - 1
    BY <1>a
  <2> HIDE DEF o
  <2>4. d.mem[o] = b.mem[o]
    BY <1>4, <2>1, <2>2, <2>3
  <2>5. QED
    BY <2>4 DEF o
<1>11. ASSUME NEW i \in 1..n
       PROVE  d.mem[Wrap(b.get + b.len + i - 1)] = s[i]
  <2> DEFINE o == Wrap(b.get + b.len + i - 1)
  <2>1. CASE i <= k
    <3>1. o = b.put + i - 1 /\ o \in b.put..b.put + k - 1 /\ o \in Offsets /\ o - b.put + 1 = i
      <4>1. i \in 1..k /\ o = b.put + i - 1
        BY <1>5, <1>n, <1>a, <2>1
      <4>2. QED
        BY SMTT(30), <1>1, <1>5, <1>n, <4>1 DEF Offsets
    <3> HIDE DEF o
    <3>2. d.mem[o] = s[o - b.put + 1]
      BY <1>4, <3>1
    <3>3. QED
      BY <3>1, <3>2 DEF o
  <2>2. CASE i > k
    <3>1. /\ o = i - k - 1 /\ o \in Offsets /\ o \in 0..n - k - 1 /\ k + o + 1 = i
          /\ o \notin b.put..b.put + k - 1
      <4>1. i \in k + 1..n
        BY <1>5, <1>n, <2>2
      <4>2. o = i - k - 1 /\ i - k - 1 < b.put
        BY <1>a, <4>1
      <4>3. n \in Nat /\ k \in 0..n /\ b.put \in Offsets
        BY <1>1, <1>5, <1>n
      <4>4. /\ i - k - 1 \in Offsets /\ i - k - 1 \in 0..n - k - 1
            /\ k + (i - k - 1) + 1 = i /\ i - k - 1 \notin b.put..b.put + k - 1
        BY ONLY <4>1, <4>2, <4>3, SecondPart
      <4> HIDE DEF o
      <4>5. QED
        BY <4>2, <4>4
    <3> HIDE DEF o
    <3>2. d.mem[o] = s[k + o + 1]
      BY <1>4, <3>1
    <3>3. QED
      BY <3>1, <3>2 DEF o
  <2>3. QED
    BY <1>2, <1>5, <2>1, <2>2
<1>12. Contents(d) = Contents(b) \o SubSeq(s, 1, n)
  <2> HIDE DEF mem
  <2>1. QED
    BY <1>2, <1>4, <1>8, <1>10, <1>11, ContentsGrow
<1>13. QED
  BY <1>2, <1>3, <1>4, <1>8, <1>9, <1>12 DEF d, n

HIDE BufferAssumption

-----------------------------------------------------------------------------
(***************************************************************************)
(* The device                                                              *)
(***************************************************************************)

\* What the proofs use of the constants.
LEMMA Constants ==
  /\ Size \in Nat /\ Size > 0 /\ HighWM \in Nat /\ HighWM < Size
  /\ LowWM \in Nat /\ LowWM >= 1 /\ LowWM <= Size
  /\ Reader # Writer /\ Zero \in Bytes /\ Reads \subseteq Nat
BY BufferAssumption, DeviceAssumption

LEMMA AtZero == Wrap(0) = 0 /\ 0 + 0 = 0 /\ 0 # Size /\ ~(0 > HighWM)
BY Constants DEF Wrap

\* A full buffer is above the high watermark, not below the low one.
LEMMA FullIsBetween ==
  ASSUME NEW b, IsFull(b)
  PROVE  IsAboveHighWM(b) /\ ~IsBelowLowWM(b)
BY Constants DEF IsFull, IsAboveHighWM, IsBelowLowWM

USE Constants

CallPlaces == {"idle", "clear", "clear length", "check", "take", "return", "put",
           "cancel", "prepared", "perform"}

DeviceTypes ==
  /\ isOpened \in BOOLEAN /\ doCancelRead \in BOOLEAN
  /\ rxBuf \in Buffers /\ txBuf \in Buffers
  /\ rxOn \in BOOLEAN /\ txOn \in BOOLEAN
  /\ callAt \in [Threads -> CallPlaces]
  /\ todo \in [size : Reads \cup {ByteRead}, data : Seq(Bytes)]
  /\ timeout \in [Threads -> Limits \cup {"never"}]
  /\ waiting \in [Threads -> BOOLEAN]
  /\ ret \in [Threads -> {"none", "event", "timeout", "cancelled"}]
  /\ alarms \in SUBSET Threads
  /\ received \in Seq(Bytes) /\ Len(received) <= 1

Reading == {"check", "take", "return", "prepared", "perform"}
Writing == {"check", "put", "prepared", "perform"}

\* The device is open as long as a thread is in a call or an interrupt may come,
\* and not while it is opened; only the wait's two steps wait.
CallsAreOpened ==
  /\ callAt[Reader] \in {"clear", "clear length"} => ~isOpened
  /\ callAt[Reader] \in Reading => isOpened
  /\ callAt[Writer] \in Writing => isOpened
  /\ rxOn \/ txOn \/ received # <<>> => isOpened
  /\ \A t \in Threads : waiting[t] => callAt[t] \in {"prepared", "perform"}

\* What a call has found stays so until it acts on it, since nobody else takes
\* from the receive buffer or puts into the transmit buffer.
CallsFindWhatTheySaw ==
  /\ callAt[Reader] = "clear length" => rxBuf.put = 0 /\ rxBuf.get = 0
  /\ callAt[Reader] = "take" => ~IsEmpty(rxBuf)
  /\ callAt[Writer] = "put" => ~IsFull(txBuf)
  /\ callAt[Writer] \in Writing <=> todo.data # <<>>
  /\ isOpened /\ IsAboveHighWM(txBuf) => txOn

DeviceInv ==
  /\ DeviceTypes /\ CallsAreOpened /\ CallsFindWhatTheySaw
  /\ BuffersConsistent /\ NoMissedByte

\* A cleared buffer is one, and it is empty.
LEMMA ClearedBuffer ==
  ASSUME NEW b \in Buffers
  PROVE  /\ ClearPointers(b) \in Buffers
         /\ ClearPointers(b).put = 0 /\ ClearPointers(b).get = 0
         /\ ClearLength(b) \in Buffers /\ ClearLength(b).len = 0
         /\ ClearLength(b).put = b.put /\ ClearLength(b).get = b.get
         /\ b.len \in 0..Size
<1>1. 0 \in Offsets /\ 0 \in 0..Size
  BY DEF Offsets
<1>2. QED
  BY <1>1 DEF ClearPointers, ClearLength, Buffers

\* A step of a call that goes on at l.
LEMMA GoOnToStep ==
  ASSUME DeviceTypes, NEW t \in Threads, NEW l \in CallPlaces, GoOnTo(t, l)
  PROVE  /\ callAt' = [callAt EXCEPT ![t] = l]
         /\ todo' \in [size : Reads \cup {ByteRead}, data : Seq(Bytes)]
         /\ todo'.data = IF t = Writer /\ l = "idle" THEN <<>> ELSE todo.data
         /\ timeout' \in [Threads -> Limits \cup {"never"}]
<1>1. /\ todo \in [size : Reads \cup {ByteRead}, data : Seq(Bytes)]
      /\ timeout \in [Threads -> Limits \cup {"never"}] /\ <<>> \in Seq(Bytes)
  BY DEF DeviceTypes
<1>2. CASE l # "idle"
  BY <1>1, <1>2 DEF GoOnTo, GoOn
<1>3. CASE l = "idle"
  <2>1. timeout' \in [Threads -> Limits \cup {"never"}]
    BY <1>1, <1>3 DEF GoOnTo
  <2>2. CASE t = Reader
    <3>1. todo' = [todo EXCEPT !.size = ByteRead]
      BY <1>3, <2>2 DEF GoOnTo
    <3>2. QED
      BY <1>1, <1>3, <2>1, <2>2, <3>1 DEF GoOnTo, GoOn
  <2>3. CASE t = Writer
    <3>1. todo' = [todo EXCEPT !.data = <<>>]
      BY <1>3, <2>3 DEF GoOnTo
    <3>2. QED
      BY <1>1, <1>3, <2>1, <2>3, <3>1 DEF GoOnTo, GoOn
  <2>4. QED
    BY <2>2, <2>3 DEF Threads
<1>4. QED
  BY <1>2, <1>3

\* A notification ends the wait.
LEMMA NotifiedStep ==
  ASSUME DeviceTypes, NEW t \in Threads, NEW r \in {"event", "timeout", "cancelled"},
         Notified(t, r)
  PROVE  /\ waiting' = [waiting EXCEPT ![t] = FALSE]
         /\ waiting' \in [Threads -> BOOLEAN]
         /\ ret' \in [Threads -> {"none", "event", "timeout", "cancelled"}]
<1>1. /\ waiting \in [Threads -> BOOLEAN]
      /\ ret \in [Threads -> {"none", "event", "timeout", "cancelled"}]
  BY DEF DeviceTypes
<1>2. waiting' = [waiting EXCEPT ![t] = FALSE]
  BY DEF Notified
<1>3. ret' \in [Threads -> {"none", "event", "timeout", "cancelled"}]
  BY <1>1 DEF Notified
<1>4. QED
  BY <1>1, <1>2, <1>3

LEMMA DeviceInitInv == DeviceInit => DeviceInv
<1> SUFFICES ASSUME DeviceInit PROVE DeviceInv
  OBVIOUS
<1>1. NewBuffer \in Buffers /\ NewBuffer.len = 0
  BY DEF NewBuffer, Buffers, Offsets
<1>2. DeviceTypes
  <2>1. <<>> \in Seq(Bytes) /\ Len(<<>>) = 0
    OBVIOUS
  <2>2. NoTodo \in [size : Reads \cup {ByteRead}, data : Seq(Bytes)]
    BY <2>1 DEF NoTodo
  <2>3. received \in Seq(Bytes) /\ Len(received) <= 1
    BY <2>1 DEF DeviceInit
  <2>4. QED
    BY <1>1, <2>2, <2>3 DEF DeviceInit, DeviceTypes, CallPlaces
<1>3. CallsAreOpened
  BY DEF DeviceInit, CallsAreOpened, Reading, Writing, Threads
<1>4. CallsFindWhatTheySaw
  BY DEF DeviceInit, CallsFindWhatTheySaw, Writing, Threads, NoTodo
<1>5. BuffersConsistent /\ NoMissedByte
  BY DEF DeviceInit, BuffersConsistent, NoMissedByte, Threads
<1>6. QED
  BY <1>2, <1>3, <1>4, <1>5 DEF DeviceInv

-----------------------------------------------------------------------------
(***************************************************************************)
(* open and close                                                          *)
(***************************************************************************)

LEMMA OpenInv == DeviceInv /\ Open => DeviceInv'
<1> SUFFICES ASSUME DeviceInv, Open PROVE DeviceInv'
  OBVIOUS
<1> USE DEF DeviceInv, Open, bufferVars, waitVars
<1>1. DeviceTypes'
  BY DEF DeviceTypes, GoOn, CallPlaces, Threads
<1>2. CallsAreOpened'
  BY DEF DeviceTypes, CallsAreOpened, GoOn, Reading, Writing, Threads, Idle
<1>3. CallsFindWhatTheySaw'
  BY DEF DeviceTypes, CallsFindWhatTheySaw, GoOn, Threads
<1>4. (BuffersConsistent /\ NoMissedByte)'
  BY DEF BuffersConsistent, NoMissedByte
<1>5. QED
  BY <1>1, <1>2, <1>3, <1>4

LEMMA ClearInv == DeviceInv /\ Clear => DeviceInv'
<1> SUFFICES ASSUME DeviceInv, Clear PROVE DeviceInv'
  OBVIOUS
<1> USE DEF DeviceInv, Clear, portVars, waitVars
<1>1. DeviceTypes'
  BY ClearedBuffer DEF DeviceTypes, GoOn, CallPlaces, Threads
<1>2. CallsAreOpened'
  BY DEF DeviceTypes, CallsAreOpened, GoOn, Reading, Writing, Threads
<1>3. CallsFindWhatTheySaw'
  BY ClearedBuffer DEF DeviceTypes, CallsFindWhatTheySaw, GoOn, Threads
<1>4. (BuffersConsistent /\ NoMissedByte)'
  BY DEF BuffersConsistent, NoMissedByte, CallsAreOpened, Threads
<1>5. QED
  BY <1>1, <1>2, <1>3, <1>4

LEMMA PortInitInv == DeviceInv /\ PortInit => DeviceInv'
<1> SUFFICES ASSUME DeviceInv, PortInit PROVE DeviceInv'
  OBVIOUS
<1> USE DEF DeviceInv, PortInit, waitVars
<1>1. DeviceTypes'
  BY ClearedBuffer DEF DeviceTypes, GoOn, CallPlaces, Threads
<1>2. CallsAreOpened'
  BY DEF DeviceTypes, CallsAreOpened, GoOn, Reading, Writing, Threads
<1>a. ClearPointers(txBuf) \in Buffers
  BY ClearedBuffer DEF DeviceTypes
<1>c. /\ rxBuf'.len = 0 /\ rxBuf'.put = 0 /\ rxBuf'.get = 0
      /\ txBuf'.len = 0 /\ txBuf'.put = 0 /\ txBuf'.get = 0
  BY <1>a, ClearedBuffer DEF DeviceTypes, CallsFindWhatTheySaw
<1>3. CallsFindWhatTheySaw'
  BY AtZero, <1>c DEF DeviceTypes, CallsFindWhatTheySaw, CallsAreOpened, GoOn, Threads, IsFull,
              IsAboveHighWM, Writing
<1>4. (BuffersConsistent /\ NoMissedByte)'
  <2>1. BuffersConsistent'
    BY AtZero, <1>c DEF BuffersConsistent, Consistent
  <2>2. ~waiting[Reader] /\ ~waiting[Writer]
    BY DEF CallsAreOpened, Threads, Writing
  <2>3. QED
    BY <2>1, <2>2 DEF NoMissedByte
<1>5. QED
  BY <1>1, <1>2, <1>3, <1>4

LEMMA CloseInv == DeviceInv /\ Close => DeviceInv'
<1> SUFFICES ASSUME DeviceInv, Close PROVE DeviceInv'
  OBVIOUS
<1> USE DEF DeviceInv, Close, callVars, waitVars
<1>1. DeviceTypes'
  <2>1. received' \in Seq(Bytes) /\ Len(received') <= 1
    <3>1. <<>> \in Seq(Bytes) /\ Len(<<>>) = 0
      OBVIOUS
    <3>2. QED
      BY <3>1 DEF DeviceTypes
  <2>2. QED
    BY <2>1 DEF DeviceTypes
<1>2. CallsAreOpened'
  BY DEF DeviceTypes, CallsAreOpened, Reading, Writing, Threads, Idle
<1>3. CallsFindWhatTheySaw'
  BY DEF CallsFindWhatTheySaw
<1>4. (BuffersConsistent /\ NoMissedByte)'
  BY DEF BuffersConsistent, NoMissedByte, CallsAreOpened, Threads, Idle
<1>5. QED
  BY <1>1, <1>2, <1>3, <1>4

-----------------------------------------------------------------------------
(***************************************************************************)
(* The wait                                                                *)
(***************************************************************************)

LEMMA ArmInv == ASSUME NEW t \in Threads PROVE DeviceInv /\ Arm(t) => DeviceInv'
<1> SUFFICES ASSUME DeviceInv, Arm(t) PROVE DeviceInv'
  OBVIOUS
<1> USE DEF DeviceInv, bufferVars, portVars
<1>0. /\ UNCHANGED <<rxBuf, txBuf, received, got, sent>>
      /\ UNCHANGED <<isOpened, doCancelRead, rxOn, txOn, ret>>
      /\ callAt[t] = "prepared"
  BY DEF Arm
<1>l. PICK l \in {"perform", "take", "idle"} :
        GoOnTo(t, l) /\ (l = "take" => t = Reader /\ ~IsEmpty(rxBuf))
  BY DEF Arm, GiveUp
<1>p. l \in CallPlaces
  BY DEF CallPlaces
<1>a. /\ callAt' = [callAt EXCEPT ![t] = l]
      /\ todo' \in [size : Reads \cup {ByteRead}, data : Seq(Bytes)]
      /\ todo'.data = IF t = Writer /\ l = "idle" THEN <<>> ELSE todo.data
      /\ timeout' \in [Threads -> Limits \cup {"never"}]
  BY <1>l, <1>p, GoOnToStep
<1>d. \/ UNCHANGED waiting /\ l = "perform"
      \/ waiting' = [waiting EXCEPT ![t] = FALSE]
  BY <1>a DEF Arm, GoOnTo, GoOn, DeviceTypes, GiveUp
<1>e. alarms' \in SUBSET Threads
  BY DEF Arm, DeviceTypes
<1>1. DeviceTypes'
  <2>1. waiting' \in [Threads -> BOOLEAN]
    <3>1. waiting \in [Threads -> BOOLEAN]
      BY DEF DeviceTypes
    <3>2. QED
      BY <1>d, <3>1
  <2>2. QED
    BY <1>0, <1>p, <1>a, <1>e, <2>1 DEF DeviceTypes
<1>2. CallsAreOpened'
  BY <1>0, <1>l, <1>a, <1>d DEF DeviceTypes, CallsAreOpened, Reading, Writing, Threads
<1>3. CallsFindWhatTheySaw'
  BY <1>0, <1>l, <1>a DEF DeviceTypes, CallsFindWhatTheySaw, Writing, Threads
<1>4. (BuffersConsistent /\ NoMissedByte)'
  BY <1>0, <1>d DEF BuffersConsistent, NoMissedByte, DeviceTypes, Threads
<1>5. QED
  BY <1>1, <1>2, <1>3, <1>4

LEMMA PerformedInv == ASSUME NEW t \in Threads PROVE DeviceInv /\ Performed(t) => DeviceInv'
<1> SUFFICES ASSUME DeviceInv, Performed(t) PROVE DeviceInv'
  OBVIOUS
<1> USE DEF DeviceInv, bufferVars, portVars
<1>0. /\ UNCHANGED <<rxBuf, txBuf, received, got, sent>>
      /\ UNCHANGED <<isOpened, doCancelRead, rxOn, txOn, waiting, ret>>
      /\ callAt[t] = "perform" /\ ~waiting[t]
  BY DEF Performed
<1>l. PICK l \in {"check", "take", "idle"} :
        GoOnTo(t, l) /\ (l = "take" => t = Reader /\ ~IsEmpty(rxBuf))
  BY DEF Performed, GiveUp
<1>p. l \in CallPlaces
  BY DEF CallPlaces
<1>a. /\ callAt' = [callAt EXCEPT ![t] = l]
      /\ todo' \in [size : Reads \cup {ByteRead}, data : Seq(Bytes)]
      /\ todo'.data = IF t = Writer /\ l = "idle" THEN <<>> ELSE todo.data
      /\ timeout' \in [Threads -> Limits \cup {"never"}]
  BY <1>l, <1>p, GoOnToStep
<1>e. alarms' \in SUBSET Threads
  BY DEF Performed, DeviceTypes
<1>1. DeviceTypes'
  BY <1>0, <1>p, <1>a, <1>e DEF DeviceTypes
<1>2. CallsAreOpened'
  BY <1>0, <1>l, <1>a DEF DeviceTypes, CallsAreOpened, Reading, Writing, Threads
<1>3. CallsFindWhatTheySaw'
  BY <1>0, <1>l, <1>a DEF DeviceTypes, CallsFindWhatTheySaw, Writing, Threads
<1>4. (BuffersConsistent /\ NoMissedByte)'
  BY <1>0 DEF BuffersConsistent, NoMissedByte
<1>5. QED
  BY <1>1, <1>2, <1>3, <1>4

-----------------------------------------------------------------------------
(***************************************************************************)
(* Reads                                                                   *)
(***************************************************************************)

LEMMA ReadInv == ASSUME NEW size \in Reads, NEW limit \in Limits PROVE DeviceInv /\ Read(size, limit) => DeviceInv'
<1> SUFFICES ASSUME DeviceInv, Read(size, limit) PROVE DeviceInv'
  OBVIOUS
<1> USE DEF DeviceInv, Read, bufferVars, portVars, waitVars
<1>a. /\ todo' \in [size : Reads \cup {ByteRead}, data : Seq(Bytes)]
      /\ todo'.data = todo.data
  BY DEF DeviceTypes
<1>1. DeviceTypes'
  BY <1>a DEF DeviceTypes, GoOn, CallPlaces, Threads
<1>2. CallsAreOpened'
  BY DEF DeviceTypes, CallsAreOpened, GoOn, Idle, Reading, Writing, Threads
<1>3. CallsFindWhatTheySaw'
  BY <1>a DEF DeviceTypes, CallsFindWhatTheySaw, GoOn, Writing, Threads
<1>4. (BuffersConsistent /\ NoMissedByte)'
  BY DEF BuffersConsistent, NoMissedByte
<1>5. QED
  BY <1>1, <1>2, <1>3, <1>4

LEMMA ReadCheckInv == DeviceInv /\ ReadCheck => DeviceInv'
<1> SUFFICES ASSUME DeviceInv, ReadCheck PROVE DeviceInv'
  OBVIOUS
<1> USE DEF DeviceInv, ReadCheck, bufferVars, portVars, waitVars, Prepare
<1>a. waiting' \in [Threads -> BOOLEAN]
  <2>1. waiting \in [Threads -> BOOLEAN]
    BY DEF DeviceTypes
  <2>2. QED
    BY <2>1
<1>c. callAt' \in [Threads -> CallPlaces] /\ UNCHANGED <<ret, alarms>>
  BY ZenonT(40) DEF DeviceTypes, GoOn, CallPlaces, Threads
<1>1. DeviceTypes'
  BY <1>a, <1>c DEF DeviceTypes
<1>2. CallsAreOpened'
  BY DEF DeviceTypes, CallsAreOpened, GoOn, Reading, Writing, Threads
<1>3. CallsFindWhatTheySaw'
  BY DEF DeviceTypes, CallsFindWhatTheySaw, GoOn, Writing, Threads
<1>4. (BuffersConsistent /\ NoMissedByte)'
  BY DEF BuffersConsistent, NoMissedByte, DeviceTypes, Threads
<1>5. QED
  BY <1>1, <1>2, <1>3, <1>4

\* implReadBytes takes at least one byte, and no more than there are.
LEMMA TakenBytes ==
  ASSUME DeviceInv, TakeBytes
  PROVE  \E n \in 1..rxBuf.len : rxBuf' = Left(rxBuf, n) /\ got' = Got(rxBuf, n)
<1> DEFINE wanted == IF todo.size = ByteRead THEN 1 ELSE todo.size
           n == IF wanted > rxBuf.len THEN rxBuf.len ELSE wanted
<1>1. wanted \in Nat /\ wanted >= 1
  <2>1. todo.size \in Nat
    <3>1. todo.size \in Reads \cup {ByteRead}
      BY DEF DeviceInv, DeviceTypes
    <3>2. Reads \cup {ByteRead} \subseteq Nat
      BY Constants DEF ByteRead
    <3>3. QED
      BY ONLY <3>1, <3>2
  <2>2. QED
    BY <2>1 DEF ByteRead
<1>2. rxBuf.len \in Nat /\ rxBuf.len > 0
  <2>1. rxBuf.len \in Nat
    BY ClearedBuffer DEF DeviceInv, DeviceTypes
  <2>2. QED
    BY <2>1 DEF DeviceInv, CallsFindWhatTheySaw, TakeBytes, IsEmpty
<1>3. n \in 1..rxBuf.len
  BY <1>1, <1>2
<1>4. QED
  BY <1>3 DEF TakeBytes

LEMMA TakeBytesInv == DeviceInv /\ TakeBytes => DeviceInv'
<1> SUFFICES ASSUME DeviceInv, TakeBytes PROVE DeviceInv'
  OBVIOUS
<1> USE DEF DeviceInv, TakeBytes, portVars, waitVars
<1>a. PICK n \in 1..rxBuf.len : rxBuf' = Left(rxBuf, n) /\ got' = Got(rxBuf, n)
  BY TakenBytes
<1>b. rxBuf' \in Buffers /\ Consistent(rxBuf')
  BY <1>a, LeftIsTail DEF DeviceTypes, BuffersConsistent, CallsAreOpened, Reading
<1>1. DeviceTypes'
  BY <1>b DEF DeviceTypes, GoOn, CallPlaces, Threads
<1>2. CallsAreOpened'
  BY DEF DeviceTypes, CallsAreOpened, GoOn, Reading, Writing, Threads
<1>3. CallsFindWhatTheySaw'
  BY DEF DeviceTypes, CallsFindWhatTheySaw, GoOn, Writing, Threads
<1>4. (BuffersConsistent /\ NoMissedByte)'
  BY <1>b DEF BuffersConsistent, NoMissedByte, DeviceTypes, CallsAreOpened, Threads
<1>5. QED
  BY <1>1, <1>2, <1>3, <1>4

LEMMA ReturnInv == DeviceInv /\ Return => DeviceInv'
<1> SUFFICES ASSUME DeviceInv, Return PROVE DeviceInv'
  OBVIOUS
<1> USE DEF DeviceInv, Return, portVars, waitVars
<1>a. "idle" \in CallPlaces /\ Reader \in Threads
  BY DEF CallPlaces, Threads
<1>b. /\ callAt' = [callAt EXCEPT ![Reader] = "idle"]
      /\ todo' \in [size : Reads \cup {ByteRead}, data : Seq(Bytes)]
      /\ todo'.data = todo.data
      /\ timeout' \in [Threads -> Limits \cup {"never"}]
  BY <1>a, GoOnToStep
<1>1. DeviceTypes'
  BY <1>a, <1>b DEF DeviceTypes
<1>2. CallsAreOpened'
  BY <1>b DEF DeviceTypes, CallsAreOpened, Reading, Writing, Threads
<1>3. CallsFindWhatTheySaw'
  BY <1>b DEF DeviceTypes, CallsFindWhatTheySaw, Writing, Threads
<1>4. (BuffersConsistent /\ NoMissedByte)'
  BY DEF BuffersConsistent, NoMissedByte
<1>5. QED
  BY <1>1, <1>2, <1>3, <1>4

-----------------------------------------------------------------------------
(***************************************************************************)
(* Writes and cancellation                                                 *)
(***************************************************************************)

LEMMA WriteInv == ASSUME NEW bytes \in Writes, NEW limit \in Limits PROVE DeviceInv /\ Write(bytes, limit) => DeviceInv'
<1> SUFFICES ASSUME DeviceInv, Write(bytes, limit) PROVE DeviceInv'
  OBVIOUS
<1> USE DEF DeviceInv, Write, bufferVars, portVars, waitVars
<1>a. /\ todo' \in [size : Reads \cup {ByteRead}, data : Seq(Bytes)]
      /\ todo'.data = bytes /\ bytes # <<>>
  <2>1. bytes \in Seq(Bytes) /\ bytes # <<>>
    BY DeviceAssumption
  <2>2. todo \in [size : Reads \cup {ByteRead}, data : Seq(Bytes)]
    BY DEF DeviceTypes
  <2>3. QED
    BY <2>1, <2>2
<1>1. DeviceTypes'
  BY <1>a DEF DeviceTypes, GoOn, CallPlaces, Threads
<1>2. CallsAreOpened'
  BY DEF DeviceTypes, CallsAreOpened, GoOn, Idle, Reading, Writing, Threads
<1>3. CallsFindWhatTheySaw'
  BY <1>a DEF DeviceTypes, CallsFindWhatTheySaw, GoOn, Writing, Threads
<1>4. (BuffersConsistent /\ NoMissedByte)'
  BY DEF BuffersConsistent, NoMissedByte
<1>5. QED
  BY <1>1, <1>2, <1>3, <1>4

LEMMA WriteCheckInv == DeviceInv /\ WriteCheck => DeviceInv'
<1> SUFFICES ASSUME DeviceInv, WriteCheck PROVE DeviceInv'
  OBVIOUS
<1> USE DEF DeviceInv, WriteCheck, bufferVars, portVars, waitVars, Prepare
<1>a. waiting' \in [Threads -> BOOLEAN]
  <2>1. waiting \in [Threads -> BOOLEAN]
    BY DEF DeviceTypes
  <2>2. QED
    BY <2>1
<1>b. IsFull(txBuf) => txOn /\ ~IsBelowLowWM(txBuf)
  <2>1. isOpened
    BY DEF CallsAreOpened, Writing
  <2>2. IsFull(txBuf) => IsAboveHighWM(txBuf) /\ ~IsBelowLowWM(txBuf)
    BY FullIsBetween
  <2>3. QED
    BY <2>1, <2>2 DEF CallsFindWhatTheySaw
<1>c. callAt' \in [Threads -> CallPlaces] /\ UNCHANGED <<ret, alarms>>
  BY ZenonT(40) DEF DeviceTypes, GoOn, CallPlaces, Threads
<1>1. DeviceTypes'
  BY <1>a, <1>c DEF DeviceTypes
<1>2. CallsAreOpened'
  BY DEF DeviceTypes, CallsAreOpened, GoOn, Reading, Writing, Threads
<1>3. CallsFindWhatTheySaw'
  BY DEF DeviceTypes, CallsFindWhatTheySaw, GoOn, Writing, Threads
<1>4. (BuffersConsistent /\ NoMissedByte)'
  BY <1>b DEF BuffersConsistent, NoMissedByte, DeviceTypes, Threads
<1>5. QED
  BY <1>1, <1>2, <1>3, <1>4

\* A sequence without its first n elements.
LEMMA RestOfSeq ==
  ASSUME NEW S, NEW s \in Seq(S), NEW n \in 0..Len(s)
  PROVE  /\ SubSeq(s, n + 1, Len(s)) \in Seq(S)
         /\ n # Len(s) => SubSeq(s, n + 1, Len(s)) # <<>>
         /\ n = Len(s) => SubSeq(s, n + 1, Len(s)) = <<>>
<1>1. Len(s) \in Nat /\ \A i \in 1..Len(s) : s[i] \in S
  OBVIOUS
<1>2. /\ SubSeq(s, n + 1, Len(s)) \in Seq(S)
      /\ Len(SubSeq(s, n + 1, Len(s))) = Len(s) - n
  BY <1>1
<1>3. n # Len(s) => Len(SubSeq(s, n + 1, Len(s))) # 0
  BY <1>1, <1>2
<1>4. n = Len(s) => Len(SubSeq(s, n + 1, Len(s))) = 0
  BY <1>1, <1>2
<1>5. QED
  BY <1>2, <1>3, <1>4, EmptySeq

LEMMA PutAllInv == DeviceInv /\ PutAll => DeviceInv'
<1> SUFFICES ASSUME DeviceInv, PutAll PROVE DeviceInv'
  OBVIOUS
<1> USE DEF DeviceInv, PutAll, waitVars
<1>a. /\ isOpened /\ txBuf \in Buffers /\ Consistent(txBuf) /\ ~waiting[Writer]
      /\ todo.data \in Seq(Bytes) /\ todo.data # <<>>
  BY DEF DeviceTypes, CallsAreOpened, CallsFindWhatTheySaw, BuffersConsistent, Writing,
         Threads
<1> DEFINE n == Room(txBuf, Len(todo.data))
<1>b. /\ txBuf' = PutBytes(txBuf, todo.data)
      /\ txBuf' \in Buffers /\ Consistent(txBuf')
      /\ n \in 0..Len(todo.data)
  BY <1>a, PutBytesAppends
<1>c. /\ txOn' \in BOOLEAN /\ (IsAboveHighWM(txBuf') => txOn')
      /\ UNCHANGED <<rxBuf, received, isOpened, doCancelRead, rxOn, waiting, ret, alarms>>
  BY <1>b DEF DeviceTypes
<1>d. PICK l \in {"idle", "prepared"} :
        /\ callAt' = [callAt EXCEPT ![Writer] = l]
        /\ todo' \in [size : Reads \cup {ByteRead}, data : Seq(Bytes)]
        /\ l = "idle" <=> todo'.data = <<>>
        /\ timeout' \in [Threads -> Limits \cup {"never"}]
  <2>1. CASE n = Len(todo.data)
    <3>1. "idle" \in CallPlaces /\ Writer \in Threads /\ GoOnTo(Writer, "idle")
      BY <2>1 DEF CallPlaces, Threads
    <3>2. QED
      BY <3>1, GoOnToStep
  <2>2. CASE n # Len(todo.data)
    <3> DEFINE rest == SubSeq(todo.data, n + 1, Len(todo.data))
    <3>1. rest \in Seq(Bytes) /\ rest # <<>>
      BY <1>a, <1>b, <2>2, RestOfSeq
    <3>2. /\ todo' = [todo EXCEPT !.data = rest] /\ GoOn(Writer, "prepared")
          /\ UNCHANGED timeout
      BY <2>2
    <3> HIDE DEF rest
    <3>3. QED
      BY <3>1, <3>2 DEF DeviceTypes, GoOn
  <2>3. QED
    BY <2>1, <2>2
<1> HIDE DEF PutAll, n
<1>1. DeviceTypes'
  BY <1>b, <1>c, <1>d DEF DeviceTypes, CallPlaces, Threads
<1>2. CallsAreOpened'
  BY <1>a, <1>c, <1>d DEF DeviceTypes, CallsAreOpened, Reading, Writing, Threads
<1>3. CallsFindWhatTheySaw'
  BY <1>c, <1>d DEF DeviceTypes, CallsFindWhatTheySaw, Writing, Threads
<1>4. (BuffersConsistent /\ NoMissedByte)'
  BY <1>a, <1>b, <1>c DEF BuffersConsistent, NoMissedByte
<1>5. QED
  BY <1>1, <1>2, <1>3, <1>4

LEMMA FlushInv == DeviceInv /\ Flush => DeviceInv'
<1> SUFFICES ASSUME DeviceInv, Flush PROVE DeviceInv'
  OBVIOUS
<1> USE DEF DeviceInv, Flush, bufferVars, callVars, waitVars
<1>1. DeviceTypes'
  BY DEF DeviceTypes
<1>2. CallsAreOpened'
  BY DEF CallsAreOpened
<1>3. CallsFindWhatTheySaw'
  BY DEF CallsFindWhatTheySaw
<1>4. (BuffersConsistent /\ NoMissedByte)'
  BY DEF BuffersConsistent, NoMissedByte
<1>5. QED
  BY <1>1, <1>2, <1>3, <1>4

LEMMA CancelReadInv == DeviceInv /\ CancelRead => DeviceInv'
<1> SUFFICES ASSUME DeviceInv, CancelRead PROVE DeviceInv'
  OBVIOUS
<1> USE DEF DeviceInv, CancelRead, bufferVars, waitVars
<1>1. DeviceTypes'
  BY DEF DeviceTypes, GoOn, CallPlaces, Threads
<1>2. CallsAreOpened'
  BY DEF DeviceTypes, CallsAreOpened, GoOn, Idle, Reading, Writing, Threads
<1>3. CallsFindWhatTheySaw'
  BY DEF DeviceTypes, CallsFindWhatTheySaw, GoOn, Idle, Writing, Threads
<1>4. (BuffersConsistent /\ NoMissedByte)'
  BY DEF BuffersConsistent, NoMissedByte
<1>5. QED
  BY <1>1, <1>2, <1>3, <1>4

LEMMA CancelNotifyInv == DeviceInv /\ CancelNotify => DeviceInv'
<1> SUFFICES ASSUME DeviceInv, CancelNotify PROVE DeviceInv'
  OBVIOUS
<1> USE DEF DeviceInv, CancelNotify, bufferVars, portVars
<1>a. /\ Reader \in Threads /\ Writer \in Threads /\ "idle" \in CallPlaces
  BY DEF Threads, CallPlaces
<1>b. /\ waiting' = [waiting EXCEPT ![Reader] = FALSE]
      /\ waiting' \in [Threads -> BOOLEAN]
      /\ ret' \in [Threads -> {"none", "event", "timeout", "cancelled"}]
  BY <1>a, NotifiedStep
<1>c. /\ callAt' = [callAt EXCEPT ![Writer] = "idle"]
      /\ todo' \in [size : Reads \cup {ByteRead}, data : Seq(Bytes)]
      /\ todo'.data = <<>>
      /\ timeout' \in [Threads -> Limits \cup {"never"}]
  BY <1>a, GoOnToStep
<1>1. DeviceTypes'
  BY <1>a, <1>b, <1>c DEF DeviceTypes
<1>2. CallsAreOpened'
  BY <1>b, <1>c DEF DeviceTypes, CallsAreOpened, Reading, Writing, Threads
<1>3. CallsFindWhatTheySaw'
  BY <1>c DEF DeviceTypes, CallsFindWhatTheySaw, Writing, Threads
<1>4. (BuffersConsistent /\ NoMissedByte)'
  BY <1>b DEF BuffersConsistent, NoMissedByte, DeviceTypes, Threads
<1>5. QED
  BY <1>1, <1>2, <1>3, <1>4

-----------------------------------------------------------------------------
(***************************************************************************)
(* Interrupts                                                              *)
(***************************************************************************)

LEMMA ArriveInv == ASSUME NEW c \in Arriving PROVE DeviceInv /\ Arrive(c) => DeviceInv'
<1> SUFFICES ASSUME DeviceInv, Arrive(c) PROVE DeviceInv'
  OBVIOUS
<1> USE DEF DeviceInv, Arrive, portVars, callVars, waitVars
<1>a. received' \in Seq(Bytes) /\ Len(received') <= 1
  <2>1. c \in Bytes
    BY DeviceAssumption
  <2>2. <<c>> \in Seq(Bytes) /\ Len(<<c>>) = 1
    BY <2>1
  <2>3. QED
    BY <2>2
<1>1. DeviceTypes'
  BY <1>a DEF DeviceTypes
<1>2. CallsAreOpened'
  BY DEF CallsAreOpened
<1>3. CallsFindWhatTheySaw'
  BY DEF CallsFindWhatTheySaw
<1>4. (BuffersConsistent /\ NoMissedByte)'
  BY DEF BuffersConsistent, NoMissedByte
<1>5. QED
  BY <1>1, <1>2, <1>3, <1>4

\* The receive register holds one byte or none.
LEMMA ReceivedByte ==
  ASSUME DeviceTypes, received # <<>>
  PROVE  /\ received[1] \in Bytes /\ Len(received) = 1
         /\ received = <<received[1]>>
<1>1. received \in Seq(Bytes) /\ Len(received) <= 1
  BY DEF DeviceTypes
<1>2. Len(received) = 1
  <2> DEFINE n == Len(received)
  <2>1. n \in Nat /\ n # 0 /\ n <= 1
    BY <1>1, EmptySeq
  <2> HIDE DEF n
  <2>2. n = 1
    BY ONLY <2>1
  <2>3. QED
    BY <2>2 DEF n
<1>3. received[1] \in Bytes
  BY <1>1, <1>2
<1>4. QED
  BY <1>1, <1>2, <1>3

LEMMA InterruptRxInv == DeviceInv /\ InterruptRx => DeviceInv'
<1> SUFFICES ASSUME DeviceInv, InterruptRx PROVE DeviceInv'
  OBVIOUS
<1> USE DEF DeviceInv, InterruptRx, portVars, callVars
<1>a. Reader \in Threads /\ isOpened
  BY DEF Threads, CallsAreOpened
<1>b. /\ waiting' = [waiting EXCEPT ![Reader] = FALSE]
      /\ waiting' \in [Threads -> BOOLEAN]
      /\ ret' \in [Threads -> {"none", "event", "timeout", "cancelled"}]
  BY <1>a, NotifiedStep
<1>c. /\ rxBuf' \in Buffers /\ Consistent(rxBuf')
      /\ ~IsEmpty(rxBuf) => ~IsEmpty(rxBuf')
  <2>1. rxBuf \in Buffers /\ Consistent(rxBuf) /\ rxBuf.len \in Nat
    BY <1>a, ClearedBuffer DEF DeviceTypes, BuffersConsistent
  <2>2. CASE IsFull(rxBuf)
    BY <2>1, <2>2
  <2>3. CASE ~IsFull(rxBuf)
    <3>1. received[1] \in Bytes
      BY ReceivedByte
    <3>2. rxBuf' = Put(rxBuf, received[1])
      BY <2>3
    <3>3. /\ rxBuf' \in Buffers /\ Consistent(rxBuf')
          /\ rxBuf'.len = rxBuf.len + 1
      BY ONLY <2>1, <2>3, <3>1, <3>2, PutAppends
    <3>4. rxBuf'.len # 0
      BY ONLY <2>1, <3>3
    <3>5. QED
      BY <3>3, <3>4 DEF IsEmpty
  <2>4. QED
    BY <2>2, <2>3
<1>d. received' \in Seq(Bytes) /\ Len(received') <= 1
  <2>1. <<>> \in Seq(Bytes) /\ Len(<<>>) = 0
    OBVIOUS
  <2>2. QED
    BY <2>1
<1>1. DeviceTypes'
  BY <1>b, <1>c, <1>d DEF DeviceTypes
<1>2. CallsAreOpened'
  BY <1>b DEF CallsAreOpened, DeviceTypes, Threads
<1>3. CallsFindWhatTheySaw'
  BY <1>a, <1>c DEF CallsFindWhatTheySaw, CallsAreOpened
<1>4. (BuffersConsistent /\ NoMissedByte)'
  BY <1>b, <1>c DEF BuffersConsistent, NoMissedByte, DeviceTypes, Threads
<1>5. QED
  BY <1>1, <1>2, <1>3, <1>4

LEMMA InterruptTxInv == DeviceInv /\ InterruptTx => DeviceInv'
<1> SUFFICES ASSUME DeviceInv, InterruptTx PROVE DeviceInv'
  OBVIOUS
<1> USE DEF DeviceInv, InterruptTx, callVars
<1>a. /\ Writer \in Threads /\ isOpened /\ txBuf \in Buffers /\ Consistent(txBuf)
      /\ txBuf.len \in Nat
  <2>1. Writer \in Threads /\ isOpened /\ txBuf \in Buffers /\ Consistent(txBuf)
    BY DEF Threads, CallsAreOpened, DeviceTypes, BuffersConsistent
  <2>2. txBuf.len \in 0..Size
    BY ONLY <2>1, ClearedBuffer
  <2>3. QED
    BY ONLY <2>1, <2>2, Constants
<1>b. /\ txBuf' \in Buffers /\ Consistent(txBuf')
      /\ IsAboveHighWM(txBuf') => txOn'
      /\ ~IsFull(txBuf) => ~IsFull(txBuf')
      /\ txOn' \in BOOLEAN
  <2>1. CASE IsEmpty(txBuf)
    <3>1. txBuf' = txBuf /\ txOn' = FALSE
      BY <2>1
    <3>2. ~IsAboveHighWM(txBuf)
      BY ONLY <2>1, AtZero DEF IsEmpty, IsAboveHighWM
    <3>3. QED
      BY ONLY <1>a, <3>1, <3>2
  <2>2. CASE ~IsEmpty(txBuf)
    <3>1. 1 \in 1..txBuf.len
      BY <1>a, <2>2 DEF IsEmpty
    <3>2. txBuf' = Left(txBuf, 1) /\ txOn' = txOn
      BY <2>2
    <3>3. txBuf' \in Buffers /\ Consistent(txBuf') /\ txBuf'.len = txBuf.len - 1
      BY <1>a, <3>1, <3>2, LeftIsTail
    <3>4. txBuf.len <= Size
      BY <1>a, ClearedBuffer
    <3>5. IsAboveHighWM(txBuf') => IsAboveHighWM(txBuf)
      BY <1>a, <3>3 DEF IsAboveHighWM
    <3>6. ~IsFull(txBuf')
      BY <1>a, <3>3, <3>4 DEF IsFull
    <3>7. QED
      BY <1>a, <3>2, <3>3, <3>5, <3>6 DEF CallsFindWhatTheySaw, DeviceTypes
  <2>3. QED
    BY <2>1, <2>2
<1>c. /\ waiting' \in [Threads -> BOOLEAN]
      /\ \A t \in Threads : waiting'[t] => waiting[t]
      /\ waiting'[Writer] => ~IsBelowLowWM(txBuf')
      /\ ret' \in [Threads -> {"none", "event", "timeout", "cancelled"}]
  <2>1. CASE UNCHANGED <<waiting, ret>> /\ UNCHANGED txBuf
    BY <2>1 DEF DeviceTypes, NoMissedByte
  <2>2. CASE UNCHANGED <<waiting, ret>> /\ ~IsBelowLowWM(txBuf')
    BY <2>2 DEF DeviceTypes
  <2>3. CASE Notified(Writer, "event")
    <3>1. /\ waiting' = [waiting EXCEPT ![Writer] = FALSE]
          /\ waiting' \in [Threads -> BOOLEAN]
          /\ ret' \in [Threads -> {"none", "event", "timeout", "cancelled"}]
      BY <1>a, <2>3, NotifiedStep
    <3>2. QED
      BY <1>a, <3>1 DEF DeviceTypes
  <2>4. QED
    BY <2>1, <2>2, <2>3
<1>d. waiting'[Writer] => txOn'
  <2>1. IsEmpty(txBuf) => IsBelowLowWM(txBuf)
    BY DEF IsEmpty, IsBelowLowWM
  <2>2. waiting'[Writer] => txOn /\ ~IsBelowLowWM(txBuf)
    BY <1>a, <1>c DEF NoMissedByte
  <2>3. QED
    BY <2>1, <2>2
<1>e. UNCHANGED <<rxBuf, received, isOpened, doCancelRead, rxOn, callAt, todo, timeout, alarms>>
  OBVIOUS
<1> HIDE DEF InterruptTx
<1>1. DeviceTypes'
  BY <1>b, <1>c, <1>e DEF DeviceTypes
<1>2. CallsAreOpened'
  BY <1>a, <1>c, <1>e DEF CallsAreOpened
<1>3. CallsFindWhatTheySaw'
  BY <1>b, <1>e DEF CallsFindWhatTheySaw
<1>4. (BuffersConsistent /\ NoMissedByte)'
  BY <1>b, <1>c, <1>d, <1>e DEF BuffersConsistent, NoMissedByte, Threads
<1>5. QED
  BY <1>1, <1>2, <1>3, <1>4

LEMMA ShiftedInv == DeviceInv /\ Shifted => DeviceInv'
<1> SUFFICES ASSUME DeviceInv, Shifted PROVE DeviceInv'
  OBVIOUS
<1> USE DEF DeviceInv, Shifted, portVars, callVars, waitVars
<1>1. DeviceTypes'
  BY DEF DeviceTypes
<1>2. CallsAreOpened'
  BY DEF CallsAreOpened
<1>3. CallsFindWhatTheySaw'
  BY DEF CallsFindWhatTheySaw
<1>4. (BuffersConsistent /\ NoMissedByte)'
  BY DEF BuffersConsistent, NoMissedByte
<1>5. QED
  BY <1>1, <1>2, <1>3, <1>4

LEMMA AlarmInv == ASSUME NEW t \in Threads PROVE DeviceInv /\ Alarm(t) => DeviceInv'
<1> SUFFICES ASSUME DeviceInv, Alarm(t) PROVE DeviceInv'
  OBVIOUS
<1> USE DEF DeviceInv, Alarm, bufferVars, portVars, callVars
<1>a. /\ waiting' = [waiting EXCEPT ![t] = FALSE]
      /\ waiting' \in [Threads -> BOOLEAN]
      /\ ret' \in [Threads -> {"none", "event", "timeout", "cancelled"}]
  BY NotifiedStep
<1>1. DeviceTypes'
  BY <1>a DEF DeviceTypes
<1>2. CallsAreOpened'
  BY <1>a DEF CallsAreOpened, DeviceTypes
<1>3. CallsFindWhatTheySaw'
  BY DEF CallsFindWhatTheySaw
<1>4. (BuffersConsistent /\ NoMissedByte)'
  BY <1>a DEF BuffersConsistent, NoMissedByte, DeviceTypes, Threads
<1>5. QED
  BY <1>1, <1>2, <1>3, <1>4

-----------------------------------------------------------------------------
(***************************************************************************)
(* The invariant                                                           *)
(***************************************************************************)

LEMMA DeviceStepInv == DeviceInv /\ [DeviceNext]_deviceVars => DeviceInv'
<1> SUFFICES ASSUME DeviceInv, [DeviceNext]_deviceVars PROVE DeviceInv'
  OBVIOUS
<1>1. CASE ReaderStep
  BY <1>1, OpenInv, ClearInv, PortInitInv, CloseInv, ReadInv, ReadCheckInv,
     TakeBytesInv, ReturnInv DEF ReaderStep
<1>2. CASE WriterStep
  BY <1>2, WriteInv, WriteCheckInv, PutAllInv, FlushInv, CancelReadInv,
     CancelNotifyInv DEF WriterStep
<1>3. CASE \E t \in Threads : Arm(t) \/ Performed(t) \/ Alarm(t)
  BY <1>3, ArmInv, PerformedInv, AlarmInv
<1>4. CASE \E c \in Arriving : Arrive(c)
  BY <1>4, ArriveInv
<1>5. CASE InterruptRx \/ InterruptTx \/ Shifted
  BY <1>5, InterruptRxInv, InterruptTxInv, ShiftedInv
<1>6. CASE UNCHANGED deviceVars
  BY <1>6 DEF deviceVars, bufferVars, portVars, callVars, waitVars, DeviceInv,
     DeviceTypes, CallsAreOpened, CallsFindWhatTheySaw, BuffersConsistent, NoMissedByte
<1>7. QED
  BY <1>1, <1>2, <1>3, <1>4, <1>5, <1>6 DEF DeviceNext

LEMMA DeviceAlwaysInv == DeviceSpec => []DeviceInv
BY DeviceInitInv, DeviceStepInv, PTL DEF DeviceSpec

\* The buffers never hold more than there is room for, and the offsets stay in the
\* array.
THEOREM DeviceTypesCorrect == DeviceSpec => []DeviceTypeOK
<1>1. DeviceInv => DeviceTypeOK
  BY DEF DeviceInv, DeviceTypes, DeviceTypeOK
<1>2. QED
  BY <1>1, DeviceAlwaysInv, PTL

\* The pointers of both buffers agree with their lengths whenever the device is
\* open, whatever the interrupts do while it is opened and closed.
THEOREM BuffersStayConsistent == DeviceSpec => []BuffersConsistent
<1>1. DeviceInv => BuffersConsistent
  BY DEF DeviceInv
<1>2. QED
  BY <1>1, DeviceAlwaysInv, PTL

\* No thread waits for a byte that has come or for room that there is, wherever
\* the interrupts, the timer and a cancellation fall between its check and its
\* wait.
THEOREM NoByteIsMissed == DeviceSpec => []NoMissedByte
<1>1. DeviceInv => NoMissedByte
  BY DEF DeviceInv
<1>2. QED
  BY <1>1, DeviceAlwaysInv, PTL

-----------------------------------------------------------------------------
(***************************************************************************)
(* The buffers are queues: every step is a step of both queues, or leaves  *)
(* them as they are.                                                       *)
(***************************************************************************)

RxBytes == IF isOpened THEN Contents(rxBuf) ELSE <<>>
TxBytes == IF isOpened THEN Contents(txBuf) ELSE <<>>

RxStep == [RxQueue!QueueNext]_RxQueue!queueVars
TxStep == [TxQueue!QueueNext]_TxQueue!queueVars

LEMMA RxSame ==
  ASSUME UNCHANGED <<received, RxBytes, got>>
  PROVE  RxStep
BY DEF RxBytes, RxStep, RxQueue!queueVars

LEMMA TxSame ==
  ASSUME UNCHANGED <<todo.data, TxBytes, sent>>
  PROVE  TxStep
BY DEF TxBytes, TxStep, TxQueue!queueVars

LEMMA RxBytesSame ==
  ASSUME UNCHANGED <<isOpened, rxBuf>>
  PROVE  UNCHANGED RxBytes
BY DEF RxBytes, Contents

LEMMA TxBytesSame ==
  ASSUME UNCHANGED <<isOpened, txBuf>>
  PROVE  UNCHANGED TxBytes
BY DEF TxBytes, Contents

\* Taking from one end, whatever is at the other.
LEMMA RxTakes ==
  ASSUME NEW n \in 1..Size, n <= Len(RxBytes),
         got' = SubSeq(RxBytes, 1, n),
         RxBytes' = SubSeq(RxBytes, n + 1, Len(RxBytes)),
         UNCHANGED received
  PROVE  RxStep
BY DEF RxBytes, RxStep, RxQueue!QueueNext, RxQueue!Take

LEMMA TxTakes ==
  ASSUME NEW n \in 1..Size, n <= Len(TxBytes),
         sent' = SubSeq(TxBytes, 1, n),
         TxBytes' = SubSeq(TxBytes, n + 1, Len(TxBytes)),
         UNCHANGED todo.data
  PROVE  TxStep
BY DEF TxBytes, TxStep, TxQueue!QueueNext, TxQueue!Take

\* Putting into one end.
LEMMA RxAccepts ==
  ASSUME NEW n \in 1..Size, n <= Len(received), Len(RxBytes) + n <= Size,
         RxBytes' = RxBytes \o SubSeq(received, 1, n),
         received' = SubSeq(received, n + 1, Len(received)),
         UNCHANGED got
  PROVE  RxStep
BY DEF RxBytes, RxStep, RxQueue!QueueNext, RxQueue!Accept

LEMMA TxAccepts ==
  ASSUME NEW n \in 1..Size, n <= Len(todo.data), Len(TxBytes) + n <= Size,
         TxBytes' = TxBytes \o SubSeq(todo.data, 1, n),
         todo.data' = SubSeq(todo.data, n + 1, Len(todo.data)),
         UNCHANGED sent
  PROVE  TxStep
BY DEF TxBytes, TxStep, TxQueue!QueueNext, TxQueue!Accept

\* The whole of a sequence of one element.
LEMMA OneByte ==
  ASSUME NEW c
  PROVE  /\ Len(<<c>>) = 1
         /\ SubSeq(<<c>>, 1, 1) = <<c>>
         /\ SubSeq(<<c>>, 1 + 1, 1) = <<>>
<1>1. <<c>> \in Seq({c}) /\ Len(<<c>>) = 1
  OBVIOUS
<1>2. SubSeq(<<c>>, 1, 1) = <<c>>
  BY <1>1, SubSeqFull
<1>3. SubSeq(<<c>>, 1 + 1, 1) = <<>>
  BY SubSeqEmpty
<1>4. QED
  BY <1>1, <1>2, <1>3

LEMMA OpenQueues == DeviceInv /\ Open => RxStep /\ TxStep
<1> SUFFICES ASSUME Open PROVE RxStep /\ TxStep
  OBVIOUS
<1>1. UNCHANGED <<isOpened, rxBuf, txBuf, received, got, sent, todo>>
  BY DEF Open, bufferVars
<1>2. QED
  BY <1>1, RxSame, TxSame, RxBytesSame, TxBytesSame

LEMMA ClearQueues == DeviceInv /\ Clear => RxStep /\ TxStep
<1> SUFFICES ASSUME DeviceInv, Clear PROVE RxStep /\ TxStep
  OBVIOUS
<1>1. UNCHANGED <<isOpened, txBuf, received, got, sent, todo>> /\ ~isOpened
  BY DEF Clear, portVars, DeviceInv, CallsAreOpened
<1>2. UNCHANGED RxBytes
  BY <1>1 DEF RxBytes
<1>3. QED
  BY <1>1, <1>2, RxSame, TxSame, TxBytesSame

LEMMA PortInitQueues == DeviceInv /\ PortInit => RxStep /\ TxStep
<1> SUFFICES ASSUME DeviceInv, PortInit PROVE RxStep /\ TxStep
  OBVIOUS
<1>1. UNCHANGED <<received, got, sent, todo>> /\ ~isOpened
  BY DEF PortInit, DeviceInv, CallsAreOpened
<1>2. /\ rxBuf' \in Buffers /\ rxBuf'.len = 0
      /\ txBuf' \in Buffers /\ txBuf'.len = 0
  <2>1. rxBuf \in Buffers /\ txBuf \in Buffers
    BY DEF DeviceInv, DeviceTypes
  <2>2. ClearPointers(txBuf) \in Buffers
    BY <2>1, ClearedBuffer
  <2>3. QED
    BY <2>1, <2>2, ClearedBuffer DEF PortInit
<1>3. Contents(rxBuf') = <<>> /\ Contents(txBuf') = <<>>
  BY <1>2, ContentsEmpty
<1>4. Contents(rxBuf)' = <<>> /\ Contents(txBuf)' = <<>>
  BY <1>3 DEF Contents
<1>5. RxBytes = <<>> /\ TxBytes = <<>> /\ RxBytes' = <<>> /\ TxBytes' = <<>>
  BY <1>1, <1>4 DEF RxBytes, TxBytes
<1>6. QED
  BY <1>1, <1>5, RxSame, TxSame

\* close() empties both queues, and the receive register with them.
LEMMA CloseQueues == DeviceInv /\ Close => RxStep /\ TxStep
<1> SUFFICES ASSUME DeviceInv, Close PROVE RxStep /\ TxStep
  OBVIOUS
<1>1. /\ UNCHANGED <<got, sent, todo>> /\ isOpened' = FALSE
      /\ received' = IF isOpened THEN <<>> ELSE received
      /\ todo.data = <<>>
  BY DEF Close, callVars, DeviceInv, CallsFindWhatTheySaw, Idle, Writing
<1>2. RxBytes' = <<>> /\ TxBytes' = <<>>
  BY <1>1 DEF RxBytes, TxBytes
<1>3. CASE isOpened
  BY <1>1, <1>2, <1>3 DEF RxStep, TxStep, RxQueue!QueueNext, TxQueue!QueueNext,
     RxQueue!Empty, TxQueue!Empty, RxBytes, TxBytes
<1>4. CASE ~isOpened
  <2>1. RxBytes = <<>> /\ TxBytes = <<>>
    BY <1>4 DEF RxBytes, TxBytes
  <2>2. QED
    BY <1>1, <1>2, <1>4, <2>1, RxSame, TxSame
<1>5. QED
  BY <1>3, <1>4

\* A wait that is given up by the writer withdraws what it has left.
LEMMA WaitQueues ==
  ASSUME NEW t \in Threads
  PROVE  DeviceInv /\ (Arm(t) \/ Performed(t)) => RxStep /\ TxStep
<1> SUFFICES ASSUME DeviceInv, Arm(t) \/ Performed(t) PROVE RxStep /\ TxStep
  OBVIOUS
<1>1. UNCHANGED <<isOpened, rxBuf, txBuf, received, got, sent>>
  BY DEF Arm, Performed, bufferVars, portVars
<1>2. PICK l \in {"perform", "check", "take", "idle"} : GoOnTo(t, l)
  BY DEF Arm, Performed, GiveUp
<1>3. l \in CallPlaces /\ DeviceTypes
  BY DEF CallPlaces, DeviceInv
<1>4. todo'.data = IF t = Writer /\ l = "idle" THEN <<>> ELSE todo.data
  BY <1>2, <1>3, GoOnToStep
<1>5. RxStep /\ UNCHANGED TxBytes
  BY <1>1, RxSame, RxBytesSame, TxBytesSame
<1>6. CASE todo'.data = <<>>
  BY <1>1, <1>5, <1>6 DEF TxStep, TxQueue!QueueNext, TxQueue!Lose, TxBytes
<1>7. CASE todo'.data = todo.data
  BY <1>1, <1>5, <1>7, TxSame
<1>8. QED
  BY <1>4, <1>5, <1>6, <1>7

LEMMA ReadQueues ==
  ASSUME NEW size \in Reads, NEW limit \in Limits
  PROVE  DeviceInv /\ Read(size, limit) => RxStep /\ TxStep
<1> SUFFICES ASSUME DeviceInv, Read(size, limit) PROVE RxStep /\ TxStep
  OBVIOUS
<1>1. UNCHANGED <<isOpened, rxBuf, txBuf, received, got, sent>>
  BY DEF Read, bufferVars, portVars
<1>2. todo'.data = todo.data
  BY DEF Read, DeviceInv, DeviceTypes
<1>3. QED
  BY <1>1, <1>2, RxSame, TxSame, RxBytesSame, TxBytesSame

LEMMA ChecksQueues == DeviceInv /\ (ReadCheck \/ WriteCheck) => RxStep /\ TxStep
<1> SUFFICES ASSUME ReadCheck \/ WriteCheck PROVE RxStep /\ TxStep
  OBVIOUS
<1>1. UNCHANGED <<isOpened, rxBuf, txBuf, received, got, sent, todo>>
  BY DEF ReadCheck, WriteCheck, bufferVars, portVars
<1>2. QED
  BY <1>1, RxSame, TxSame, RxBytesSame, TxBytesSame

LEMMA TakeBytesQueues == DeviceInv /\ TakeBytes => RxStep /\ TxStep
<1> SUFFICES ASSUME DeviceInv, TakeBytes PROVE RxStep /\ TxStep
  OBVIOUS
<1>1. UNCHANGED <<isOpened, txBuf, received, sent, todo>> /\ isOpened
  BY DEF TakeBytes, portVars, DeviceInv, CallsAreOpened, Reading
<1>2. rxBuf \in Buffers /\ Consistent(rxBuf)
  BY <1>1 DEF DeviceInv, DeviceTypes, BuffersConsistent
<1>3. PICK n \in 1..rxBuf.len : rxBuf' = Left(rxBuf, n) /\ got' = Got(rxBuf, n)
  BY TakenBytes
<1>4. RxBytes = Contents(rxBuf) /\ RxBytes' = Contents(rxBuf')
  BY <1>1 DEF RxBytes, Contents
<1>5. Len(RxBytes) = rxBuf.len /\ rxBuf.len \in 0..Size
  BY <1>2, <1>4, ContentsSeq, ClearedBuffer
<1>6. /\ got' = SubSeq(RxBytes, 1, n)
      /\ RxBytes' = SubSeq(RxBytes, n + 1, Len(RxBytes))
  BY <1>2, <1>3, <1>4, <1>5, LeftIsTail
<1>7. n \in 1..Size /\ n <= Len(RxBytes)
  BY ONLY <1>3, <1>5, Constants
<1>8. RxStep
  BY <1>1, <1>6, <1>7, RxTakes
<1>9. QED
  BY <1>1, <1>8, TxSame, TxBytesSame

LEMMA ReturnQueues == DeviceInv /\ Return => RxStep /\ TxStep
<1> SUFFICES ASSUME DeviceInv, Return PROVE RxStep /\ TxStep
  OBVIOUS
<1>1. UNCHANGED <<isOpened, rxBuf, txBuf, received, sent>> /\ got' = <<>>
  BY DEF Return, portVars
<1>2. "idle" \in CallPlaces /\ Reader \in Threads /\ DeviceTypes /\ GoOnTo(Reader, "idle")
  BY DEF Return, CallPlaces, Threads, DeviceInv
<1>3. todo'.data = todo.data
  BY <1>2, GoOnToStep, Constants
<1>4. RxStep
  BY <1>1, RxBytesSame DEF RxStep, RxQueue!QueueNext, RxQueue!Use, RxBytes
<1>5. QED
  BY <1>1, <1>3, <1>4, TxSame, TxBytesSame

LEMMA WriteQueues ==
  ASSUME NEW bytes \in Writes, NEW limit \in Limits
  PROVE  DeviceInv /\ Write(bytes, limit) => RxStep /\ TxStep
<1> SUFFICES ASSUME DeviceInv, Write(bytes, limit) PROVE RxStep /\ TxStep
  OBVIOUS
<1>1. UNCHANGED <<isOpened, rxBuf, txBuf, received, got, sent>>
  BY DEF Write, bufferVars, portVars
<1>2. todo.data = <<>>
  BY DEF Write, Idle, DeviceInv, CallsFindWhatTheySaw, Writing
<1>3. UNCHANGED TxBytes
  BY <1>1, TxBytesSame
<1>4. TxStep
  BY <1>1, <1>2, <1>3 DEF TxStep, TxQueue!QueueNext, TxQueue!Offer, TxBytes
<1>5. QED
  BY <1>1, <1>4, RxSame, RxBytesSame

\* The transmit queue accepts the first bytes of a write, those that fit.
LEMMA PutAllQueues == DeviceInv /\ PutAll => RxStep /\ TxStep
<1> SUFFICES ASSUME DeviceInv, PutAll PROVE RxStep /\ TxStep
  OBVIOUS
<1>1. /\ UNCHANGED <<isOpened, rxBuf, received, got, sent>> /\ isOpened
      /\ ~IsFull(txBuf) /\ todo.data # <<>>
  BY DEF PutAll, DeviceInv, CallsAreOpened, CallsFindWhatTheySaw, Writing
<1>2. txBuf \in Buffers /\ Consistent(txBuf) /\ todo.data \in Seq(Bytes)
  BY <1>1 DEF DeviceInv, DeviceTypes, BuffersConsistent
<1> DEFINE n == Room(txBuf, Len(todo.data))
<1>3. /\ n \in 0..Len(todo.data) /\ n > 0
      /\ txBuf' = PutBytes(txBuf, todo.data)
      /\ txBuf' \in Buffers /\ txBuf'.len = txBuf.len + n
      /\ Contents(txBuf') = Contents(txBuf) \o SubSeq(todo.data, 1, n)
  BY <1>1, <1>2, PutBytesAppends DEF PutAll
<1>4. todo'.data = SubSeq(todo.data, n + 1, Len(todo.data))
  <2>1. CASE n = Len(todo.data)
    <3>1. "idle" \in CallPlaces /\ Writer \in Threads /\ DeviceTypes /\ GoOnTo(Writer, "idle")
      BY <2>1 DEF PutAll, CallPlaces, Threads, DeviceInv
    <3>2. todo'.data = <<>>
      BY <3>1, GoOnToStep
    <3>3. QED
      BY <1>2, <1>3, <2>1, <3>2, RestOfSeq
  <2>2. CASE n # Len(todo.data)
    <3> DEFINE rest == SubSeq(todo.data, n + 1, Len(todo.data))
    <3>1. todo' = [todo EXCEPT !.data = rest]
      BY <2>2 DEF PutAll
    <3> HIDE DEF rest
    <3>2. todo'.data = rest
      BY <3>1 DEF DeviceInv, DeviceTypes
    <3>3. QED
      BY <3>2 DEF rest
  <2>3. QED
    BY <2>1, <2>2
<1> HIDE DEF n
<1>5. TxBytes = Contents(txBuf) /\ TxBytes' = Contents(txBuf')
  BY <1>1 DEF TxBytes, Contents
<1>6. /\ Len(TxBytes) = txBuf.len /\ txBuf.len \in 0..Size /\ txBuf'.len \in 0..Size
      /\ Len(todo.data) \in Nat
  BY <1>2, <1>3, <1>5, ContentsSeq, ClearedBuffer
<1>7. n \in 1..Size /\ n <= Len(todo.data) /\ Len(TxBytes) + n <= Size
  BY ONLY <1>3, <1>6, Constants
<1>8. TxStep
  BY <1>1, <1>3, <1>4, <1>5, <1>7, TxAccepts
<1>9. QED
  BY <1>1, <1>8, RxSame, RxBytesSame

LEMMA OtherWritesQueues ==
  DeviceInv /\ (Flush \/ CancelRead \/ CancelNotify) => RxStep /\ TxStep
<1> SUFFICES ASSUME DeviceInv, Flush \/ CancelRead \/ CancelNotify PROVE RxStep /\ TxStep
  OBVIOUS
<1>1. UNCHANGED <<isOpened, rxBuf, txBuf, received, got, sent>>
  BY DEF Flush, CancelRead, CancelNotify, bufferVars, portVars
<1>2. todo'.data = todo.data
  <2>1. CASE UNCHANGED todo
    BY <2>1
  <2>2. CASE CancelNotify
    <3>1. "idle" \in CallPlaces /\ Writer \in Threads /\ DeviceTypes /\ GoOnTo(Writer, "idle")
      BY <2>2 DEF CancelNotify, CallPlaces, Threads, DeviceInv
    <3>2. todo.data = <<>>
      BY <2>2 DEF CancelNotify, DeviceInv, CallsFindWhatTheySaw, Writing
    <3>3. QED
      BY <3>1, <3>2, GoOnToStep
  <2>3. QED
    BY <2>1, <2>2 DEF Flush, CancelRead, callVars
<1>3. QED
  BY <1>1, <1>2, RxSame, TxSame, RxBytesSame, TxBytesSame

LEMMA ArriveQueues ==
  ASSUME NEW c \in Arriving
  PROVE  DeviceInv /\ Arrive(c) => RxStep /\ TxStep
<1> SUFFICES ASSUME Arrive(c) PROVE RxStep /\ TxStep
  OBVIOUS
<1>1. UNCHANGED <<isOpened, rxBuf, txBuf, got, sent, todo>> /\ received = <<>>
  BY DEF Arrive, portVars, callVars
<1>2. UNCHANGED RxBytes
  BY <1>1, RxBytesSame
<1>3. RxStep
  BY <1>1, <1>2 DEF RxStep, RxQueue!QueueNext, RxQueue!Offer, RxBytes
<1>4. QED
  BY <1>1, <1>3, TxSame, TxBytesSame

\* The byte received is lost if the buffer is full, and only then.
LEMMA InterruptRxQueues == DeviceInv /\ InterruptRx => RxStep /\ TxStep
<1> SUFFICES ASSUME DeviceInv, InterruptRx PROVE RxStep /\ TxStep
  OBVIOUS
<1>1. /\ UNCHANGED <<isOpened, txBuf, got, sent, todo>> /\ isOpened
      /\ received # <<>> /\ received' = <<>>
  BY DEF InterruptRx, portVars, callVars, DeviceInv, CallsAreOpened
<1>2. rxBuf \in Buffers /\ Consistent(rxBuf) /\ DeviceTypes
  BY <1>1 DEF DeviceInv, DeviceTypes, BuffersConsistent
<1>3. RxBytes = Contents(rxBuf) /\ RxBytes' = Contents(rxBuf')
  BY <1>1 DEF RxBytes, Contents
<1>4. Len(RxBytes) = rxBuf.len /\ rxBuf.len \in 0..Size
  BY <1>2, <1>3, ContentsSeq, ClearedBuffer
<1>5. RxStep
  <2>1. CASE IsFull(rxBuf)
    <3>1. Len(RxBytes) = Size
      BY <1>4, <2>1 DEF IsFull
    <3>2. UNCHANGED RxBytes
      BY <1>3, <2>1 DEF InterruptRx
    <3>3. QED
      BY <1>1, <3>1, <3>2 DEF RxStep, RxQueue!QueueNext, RxQueue!Lose, RxBytes
  <2>2. CASE ~IsFull(rxBuf)
    <3> DEFINE c == received[1]
    <3>1. c \in Bytes /\ received = <<c>>
      BY <1>1, <1>2, ReceivedByte
    <3>2. rxBuf' = Put(rxBuf, c)
      BY <2>2 DEF InterruptRx
    <3> HIDE DEF c
    <3>3. RxBytes' = RxBytes \o <<c>>
      BY <1>2, <1>3, <2>2, <3>1, <3>2, PutAppends
    <3>4. /\ Len(received) = 1 /\ SubSeq(received, 1, 1) = <<c>>
          /\ SubSeq(received, 1 + 1, 1) = <<>>
      BY <3>1, OneByte
    <3>5. 1 \in 1..Size /\ 1 <= Len(received) /\ Len(RxBytes) + 1 <= Size
      <4>1. rxBuf.len # Size
        BY <2>2 DEF IsFull
      <4>2. QED
        BY ONLY <1>4, <3>4, <4>1, Constants
    <3>6. QED
      BY <1>1, <3>3, <3>4, <3>5, RxAccepts
  <2>3. QED
    BY <2>1, <2>2
<1>6. QED
  BY <1>1, <1>5, TxSame, TxBytesSame

LEMMA InterruptTxQueues == DeviceInv /\ InterruptTx => RxStep /\ TxStep
<1> SUFFICES ASSUME DeviceInv, InterruptTx PROVE RxStep /\ TxStep
  OBVIOUS
<1>1. UNCHANGED <<isOpened, rxBuf, received, got, todo>> /\ isOpened
  BY DEF InterruptTx, callVars, DeviceInv, CallsAreOpened
<1>2. txBuf \in Buffers /\ Consistent(txBuf)
  BY <1>1 DEF DeviceInv, DeviceTypes, BuffersConsistent
<1>3. TxBytes = Contents(txBuf) /\ TxBytes' = Contents(txBuf')
  BY <1>1 DEF TxBytes, Contents
<1>4. Len(TxBytes) = txBuf.len /\ txBuf.len \in 0..Size
  BY <1>2, <1>3, ContentsSeq, ClearedBuffer
<1>5. TxStep
  <2>1. CASE IsEmpty(txBuf)
    <3>1. UNCHANGED <<txBuf, sent>>
      BY <2>1 DEF InterruptTx
    <3>2. QED
      BY <1>1, <3>1, TxSame, TxBytesSame
  <2>2. CASE ~IsEmpty(txBuf)
    <3>1. sent' = Got(txBuf, 1) /\ txBuf' = Left(txBuf, 1)
      BY <2>2 DEF InterruptTx
    <3>2. txBuf.len # 0
      BY <2>2 DEF IsEmpty
    <3>3. 1 \in 1..txBuf.len /\ 1 \in 1..Size /\ 1 <= Len(TxBytes)
      BY ONLY <1>4, <3>2, Constants
    <3>4. /\ sent' = SubSeq(TxBytes, 1, 1)
          /\ TxBytes' = SubSeq(TxBytes, 1 + 1, Len(TxBytes))
      BY <1>2, <1>3, <1>4, <3>1, <3>3, LeftIsTail
    <3>5. QED
      BY <1>1, <3>3, <3>4, TxTakes
  <2>3. QED
    BY <2>1, <2>2
<1>6. QED
  BY <1>1, <1>5, RxSame, RxBytesSame

LEMMA ShiftedQueues == DeviceInv /\ Shifted => RxStep /\ TxStep
<1> SUFFICES ASSUME Shifted PROVE RxStep /\ TxStep
  OBVIOUS
<1>1. UNCHANGED <<isOpened, rxBuf, txBuf, received, got, todo>> /\ sent' = <<>>
  BY DEF Shifted, portVars, callVars
<1>2. TxStep
  BY <1>1, TxBytesSame DEF TxStep, TxQueue!QueueNext, TxQueue!Use, TxBytes
<1>3. QED
  BY <1>1, <1>2, RxSame, RxBytesSame

LEMMA AlarmQueues ==
  ASSUME NEW t \in Threads
  PROVE  DeviceInv /\ Alarm(t) => RxStep /\ TxStep
<1> SUFFICES ASSUME Alarm(t) PROVE RxStep /\ TxStep
  OBVIOUS
<1>1. UNCHANGED <<isOpened, rxBuf, txBuf, received, got, sent, todo>>
  BY DEF Alarm, bufferVars, portVars, callVars
<1>2. QED
  BY <1>1, RxSame, TxSame, RxBytesSame, TxBytesSame

LEMMA DeviceStepQueues == DeviceInv /\ [DeviceNext]_deviceVars => RxStep /\ TxStep
<1> SUFFICES ASSUME DeviceInv, [DeviceNext]_deviceVars PROVE RxStep /\ TxStep
  OBVIOUS
<1>1. CASE ReaderStep
  BY <1>1, OpenQueues, ClearQueues, PortInitQueues, CloseQueues, ReadQueues,
     ChecksQueues, TakeBytesQueues, ReturnQueues DEF ReaderStep
<1>2. CASE WriterStep
  BY <1>2, WriteQueues, ChecksQueues, PutAllQueues, OtherWritesQueues DEF WriterStep
<1>3. CASE \E t \in Threads : Arm(t) \/ Performed(t) \/ Alarm(t)
  BY <1>3, WaitQueues, AlarmQueues
<1>4. CASE \E c \in Arriving : Arrive(c)
  BY <1>4, ArriveQueues
<1>5. CASE InterruptRx \/ InterruptTx \/ Shifted
  BY <1>5, InterruptRxQueues, InterruptTxQueues, ShiftedQueues
<1>6. CASE UNCHANGED deviceVars
  <2>1. UNCHANGED <<isOpened, rxBuf, txBuf, received, got, sent, todo>>
    BY <1>6 DEF deviceVars, bufferVars, portVars, callVars
  <2>2. QED
    BY <2>1, RxSame, TxSame, RxBytesSame, TxBytesSame
<1>7. QED
  BY <1>1, <1>2, <1>3, <1>4, <1>5, <1>6 DEF DeviceNext

\* The device implements two bounded queues: while it is open the bytes that are
\* read are those received and the bytes sent are those written, in their order,
\* each once; a received byte is lost only in a full buffer, and a write leaves
\* out only its last bytes, when it gives up.
THEOREM DeviceImplementsQueues == DeviceSpec => BuffersAreQueues
<1>1. DeviceInit => RxQueue!QueueInit /\ TxQueue!QueueInit
  BY DEF DeviceInit, NoTodo, RxQueue!QueueInit, TxQueue!QueueInit
<1>2. DeviceInv /\ [DeviceNext]_deviceVars =>
        /\ [RxQueue!QueueNext]_RxQueue!queueVars
        /\ [TxQueue!QueueNext]_TxQueue!queueVars
  BY DeviceStepQueues DEF RxStep, TxStep
<1>3. QED
  BY <1>1, <1>2, DeviceAlwaysInv, PTL
     DEF DeviceSpec, BuffersAreQueues, RxQueue!QueueSpec, TxQueue!QueueSpec

(***************************************************************************)
(* The storage.  What the numbers, the headers and the sessions are.       *)
(***************************************************************************)

\* What a search has found so far; a copy counts the fields of a session in l.
Scans == [l : 0..StorageSize + 6, r : Numbers, left : Headers, right : Headers,
          next : Places]

Labels == {"closed", "scan", "scanLast", "halve", "forward", "found", "notFound", "copy",
           "publish", "notify", "notifyClosed", "open", "written", "closing",
           "idle", "prepareOpen", "syncOpen", "openCopy", "waitOpen", "back", "backFirst",
           "next", "copyNext", "prepareRead", "syncRead", "waitRead", "fetch"}

\* The variables have their types, numbers in use are on the ring, and the
\* session is one when it is published or written.
StorageOK ==
  /\ disk \in [Numbers -> Headers]
  /\ recent \in Sessions /\ ws \in Sessions
  /\ rs \in [Readers -> Sessions]
  /\ recentBlock \in Blocks /\ wb \in Blocks
  /\ DOMAIN req = Searchers /\ req[SessionWriter].no \in Nat
  /\ scan \in [Searchers -> Scans]
  /\ at \in [Searchers -> Labels]
  /\ log \in Seq(Nat)

ScanOK ==
  /\ \A t \in Searchers :
       /\ at[t] \in {"scanLast", "halve", "forward", "found", "backFirst", "next"} =>
            scan[t].l \in Numbers /\ scan[t].r \in Numbers
       /\ at[t] = "copyNext" => scan[t].l \in 1..6
  /\ \A r \in Readers : at[r] = "back" => IsValid(rs[r])
  /\ \A r \in Readers : at[r] \in {"openCopy", "copyNext"} => IsValid(recent)
  /\ at[SessionWriter] \in {"publish", "notify", "open", "written", "closing"} => IsValid(ws)

LEMMA RingNumbers ==
  /\ StorageSize \in Nat /\ StorageSize >= 2 /\ IdMod \in Nat /\ IdMod >= 4
  /\ NumMod \in Nat /\ NumMod > StorageSize
  /\ INVALID \in Nat /\ INVALID \notin Numbers /\ 0 \in Numbers /\ Numbers \subseteq Places
  /\ Places \ {INVALID} = Numbers /\ Places \subseteq Nat
BY StorageAssumption DEF INVALID, Numbers, Places

LEMMA RemainderRange ==
  ASSUME NEW a \in Int, NEW m \in Nat \ {0}
  PROVE  a % m \in 0..m - 1
OBVIOUS

\* A number computed on the ring is on the ring.
LEMMA NumberBehind ==
  ASSUME NEW n \in Nat
  PROVE  CircularNumber(n, 1) \in Numbers
<1>1. (n + 1) % NumMod \in Int
  BY RingNumbers, RemainderRange
<1>2. ((n + 1) % NumMod) % StorageSize \in 0..StorageSize - 1
  BY <1>1, RingNumbers, RemainderRange
<1> QED  BY <1>2 DEF CircularNumber, Numbers

LEMMA NumberBefore ==
  ASSUME NEW n \in Numbers
  PROVE  CircularNumber(n, -1) \in Numbers
BY RingNumbers DEF CircularNumber, Numbers

LEMMA NumberOfBlock ==
  ASSUME NEW n \in Numbers, NEW k \in Nat
  PROVE  CircularNumber(n, k) \in Numbers
<1>1. (n + k) % NumMod \in Int
  BY RingNumbers, RemainderRange DEF Numbers
<1>2. ((n + k) % NumMod) % StorageSize \in 0..StorageSize - 1
  BY <1>1, RingNumbers, RemainderRange
<1>3. k = 0 => CircularNumber(n, k) = n
  BY DEF CircularNumber, Numbers
<1> QED  BY <1>2, <1>3 DEF CircularNumber, Numbers

LEMMA LengthInRange ==
  ASSUME NEW a \in Nat, NEW b \in Nat
  PROVE  CircularLength(a, b) \in 0..NumMod - 1
<1>1. NumMod \in Nat \ {0} /\ a - b + 1 \in Int /\ a + StorageSize - b + 1 \in Int
  BY RingNumbers
<1>2. (a - b + 1) % NumMod \in 0..NumMod - 1
  BY <1>1, RemainderRange
<1>3. (a + StorageSize - b + 1) % NumMod \in 0..NumMod - 1
  BY <1>1, RemainderRange
<1> QED  BY <1>2, <1>3 DEF CircularLength

LEMMA NextBlockOK ==
  ASSUME NEW b \in Blocks
  PROVE  NextBlock(b) \in Blocks
<1>1. b.no \in Nat /\ b.id \in Nat
  BY RingNumbers DEF Blocks, Numbers
<1>2. (b.id + 1) % IdMod \in 0..IdMod - 1
  <2>1. IdMod \in Nat \ {0} /\ b.id + 1 \in Int
    BY <1>1, RingNumbers
  <2> QED  BY <2>1, RemainderRange
<1> QED  BY <1>1, <1>2, NumberBehind DEF Blocks, NextBlock

LEMMA NothingOK ==
  /\ Blank \in Headers /\ NoSession \in Sessions /\ NoScan \in Scans
  /\ ~IsValid(NoSession)
BY RingNumbers DEF Blank, Headers, NoSession, Sessions, NoScan, Scans, IsValid, Places

LEMMA NewSessionOK ==
  ASSUME NEW id \in Nat, NEW n \in Numbers
  PROVE  NewSession(id, n) \in Sessions /\ IsValid(NewSession(id, n))
BY RingNumbers, NothingOK DEF NewSession, NoSession, Sessions, IsValid, Places

LEMMA ExtentOK ==
  ASSUME NEW id \in Nat, NEW f \in Numbers, NEW n \in Numbers, NEW x \in Places
  PROVE  Extent(id, f, n, x) \in Sessions /\ IsValid(Extent(id, f, n, x))
<1>1. CircularLength(n, f) \in 0..NumMod - 1
  BY LengthInRange DEF Numbers
<1> QED  BY <1>1, RingNumbers DEF Extent, Sessions, IsValid

LEMMA FoundSessionOK ==
  ASSUME NEW s \in Scans, s.l \in Numbers
  PROVE  FoundSession(s) \in Sessions /\ IsValid(FoundSession(s))
<1>1. s.left.first \in Numbers /\ s.left.sid \in Nat /\ s.next \in Places
  BY DEF Scans, Headers
<1>2. CircularLength(s.left.first, s.l) \in 0..NumMod - 1
  <2>1. s.left.first \in Nat /\ s.l \in Nat
    BY <1>1 DEF Numbers
  <2> QED  BY <2>1, LengthInRange
<1> QED  BY <1>1, <1>2, RingNumbers DEF FoundSession, Sessions, IsValid

LEMMA MinOf ==
  ASSUME NEW S \in SUBSET Nat, S # {}
  PROVE  Min(S) \in S /\ \A y \in S : Min(S) <= y
<1> DEFINE Less == {ss \in Nat \X Nat : ss[1] < ss[2]}
<1>1. IsWellFoundedOn(Less, Nat)
  BY NatLessThanWellFounded DEF OpToRel
<1>2. \E x \in S : \A y \in S : ~(<<y, x>> \in Less)
  <2> HIDE DEF Less
  <2> QED  BY <1>1, WFMin
<1>3. PICK x \in S : \A y \in S : ~(<<y, x>> \in Less)
  BY <1>2
<1>4. \A y \in S : x <= y
  <2>1. TAKE y \in S
  <2>2. y \in Nat /\ x \in Nat /\ ~(<<y, x>> \in Less)
    BY <1>3
  <2>3. <<y, x>> \in Nat \X Nat /\ <<y, x>>[1] = y /\ <<y, x>>[2] = x
    BY <2>2
  <2> QED  BY <2>2, <2>3
<1> QED  BY <1>4 DEF Min

LEMMA MaxOf ==
  ASSUME NEW n \in Nat, NEW S \in SUBSET (1..n), S # {}
  PROVE  Max(S) \in S /\ \A y \in S : y <= Max(S)
<1> DEFINE T == {n - x : x \in S}
<1>1. T \in SUBSET Nat /\ T # {}
  <2>1. \A x \in S : n - x \in Nat
    BY n \in Nat, S \subseteq 1..n
  <2>2. T \subseteq Nat
    BY <2>1
  <2>3. PICK x \in S : TRUE
    OBVIOUS
  <2>4. n - x \in T
    OBVIOUS
  <2> QED  BY <2>2, <2>4
<1>2. Min(T) \in T /\ \A y \in T : Min(T) <= y
  BY <1>1, MinOf
<1>3. PICK x \in S : Min(T) = n - x
  BY <1>2
<1>4. \A y \in S : y <= x
  <2>1. TAKE y \in S
  <2>2. n - y \in T
    OBVIOUS
  <2>3. n - x <= n - y
    BY <1>2, <1>3, <2>2
  <2> QED  BY <2>3, S \subseteq 1..n
<1> HIDE DEF T
<1> QED  BY <1>4 DEF Max

LEMMA PlaceRange ==
  ASSUME NEW i \in Int
  PROVE  PlaceOf(i) \in Numbers /\ IdOf(i) \in 0..IdMod - 1
<1>1. StorageSize \in Nat \ {0} /\ IdMod \in Nat \ {0} /\ i - 1 \in Int
  BY RingNumbers
<1> QED  BY <1>1, RemainderRange DEF PlaceOf, IdOf, Numbers

\* The blocks of a session that has blocks, and the first and the last of them.
SessionOf(l, i) == {j \in 1..Len(l) : l[j] = l[i]}

LEMMA SessionEnds ==
  ASSUME NEW l \in Seq(Nat), NEW i \in 1..Len(l)
  PROVE  /\ Min(SessionOf(l, i)) \in SessionOf(l, i)
         /\ Max(SessionOf(l, i)) \in SessionOf(l, i)
         /\ \A j \in SessionOf(l, i) : Min(SessionOf(l, i)) <= j /\ j <= Max(SessionOf(l, i))
<1> DEFINE S == SessionOf(l, i)
<1>1. S \subseteq 1..Len(l) /\ i \in S /\ Len(l) \in Nat
  BY DEF SessionOf
<1>2. S \in SUBSET Nat /\ S \in SUBSET (1..Len(l)) /\ S # {}
  BY <1>1
<1> HIDE DEF S
<1>3. /\ Min(S) \in S /\ \A j \in S : Min(S) <= j
      /\ Max(S) \in S /\ \A j \in S : j <= Max(S)
  BY <1>1, <1>2, MinOf, MaxOf
<1> QED  BY <1>3 DEF S

\* The header that the device holds for a block of a log.
HeaderAfter(l, i) ==
  [magic |-> TRUE, sid |-> l[i], first |-> PlaceOf(Min(SessionOf(l, i))), bid |-> IdOf(i),
   next |-> IF i = Min(SessionOf(l, i)) /\ l[i] # l[Len(l)]
            THEN PlaceOf(Max(SessionOf(l, i)) + 1) ELSE INVALID]

LEMMA HeaderAfterOK ==
  ASSUME NEW l \in Seq(Nat), NEW i \in 1..Len(l)
  PROVE  HeaderAfter(l, i) \in Headers
<1>1. l[i] \in Nat /\ i \in Int
  OBVIOUS
<1>2. Min(SessionOf(l, i)) \in Int /\ Max(SessionOf(l, i)) + 1 \in Int
  <2>1. SessionOf(l, i) \subseteq Int
    BY DEF SessionOf
  <2> QED  BY <2>1, SessionEnds
<1>3. /\ PlaceOf(Min(SessionOf(l, i))) \in Numbers
      /\ PlaceOf(Max(SessionOf(l, i)) + 1) \in Numbers
      /\ IdOf(i) \in 0..IdMod - 1
  BY <1>1, <1>2, PlaceRange
<1>4. HeaderAfter(l, i).next \in Places
  BY <1>3, RingNumbers DEF HeaderAfter, Places
<1> QED  BY <1>1, <1>3, <1>4 DEF HeaderAfter, Headers

\* What the device holds at a place after a log.
LEMMA DiskAfterAt ==
  ASSUME NEW l, NEW p \in Numbers
  PROVE  \/ \E i \in 1..Len(l) : Holds(l, p, i) /\ DiskAfter(l)[p] = HeaderAfter(l, i)
         \/ (\A i \in 1..Len(l) : ~Holds(l, p, i)) /\ DiskAfter(l)[p] = Blank
<1>1. CASE \E i \in 1..Len(l) : Holds(l, p, i)
  <2> DEFINE i == CHOOSE j \in 1..Len(l) : Holds(l, p, j)
  <2>1. i \in 1..Len(l) /\ Holds(l, p, i)
    BY <1>1
  <2>2. DiskAfter(l)[p] = HeaderAfter(l, i)
    BY <1>1 DEF DiskAfter, HeaderAfter, SessionOf
  <2> QED  BY <2>1, <2>2
<1>2. CASE ~\E i \in 1..Len(l) : Holds(l, p, i)
  BY <1>2 DEF DiskAfter
<1> QED  BY <1>1, <1>2

LEMMA DiskAfterOK ==
  ASSUME NEW l \in Seq(Nat)
  PROVE  DiskAfter(l) \in [Numbers -> Headers]
<1>1. \A p \in Numbers : DiskAfter(l)[p] \in Headers
  BY DiskAfterAt, HeaderAfterOK, NothingOK
<1>2. DiskAfter(l) = [p \in Numbers |-> DiskAfter(l)[p]]
  BY DEF DiskAfter
<1> QED  BY <1>1, <1>2

LEMMA StorageInitOK ==
  ASSUME StorageInit
  PROVE  StorageOK /\ ScanOK
<1> USE DEF StorageInit, RamAtStart
<1>1. log \in Seq(Nat) /\ disk \in [Numbers -> Headers]
  BY LogsAssumption, DiskAfterOK
<1>2. recentBlock \in Blocks
  BY RingNumbers DEF Blocks
<1>3. SessionWriter \in Searchers /\ Readers \subseteq Searchers
  BY DEF Searchers
<1>4. /\ recent \in Sessions /\ ws \in Sessions
      /\ rs \in [Readers -> Sessions]
      /\ scan \in [Searchers -> Scans]
  BY NothingOK
<1>5. wb \in Blocks /\ DOMAIN req = Searchers /\ req[SessionWriter].no \in Nat
  BY <1>2, <1>3 DEF NoRequest
<1>6. at \in [Searchers -> Labels]
  BY DEF Labels
<1>7. StorageOK
  BY <1>1, <1>2, <1>4, <1>5, <1>6 DEF StorageOK
<1>8. ScanOK
  BY <1>3, StorageAssumption DEF ScanOK
<1> QED  BY <1>7, <1>8

LEMMA SearchersAre ==
  SessionWriter \in Searchers /\ SessionWriter \notin Readers /\ Readers \subseteq Searchers
BY StorageAssumption DEF Searchers

InSearch == {"scanLast", "halve", "forward", "found", "backFirst", "next"}
Copying == {"openCopy", "copyNext"}
InWriter == {"publish", "notify", "open", "written", "closing"}

\* A step of one thread keeps what the others know of their places.
LEMMA ScanKept ==
  ASSUME StorageOK, ScanOK, NEW t \in Searchers, NEW s \in Scans, NEW x \in Labels,
         at' = [at EXCEPT ![t] = x], scan' = [scan EXCEPT ![t] = s],
         x \in InSearch => s.l \in Numbers /\ s.r \in Numbers,
         x = "copyNext" => s.l \in 1..6,
         \A r \in Readers : IF r = t THEN x = "back" => IsValid(rs'[r]) ELSE rs'[r] = rs[r],
         IF t = SessionWriter THEN x \in InWriter => IsValid(ws') ELSE ws' = ws,
         IsValid(recent) => IsValid(recent'), x \in Copying => IsValid(recent')
  PROVE  ScanOK' /\ scan' \in [Searchers -> Scans] /\ at' \in [Searchers -> Labels]
<1>1. scan' \in [Searchers -> Scans] /\ at' \in [Searchers -> Labels]
  BY DEF StorageOK
<1>2. /\ at'[t] = x /\ scan'[t] = s
      /\ \A u \in Searchers \ {t} : at'[u] = at[u] /\ scan'[u] = scan[u]
  BY DEF StorageOK
<1>3. ASSUME NEW u \in Searchers
      PROVE  /\ at'[u] \in InSearch => scan'[u].l \in Numbers /\ scan'[u].r \in Numbers
             /\ at'[u] = "copyNext" => scan'[u].l \in 1..6
  BY <1>2 DEF ScanOK, InSearch
<1>4. ASSUME NEW r \in Readers PROVE at'[r] = "back" => IsValid(rs'[r])
  BY <1>2, SearchersAre DEF ScanOK, IsValid
<1>5. at'[SessionWriter] \in InWriter => IsValid(ws')
  BY <1>2, SearchersAre DEF ScanOK, InWriter, IsValid
<1>6. ASSUME NEW r \in Readers PROVE at'[r] \in Copying => IsValid(recent')
  BY <1>2, SearchersAre DEF ScanOK, Copying, IsValid
<1>7. ScanOK'
  BY <1>3, <1>4, <1>5, <1>6 DEF ScanOK, InSearch, InWriter, Copying, IsValid
<1> QED  BY <1>1, <1>7

\* What a search has found, with the right end and the left one as they are now.
Narrowed(s, l, h, g) == [s EXCEPT !.right = g, !.l = l, !.left = h]

LEMMA ScanWith ==
  ASSUME NEW s \in Scans, NEW l \in 0..StorageSize + 6, NEW h \in Headers, NEW g \in Headers
  PROVE  /\ Narrowed(s, l, h, g) \in Scans
         /\ Narrowed(s, l, h, g).l = l /\ Narrowed(s, l, h, g).r = s.r
BY DEF Narrowed, Scans

\* The steps of a search.
LEMMA ScanStepOK ==
  ASSUME StorageOK, ScanOK, NEW t \in Searchers, Scan(t)
  PROVE  StorageOK' /\ ScanOK'
<1> USE DEF ScanUnchanged, Go
<1>0. scan[t] \in Scans /\ at[t] \in Labels
  BY DEF StorageOK
<1>1. UNCHANGED <<disk, recent, recentBlock, ws, wb, rs, req, log>>
  BY DEF Scan, ScanFirst, ScanLast, ScanHalve, ScanForward
<1>2. \E s \in Scans, x \in Labels \ (InWriter \cup Copying \cup {"back"}) :
        /\ at' = [at EXCEPT ![t] = x] /\ scan' = [scan EXCEPT ![t] = s]
        /\ x \in InSearch => s.l \in Numbers /\ s.r \in Numbers
  <2>1. CASE ScanFirst(t)
    <3> DEFINE s == [NoScan EXCEPT !.r = StorageSize - 1, !.left = disk[0]]
    <3>1. disk[0] \in Headers /\ StorageSize - 1 \in Numbers
      <4>1. 0 \in Numbers /\ StorageSize - 1 \in Numbers
        BY RingNumbers DEF Numbers
      <4> QED  BY <4>1 DEF StorageOK
    <3>2. s \in Scans /\ s.l = 0 /\ s.r = StorageSize - 1
      BY <3>1, NothingOK, RingNumbers DEF Scans, NoScan, Numbers
    <3>3. scan = [scan EXCEPT ![t] = @]
      BY DEF StorageOK
    <3>4. CASE disk[0].magic
      BY <2>1, <3>1, <3>2, <3>4, RingNumbers DEF ScanFirst, Labels, InWriter, Copying
    <3>5. CASE ~disk[0].magic
      BY <2>1, <1>0, <3>3, <3>5 DEF ScanFirst, Labels, InWriter, Copying, InSearch
    <3> QED  BY <3>4, <3>5
  <2>2. CASE ScanLast(t)
    <3>1. disk[StorageSize - 1] \in Headers /\ StorageSize - 1 \in Numbers
      <4>1. StorageSize - 1 \in Numbers
        BY RingNumbers DEF Numbers
      <4> QED  BY <4>1 DEF StorageOK
    <3>2. scan[t].l \in Numbers /\ scan[t].r \in Numbers
      BY <2>2 DEF ScanLast, ScanOK
    <3>3. PICK b \in BOOLEAN :
            /\ scan' = [scan EXCEPT ![t].right = disk[StorageSize - 1],
                                    ![t].l = IF b THEN StorageSize - 1 ELSE @,
                                    ![t].left = IF b THEN disk[StorageSize - 1] ELSE @]
            /\ at' = [at EXCEPT ![t] = IF b THEN "forward" ELSE "halve"]
      BY <2>2 DEF ScanLast
    <3> DEFINE s == [scan[t] EXCEPT !.right = disk[StorageSize - 1],
                                    !.l = IF b THEN StorageSize - 1 ELSE @,
                                    !.left = IF b THEN disk[StorageSize - 1] ELSE @]
    <3>7. StorageSize - 1 \in 0..StorageSize + 6
      BY RingNumbers
    <3>8. (IF b THEN StorageSize - 1 ELSE scan[t].l) \in Numbers \cap 0..StorageSize + 6
      BY <1>0, <3>1, <3>2, <3>7 DEF Scans
    <3>9. (IF b THEN disk[StorageSize - 1] ELSE scan[t].left) \in Headers
      BY <1>0, <3>1 DEF Scans
    <3>4. s \in Scans /\ s.l \in Numbers /\ s.r \in Numbers
      <4> DEFINE g == disk[StorageSize - 1]
                 l == IF b THEN StorageSize - 1 ELSE scan[t].l
                 h == IF b THEN disk[StorageSize - 1] ELSE scan[t].left
      <4>1. s = Narrowed(scan[t], l, h, g)
        BY DEF Narrowed
      <4>2. g \in Headers /\ h \in Headers /\ l \in Numbers /\ l \in 0..StorageSize + 6
        BY <3>1, <3>8, <3>9
      <4>3. scan[t] \in Scans
        BY <1>0
      <4> HIDE DEF s, g, l, h
      <4> QED  BY <3>2, <4>1, <4>2, <4>3, ScanWith
    <3>5. scan' = [scan EXCEPT ![t] = s]
      BY <1>0, <3>3 DEF StorageOK, Scans
    <3>6. (IF b THEN "forward" ELSE "halve") \in Labels \ (InWriter \cup Copying \cup {"back"})
      BY DEF Labels, InWriter, Copying
    <3> HIDE DEF s
    <3> QED  BY <3>3, <3>4, <3>5, <3>6
  <2>3. CASE ScanHalve(t)
    <3> DEFINE m == (scan[t].l + scan[t].r) \div 2
    <3>1. m \in Numbers /\ scan[t].l \in Numbers /\ scan[t].r \in Numbers
      BY <2>3, RingNumbers DEF ScanHalve, ScanOK, Numbers
    <3>8. m \in 0..StorageSize + 6
      BY <3>1, RingNumbers DEF Numbers
    <3>2. disk[m] \in Headers
      BY <3>1 DEF StorageOK
    <3> HIDE DEF m
    <3>3. \/ at' = [at EXCEPT ![t] = "forward"] /\ UNCHANGED scan
          \/ /\ UNCHANGED at
             /\ scan' = [scan EXCEPT ![t] = [scan[t] EXCEPT !.r = m, !.right = disk[m]]]
          \/ UNCHANGED at /\ scan' = [scan EXCEPT ![t] = [scan[t] EXCEPT !.l = m, !.left = disk[m]]]
      BY <2>3 DEF ScanHalve, m
    <3>4. at = [at EXCEPT ![t] = "halve"] /\ scan = [scan EXCEPT ![t] = scan[t]]
      BY <2>3 DEF ScanHalve, StorageOK
    <3>5. /\ [scan[t] EXCEPT !.r = m, !.right = disk[m]] \in Scans
          /\ [scan[t] EXCEPT !.r = m, !.right = disk[m]].l = scan[t].l
          /\ [scan[t] EXCEPT !.r = m, !.right = disk[m]].r = m
      BY <1>0, <3>1, <3>2 DEF Scans
    <3>6. /\ [scan[t] EXCEPT !.l = m, !.left = disk[m]] \in Scans
          /\ [scan[t] EXCEPT !.l = m, !.left = disk[m]].l = m
          /\ [scan[t] EXCEPT !.l = m, !.left = disk[m]].r = scan[t].r
      BY <1>0, <3>1, <3>2, <3>8 DEF Scans
    <3>7. {"forward", "halve"} \subseteq Labels \ (InWriter \cup Copying \cup {"back"})
      BY DEF Labels, InWriter, Copying
    <3> QED  BY <1>0, <3>1, <3>3, <3>4, <3>5, <3>6, <3>7
  <2>4. CASE ScanForward(t)
    <3> DEFINE s == [scan[t] EXCEPT !.next = disk[scan[t].left.first].next]
    <3>1. disk[scan[t].left.first].next \in Places
      BY <1>0 DEF StorageOK, Scans, Headers
    <3>2. s \in Scans /\ s.l = scan[t].l /\ s.r = scan[t].r
      BY <1>0, <3>1 DEF Scans
    <3>3. scan' = [scan EXCEPT ![t] = s]
      BY <2>4, <1>0 DEF ScanForward, StorageOK, Scans
    <3>4. s.l \in Numbers /\ s.r \in Numbers
      BY <2>4, <3>2 DEF ScanForward, ScanOK
    <3>5. at' = [at EXCEPT ![t] = "found"]
      BY <2>4 DEF ScanForward
    <3> HIDE DEF s
    <3> QED  BY <3>2, <3>3, <3>4, <3>5 DEF Labels, InWriter, Copying
  <2> QED  BY <2>1, <2>2, <2>3, <2>4 DEF Scan
<1>3. ScanOK' /\ scan' \in [Searchers -> Scans] /\ at' \in [Searchers -> Labels]
  BY <1>1, <1>2, ScanKept DEF Copying
<1> QED  BY <1>1, <1>3 DEF StorageOK

LEMMA RestartOK ==
  ASSUME StorageOK, Restart
  PROVE  StorageOK' /\ ScanOK'
<1> USE DEF Restart
<1>1. /\ recent' \in Sessions /\ ws' \in Sessions
      /\ rs' \in [Readers -> Sessions]
      /\ scan' \in [Searchers -> Scans]
  BY NothingOK
<1>2. recentBlock' \in Blocks /\ wb' \in Blocks
  BY RingNumbers DEF Blocks
<1>3. DOMAIN req' = Searchers /\ req'[SessionWriter].no \in Nat
  BY SearchersAre DEF NoRequest
<1>4. at' \in [Searchers -> Labels]
  BY DEF Labels
<1>5. StorageOK'
  BY <1>1, <1>2, <1>3, <1>4 DEF StorageOK
<1>6. ScanOK'
  BY SearchersAre, StorageAssumption DEF ScanOK
<1> QED  BY <1>5, <1>6

\* A reference set in the first block of a session.
LEMMA SetForwardOK ==
  ASSUME NEW d \in [Numbers -> Headers], NEW p \in Numbers, NEW x \in Places
  PROVE  SetForward(d, p, x) \in [Numbers -> Headers]
<1>1. [d[p] EXCEPT !.next = x] \in Headers
  BY DEF Headers
<1>2. SetForward(d, p, x) = [d EXCEPT ![p] = [d[p] EXCEPT !.next = x]]
  BY DEF SetForward
<1> QED  BY <1>1, <1>2

\* A session extended by the block n.
Extension(s, n, f) == [s EXCEPT !.last = n, !.len = CircularLength(n, f)]

LEMMA ExtendedOK ==
  ASSUME NEW s \in Sessions, NEW f \in Nat, NEW n \in Numbers
  PROVE  Extension(s, n, f) \in Sessions /\ Extension(s, n, f).first = s.first
<1>1. CircularLength(n, f) \in 0..NumMod - 1
  <2>1. n \in Nat
    BY DEF Numbers
  <2> QED  BY <2>1, LengthInRange
<1>2. n \in Places
  BY RingNumbers
<1> QED  BY <1>1, <1>2 DEF Sessions, Extension

\* The steps of the writer.
LEMMA WriterStepOK ==
  ASSUME StorageOK, ScanOK, SessionWriterStep
  PROVE  StorageOK' /\ ScanOK'
<1> DEFINE W == SessionWriter
<1> USE DEF Go, EndLocals
<1>0. /\ W \in Searchers /\ W \notin Readers /\ at[W] \in Labels /\ scan[W] \in Scans
      /\ scan = [scan EXCEPT ![W] = scan[W]]
  BY SearchersAre DEF StorageOK
<1>1. ASSUME NEW sid \in Asked, Create(sid) PROVE StorageOK' /\ ScanOK'
  <2>1. sid \in Nat
    BY RequestsAssumption
  <2>2. at' = [at EXCEPT ![W] = IF IsValid(recent) THEN "copy" ELSE "scan"]
    BY <1>1 DEF Create
  <2>3. (IF IsValid(recent) THEN "copy" ELSE "scan")
           \in Labels \ (InWriter \cup InSearch \cup Copying)
    BY DEF Labels, InWriter, InSearch, Copying
  <2>4. scan' = [scan EXCEPT ![W] = scan[W]] /\ rs' = rs /\ recent' = recent
    BY <1>1, <1>0 DEF Create
  <2>5. ScanOK' /\ scan' \in [Searchers -> Scans] /\ at' \in [Searchers -> Labels]
    BY <1>0, <2>2, <2>3, <2>4, ScanKept DEF Copying
  <2>6. DOMAIN req' = Searchers /\ req'[W].no \in Nat
    BY <1>1, <1>0, <2>1 DEF Create, StorageOK
  <2> QED  BY <1>1, <2>5, <2>6 DEF Create, StorageOK
<1>2. ASSUME NEW x \in {"publish", "closed"},
             at' = [at EXCEPT ![W] = x], scan' = [scan EXCEPT ![W] = NoScan],
             req' = [req EXCEPT ![W] = NoRequest], disk' \in [Numbers -> Headers],
             wb' \in Blocks, ws' \in Sessions, x = "publish" => IsValid(ws'),
             UNCHANGED <<recent, recentBlock, rs, log>>
      PROVE  StorageOK' /\ ScanOK'
  <2>1. x \in Labels \ (InSearch \cup Copying) /\ (x \in InWriter => x = "publish")
    BY <1>2 DEF Labels, InSearch, InWriter, Copying
  <2>2. ScanOK' /\ scan' \in [Searchers -> Scans] /\ at' \in [Searchers -> Labels]
    BY <1>0, <1>2, <2>1, ScanKept, NothingOK DEF Copying
  <2>3. DOMAIN req' = Searchers /\ req'[W].no \in Nat
    BY <1>0, <1>2 DEF StorageOK, NoRequest
  <2> QED  BY <1>2, <2>2, <2>3 DEF StorageOK
<1>3. req[W].no \in Nat /\ \A n \in Nat : NewId(n) \in Nat
  BY DEF StorageOK, NewId
<1>4. CASE CreateFirst
  <2>1. NewId(0) \in Nat /\ 0 \in Numbers
    BY <1>3, RingNumbers
  <2>2. wb' \in Blocks
    BY <1>4, RingNumbers DEF CreateFirst, Blocks
  <2>3. ws' \in Sessions /\ IsValid(ws')
    BY <1>4, <2>1, NewSessionOK DEF CreateFirst
  <2>4. at' = [at EXCEPT ![W] = "publish"] /\ disk' \in [Numbers -> Headers]
    BY <1>4 DEF CreateFirst, StorageOK
  <2>5. /\ scan' = [scan EXCEPT ![W] = NoScan] /\ req' = [req EXCEPT ![W] = NoRequest]
        /\ UNCHANGED <<recent, recentBlock, rs, log>>
    BY <1>4 DEF CreateFirst
  <2> QED  BY <2>2, <2>3, <2>4, <2>5, <1>2
<1>5. CASE CreateAfterSearch
  <2> DEFINE s == FoundSession(scan[W])
             b == NextBlock([no |-> scan[W].l, id |-> scan[W].left.bid])
             x == IF Monotone(s.id) THEN "publish" ELSE "closed"
  <2>1. scan[W].l \in Numbers
    BY <1>5, <1>0 DEF CreateAfterSearch, ScanOK
  <2>2. s \in Sessions /\ IsValid(s) /\ s.first = scan[W].left.first /\ s.id \in Nat
    BY <1>0, <2>1, FoundSessionOK DEF FoundSession, Sessions
  <2>3. [no |-> scan[W].l, id |-> scan[W].left.bid] \in Blocks /\ s.first \in Numbers
    BY <1>0, <2>1, <2>2 DEF Blocks, Scans, Headers
  <2>4. b \in Blocks /\ b.no \in Numbers /\ b.no \in Places
    BY <2>3, NextBlockOK, RingNumbers DEF Blocks
  <2>5. /\ wb' = b /\ disk' = IF ForwardValid(s) THEN disk ELSE SetForward(disk, s.first, b.no)
        /\ ws' = IF Monotone(s.id) THEN NewSession(NewId(s.id), b.no) ELSE ws
        /\ at' = [at EXCEPT ![W] = x]
        /\ scan' = [scan EXCEPT ![W] = NoScan] /\ req' = [req EXCEPT ![W] = NoRequest]
        /\ UNCHANGED <<recent, recentBlock, rs, log>>
    BY <1>5 DEF CreateAfterSearch
  <2> HIDE DEF s, b
  <2>6. disk' \in [Numbers -> Headers]
    BY <2>3, <2>4, <2>5, SetForwardOK DEF StorageOK
  <2>7. ws' \in Sessions /\ (x = "publish" => IsValid(ws')) /\ x \in {"publish", "closed"}
    BY <2>2, <2>4, <2>5, <1>3, NewSessionOK DEF StorageOK
  <2> HIDE DEF x
  <2> QED  BY <2>4, <2>5, <2>6, <2>7, <1>2
<1>6. CASE CreateAfterCached
  <2> DEFINE b == NextBlock(recentBlock)
             x == IF Monotone(recent.id) THEN "publish" ELSE "closed"
  <2>1. b \in Blocks /\ b.no \in Numbers /\ recent.id \in Nat
    BY NextBlockOK DEF StorageOK, Blocks, Sessions
  <2>2. /\ wb' = b /\ disk' = disk
        /\ ws' = IF Monotone(recent.id) THEN NewSession(NewId(recent.id), b.no) ELSE recent
        /\ at' = [at EXCEPT ![W] = x]
        /\ scan' = [scan EXCEPT ![W] = NoScan] /\ req' = [req EXCEPT ![W] = NoRequest]
        /\ UNCHANGED <<recent, recentBlock, rs, log>>
    BY <1>6 DEF CreateAfterCached
  <2> HIDE DEF b
  <2>3. ws' \in Sessions /\ (x = "publish" => IsValid(ws')) /\ x \in {"publish", "closed"}
    BY <2>1, <2>2, <1>3, NewSessionOK DEF StorageOK
  <2>4. disk' \in [Numbers -> Headers]
    BY <2>2 DEF StorageOK
  <2> HIDE DEF x
  <2> QED  BY <2>1, <2>2, <2>3, <2>4, <1>2
<1>7. CASE Publish
  <2>1. /\ at' = [at EXCEPT ![W] = "notify"] /\ scan' = [scan EXCEPT ![W] = scan[W]]
        /\ rs' = rs /\ ws' = ws
    BY <1>7, <1>0 DEF Publish
  <2>2. IsValid(ws) /\ recent' = ws
    BY <1>7 DEF Publish, ScanOK
  <2>3. ScanOK' /\ scan' \in [Searchers -> Scans] /\ at' \in [Searchers -> Labels]
    BY <1>0, <2>1, <2>2, ScanKept DEF Labels, InSearch, Copying
  <2> QED  BY <1>7, <2>3 DEF Publish, StorageOK
<1>8. CASE NotifyWaiting
  <2>1. /\ at[W] \in {"notify", "notifyClosed"}
        /\ NotifyReaders(IF at[W] = "notify" THEN "open" ELSE "closed")
        /\ UNCHANGED <<disk, recent, recentBlock, ws, wb, rs, req, scan, log>>
    BY <1>8 DEF NotifyWaiting
  <2>2. at' \in [Searchers -> Labels]
    BY <2>1 DEF NotifyReaders, StorageOK, Labels
  <2>3. \A r \in Searchers \ {W} : at'[r] \in {at[r], "prepareOpen", "prepareRead"}
    BY <2>1 DEF NotifyReaders
  <2>4. (at'[W] = "open" /\ at[W] = "notify") \/ at'[W] = "closed"
    BY <2>1, <1>0 DEF NotifyReaders
  <2>5. ScanOK'
    BY <2>1, <2>3, <2>4, <1>0, SearchersAre DEF ScanOK, IsValid
  <2> QED  BY <2>1, <2>2, <2>5 DEF StorageOK
<1>9. at[W] \in {"open", "written", "closing"} =>
        /\ IsValid(ws) /\ ws.first \in Numbers /\ ws.first \in Nat
        /\ wb.no \in Numbers /\ wb.no \in Nat /\ wb.no \in Places
  <2>1. IsValid(ws) => ws.first \in Numbers
    BY RingNumbers DEF StorageOK, Sessions, IsValid
  <2>2. wb.no \in Numbers /\ Numbers \subseteq Nat
    BY RingNumbers DEF StorageOK, Blocks, Numbers
  <2> QED  BY <2>1, <2>2, RingNumbers DEF ScanOK
<1>10. CASE WriteBlock
  <2> DEFINE h == [magic |-> TRUE, sid |-> ws.id, first |-> ws.first, bid |-> wb.id,
                   next |-> INVALID]
  <2>0. ws.id \in Nat /\ wb.id \in 0..IdMod - 1 /\ at[W] = "open"
    BY <1>10 DEF WriteBlock, StorageOK, Sessions, Blocks
  <2>1. h \in Headers
    BY <2>0, <1>9, RingNumbers DEF Headers, Places
  <2>2. disk' = [disk EXCEPT ![wb.no] = h] /\ log' = Append(log, ws.id)
        /\ UNCHANGED <<recent, ws, rs>>
    BY <1>10 DEF WriteBlock
  <2>3. at' = [at EXCEPT ![W] = "written"] /\ scan' = [scan EXCEPT ![W] = scan[W]]
    BY <1>10, <1>0 DEF WriteBlock
  <2>4. IsValid(ws')
    BY <1>10, <2>2, <1>9 DEF WriteBlock
  <2>5. ScanOK' /\ scan' \in [Searchers -> Scans] /\ at' \in [Searchers -> Labels]
    BY <1>0, <2>2, <2>3, <2>4, ScanKept DEF Labels, InSearch, Copying
  <2> HIDE DEF h
  <2>6. disk' \in [Numbers -> Headers]
    BY <2>1, <2>2 DEF StorageOK
  <2>7. log \in Seq(Nat) /\ log' \in Seq(Nat)
    BY <2>0, <2>2 DEF StorageOK
  <2> QED  BY <1>10, <2>5, <2>6, <2>7 DEF WriteBlock, StorageOK
<1>11. CASE Record
  <2>1. /\ ws' = [ws EXCEPT !.last = wb.no, !.len = CircularLength(wb.no, ws.first)]
        /\ recent' = [recent EXCEPT !.last = wb.no, !.len = CircularLength(wb.no, ws.first)]
        /\ recentBlock' = wb /\ wb' = NextBlock(wb)
        /\ at' = [at EXCEPT ![W] = "notify"] /\ scan' = [scan EXCEPT ![W] = scan[W]]
        /\ UNCHANGED <<disk, rs, req, log>> /\ at[W] = "written"
    BY <1>11, <1>0 DEF Record
  <2>2. ws' \in Sessions /\ recent' \in Sessions /\ ws'.first = ws.first
        /\ recent'.first = recent.first
    <3>1. ws \in Sessions /\ recent \in Sessions
      BY DEF StorageOK
    <3>2. ws.first \in Nat /\ wb.no \in Numbers
      BY <2>1, <1>9
    <3>3. ws' = Extension(ws, wb.no, ws.first) /\ recent' = Extension(recent, wb.no, ws.first)
      BY <2>1 DEF Extension
    <3>4. ws' \in Sessions /\ ws'.first = ws.first
      BY <3>1, <3>2, <3>3, ExtendedOK
    <3>5. recent' \in Sessions /\ recent'.first = recent.first
      BY <3>1, <3>2, <3>3, ExtendedOK
    <3> QED  BY <3>4, <3>5
  <2>3. IsValid(ws') /\ (IsValid(recent) => IsValid(recent'))
    BY <2>1, <2>2, <1>9 DEF IsValid
  <2>4. ScanOK' /\ scan' \in [Searchers -> Scans] /\ at' \in [Searchers -> Labels]
    BY <1>0, <2>1, <2>3, ScanKept DEF Labels, InSearch, Copying
  <2>5. wb' \in Blocks /\ recentBlock' \in Blocks
    BY <2>1, NextBlockOK DEF StorageOK
  <2> QED  BY <2>1, <2>2, <2>4, <2>5 DEF StorageOK
<1>12. CASE CloseSession
  <2>1. /\ disk' = SetForward(disk, ws.first, wb.no) /\ at[W] = "open"
        /\ at' = [at EXCEPT ![W] = "closing"] /\ scan' = [scan EXCEPT ![W] = scan[W]]
        /\ UNCHANGED <<recent, recentBlock, ws, wb, rs, req, log>>
    BY <1>12, <1>0 DEF CloseSession
  <2>2. disk' \in [Numbers -> Headers] /\ IsValid(ws')
    BY <2>1, <1>9, SetForwardOK DEF StorageOK
  <2>3. ScanOK' /\ scan' \in [Searchers -> Scans] /\ at' \in [Searchers -> Labels]
    BY <1>0, <2>1, <2>2, ScanKept DEF Labels, InSearch, Copying
  <2> QED  BY <2>1, <2>2, <2>3 DEF StorageOK
<1>13. CASE Closed
  <2> DEFINE n == CircularLength(ws.last, ws.first)
  <2>1. /\ ws' = [ws EXCEPT !.next = wb.no, !.len = n, !.done = TRUE]
        /\ recent' = [recent EXCEPT !.next = wb.no, !.len = n]
        /\ at' = [at EXCEPT ![W] = "notifyClosed"] /\ scan' = [scan EXCEPT ![W] = scan[W]]
        /\ UNCHANGED <<disk, recentBlock, wb, rs, req, log>> /\ at[W] = "closing"
    BY <1>13, <1>0 DEF Closed
  <2>2. n \in 0..NumMod - 1
    BY <2>1, <1>9, RingNumbers, LengthInRange DEF StorageOK, Sessions
  <2> HIDE DEF n
  <2>3. ws' \in Sessions /\ recent' \in Sessions /\ recent'.first = recent.first
    BY <2>1, <2>2, <1>9 DEF StorageOK, Sessions
  <2>4. ScanOK' /\ scan' \in [Searchers -> Scans] /\ at' \in [Searchers -> Labels]
    BY <1>0, <2>1, <2>3, ScanKept DEF Labels, InSearch, InWriter, Copying, IsValid
  <2> QED  BY <2>1, <2>3, <2>4 DEF StorageOK
<1> QED
  BY <1>1, <1>4, <1>5, <1>6, <1>7, <1>8, <1>10, <1>11, <1>12, <1>13 DEF SessionWriterStep

\* A position on the ring, with the header there or without.
LEMMA PositionOK ==
  /\ \A n \in 0..StorageSize + 6 :
        [NoScan EXCEPT !.l = n] \in Scans /\ [NoScan EXCEPT !.l = n].l = n
  /\ \A n \in Numbers, h \in Headers :
        /\ [NoScan EXCEPT !.l = n, !.left = h] \in Scans
        /\ [NoScan EXCEPT !.l = n, !.left = h].l = n
        /\ [NoScan EXCEPT !.l = n, !.left = h].left = h
        /\ [NoScan EXCEPT !.l = n, !.left = h].r \in Numbers
<1>1. /\ Blank \in Headers /\ INVALID \in Places /\ 0 \in Numbers
      /\ Numbers \subseteq 0..StorageSize + 6
  BY NothingOK, RingNumbers DEF Places, Numbers
<1> QED  BY <1>1 DEF NoScan, Scans

\* A step of a reader, by what it does to the reader.
LEMMA ReaderKept ==
  ASSUME StorageOK, ScanOK, NEW r \in Readers, NEW s \in Scans, NEW x \in Labels,
         NEW v \in Sessions,
         at' = [at EXCEPT ![r] = x], scan' = [scan EXCEPT ![r] = s],
         rs' = [rs EXCEPT ![r] = v],
         x \in InSearch => s.l \in Numbers /\ s.r \in Numbers,
         x = "copyNext" => s.l \in 1..6,
         x = "back" => IsValid(v),
         DOMAIN req' = Searchers, req'[SessionWriter] = req[SessionWriter],
         recent' \in Sessions, recentBlock' \in Blocks,
         IsValid(recent) => IsValid(recent'), x \in Copying => IsValid(recent'),
         UNCHANGED <<disk, ws, wb, log>>
  PROVE  StorageOK' /\ ScanOK'
<1>1. rs' \in [Readers -> Sessions] /\ rs'[r] = v /\ \A q \in Readers \ {r} : rs'[q] = rs[q]
  BY DEF StorageOK
<1>2. r \in Searchers /\ r # SessionWriter
  BY SearchersAre
<1>3. ScanOK' /\ scan' \in [Searchers -> Scans] /\ at' \in [Searchers -> Labels]
  BY <1>1, <1>2, ScanKept DEF Copying
<1> QED  BY <1>1, <1>3 DEF StorageOK

\* What a return, or a step on, does to the locals.
LEMMA GotoLocals ==
  ASSUME StorageOK, NEW r \in Readers, NEW x, Goto(r, x)
  PROVE  /\ at' = [at EXCEPT ![r] = x]
         /\ scan' = [scan EXCEPT ![r] = IF x = "idle" THEN NoScan ELSE scan[r]]
         /\ (IF x = "idle" THEN NoScan ELSE scan[r]) \in Scans
         /\ DOMAIN req' = Searchers /\ req'[SessionWriter] = req[SessionWriter]
BY SearchersAre, NothingOK DEF Goto, Go, EndLocals, StorageOK

LEMMA FieldOK ==
  ASSUME NEW s \in Sessions, NEW u \in Sessions, NEW k \in 1..6
  PROVE  [s EXCEPT ![Fields[k]] = u[Fields[k]]] \in Sessions
<1>1. \/ Fields[k] = "id" \/ Fields[k] = "first" \/ Fields[k] = "last"
      \/ Fields[k] = "len" \/ Fields[k] = "next" \/ Fields[k] = "done"
  BY DEF Fields
<1>2. [s EXCEPT !["id"] = u["id"]] \in Sessions
  BY DEF Sessions
<1>3. [s EXCEPT !["first"] = u["first"]] \in Sessions
  BY DEF Sessions
<1>4. [s EXCEPT !["last"] = u["last"]] \in Sessions
  BY DEF Sessions
<1>5. [s EXCEPT !["len"] = u["len"]] \in Sessions
  BY DEF Sessions
<1>6. [s EXCEPT !["next"] = u["next"]] \in Sessions
  BY DEF Sessions
<1>7. [s EXCEPT !["done"] = u["done"]] \in Sessions
  BY DEF Sessions
<1> QED  BY <1>1, <1>2, <1>3, <1>4, <1>5, <1>6, <1>7

\* The steps of the readers.
LEMMA ReaderStepOK ==
  ASSUME StorageOK, ScanOK, NEW r \in Readers, SessionReaderStep(r)
  PROVE  StorageOK' /\ ScanOK'
<1> USE DEF ReaderUnchanged
<1>0. /\ r \in Searchers /\ r # SessionWriter /\ scan[r] \in Scans /\ rs[r] \in Sessions
      /\ scan = [scan EXCEPT ![r] = scan[r]] /\ rs = [rs EXCEPT ![r] = rs[r]]
      /\ DOMAIN req = Searchers
      /\ recent \in Sessions /\ recentBlock \in Blocks
  BY SearchersAre DEF StorageOK
<1>1. ASSUME NEW x \in {"idle", "scan", "openCopy", "waitOpen", "prepareRead", "syncRead",
                        "waitRead", "fetch", "back"},
             Goto(r, x), NEW v \in Sessions, rs' = [rs EXCEPT ![r] = v],
             x = "back" => IsValid(v), x = "openCopy" => IsValid(recent),
             UNCHANGED <<disk, ws, wb, log, recent, recentBlock>>
      PROVE  StorageOK' /\ ScanOK'
  <2>1. x \in Labels /\ x \notin InSearch /\ x # "copyNext"
    BY DEF Labels, InSearch
  <2> DEFINE s == IF x = "idle" THEN NoScan ELSE scan[r]
  <2>2. /\ at' = [at EXCEPT ![r] = x] /\ scan' = [scan EXCEPT ![r] = s] /\ s \in Scans
        /\ DOMAIN req' = Searchers /\ req'[SessionWriter] = req[SessionWriter]
    BY <1>1, GotoLocals
  <2> HIDE DEF s
  <2>3. /\ recent' \in Sessions /\ recentBlock' \in Blocks
        /\ IsValid(recent) => IsValid(recent')
        /\ x \in Copying => IsValid(recent')
    BY <1>0, <1>1, <2>1 DEF IsValid, Copying
  <2> QED  BY <1>1, <2>1, <2>2, <2>3, ReaderKept
<1>2. ASSUME NEW s \in Scans, NEW x \in Labels \ (Copying \cup {"back"}),
             at' = [at EXCEPT ![r] = x], scan' = [scan EXCEPT ![r] = s],
             x \in InSearch => s.l \in Numbers /\ s.r \in Numbers,
             DOMAIN req' = Searchers, req'[SessionWriter] = req[SessionWriter],
             recent' \in Sessions, recentBlock' \in Blocks,
             IsValid(recent) => IsValid(recent'),
             UNCHANGED <<disk, ws, wb, log, rs>>
      PROVE  StorageOK' /\ ScanOK'
  BY <1>0, <1>2, ReaderKept DEF Copying
<1>3. ASSUME NEW no, NEW block, NEW x, Ask(r, no, block, x)
      PROVE  /\ at' = [at EXCEPT ![r] = x] /\ DOMAIN req' = Searchers
             /\ req'[SessionWriter] = req[SessionWriter]
  BY <1>0, <1>3 DEF Ask, Go
<1>4. ASSUME IsValid(rs[r]) PROVE rs[r].first \in Numbers
  BY <1>0, <1>4, RingNumbers DEF Sessions, IsValid
<1>5. CASE OpenSession(r)
  <2>1. "prepareOpen" \in Labels \ (Copying \cup {"back"}) /\ "prepareOpen" \notin InSearch
    BY DEF Labels, InSearch, Copying
  <2> QED  BY <1>0, <1>2, <1>3, <1>5, <2>1 DEF OpenSession
<1>6. CASE PrepareOpen(r)
  BY <1>0, <1>1, <1>6 DEF PrepareOpen
<1>7. CASE Install(r)
  <2>1. scan[r].l \in Numbers
    BY <1>7, <1>0 DEF Install, ScanOK
  <2>2. FoundSession(scan[r]) \in Sessions
    BY <1>0, <2>1, FoundSessionOK
  <2>3. [no |-> scan[r].l, id |-> scan[r].left.bid] \in Blocks
    BY <1>0, <2>1 DEF Blocks, Scans, Headers
  <2>4. /\ recent' \in Sessions /\ recentBlock' \in Blocks
        /\ IsValid(recent) => IsValid(recent')
    BY <1>0, <1>7, <2>2, <2>3 DEF Install
  <2>5. /\ at' = [at EXCEPT ![r] = "prepareOpen"] /\ scan' = [scan EXCEPT ![r] = NoScan]
        /\ UNCHANGED <<disk, ws, wb, log, rs, req>>
    BY <1>7 DEF Install, Go
  <2>6. /\ NoScan \in Scans /\ "prepareOpen" \in Labels \ (Copying \cup {"back"})
        /\ "prepareOpen" \notin InSearch
    BY NothingOK DEF Labels, InSearch, Copying
  <2>7. DOMAIN req' = Searchers /\ req'[SessionWriter] = req[SessionWriter]
    BY <1>0, <2>5
  <2> QED  BY <1>2, <2>4, <2>5, <2>6, <2>7
<1>8. CASE SyncOpen(r)
  BY <1>0, <1>1, <1>8 DEF SyncOpen
<1>9. CASE OpenCopy(r)
  <2>1. Goto(r, IF req[r].no \in {NEWEST, recent.id} THEN "idle" ELSE "back")
    BY <1>9 DEF OpenCopy
  <2>2. rs' = [rs EXCEPT ![r] = recent] /\ UNCHANGED <<disk, ws, wb, log, recent, recentBlock>>
    BY <1>9 DEF OpenCopy
  <2>3. at[r] = "openCopy" => IsValid(recent)
    BY DEF ScanOK
  <2> QED  BY <1>0, <1>1, <1>9, <2>1, <2>2, <2>3 DEF OpenCopy
<1>10. CASE Previous(r)
  <2>1. /\ at' = [at EXCEPT ![r] = "back"]
        /\ DOMAIN req' = Searchers /\ req'[SessionWriter] = req[SessionWriter]
    BY <1>3, <1>10 DEF Previous
  <2>2. IsValid(rs[r]) /\ UNCHANGED <<disk, ws, wb, log, recent, recentBlock, rs, scan>>
    BY <1>10 DEF Previous
  <2>3. "back" \in Labels /\ "back" \notin InSearch
    BY DEF Labels, InSearch
  <2>4. IsValid(recent) => IsValid(recent')
    BY <2>2
  <2> QED  BY <1>0, <2>1, <2>2, <2>3, <2>4, ReaderKept DEF Copying
<1>11. CASE Back(r)
  <2> DEFINE p == CircularNumber(rs[r].first, -1)
  <2>1. p \in Numbers
    BY <1>4, <1>11, NumberBefore DEF Back, ScanOK
  <2>2. disk[p] \in Headers
    BY <2>1 DEF StorageOK
  <2> HIDE DEF p
  <2>3. UNCHANGED <<disk, ws, wb, log, recent, recentBlock, rs>>
    BY <1>11 DEF Back
  <2>4. CASE Goto(r, "idle")
    BY <1>0, <1>1, <2>3, <2>4
  <2>5. CASE /\ scan' = [scan EXCEPT ![r] = [NoScan EXCEPT !.l = p, !.left = disk[p]]]
             /\ at' = [at EXCEPT ![r] = "backFirst"] /\ UNCHANGED req
    <3> DEFINE s == [NoScan EXCEPT !.l = p, !.left = disk[p]]
    <3>1. "backFirst" \in Labels \ (Copying \cup {"back"})
      BY DEF Labels, Copying
    <3>2. s \in Scans /\ s.l \in Numbers /\ s.r \in Numbers
      BY <2>1, <2>2, PositionOK
    <3>3. scan' = [scan EXCEPT ![r] = s] /\ at' = [at EXCEPT ![r] = "backFirst"]
      BY <2>5
    <3> HIDE DEF s
    <3> QED  BY <1>0, <1>2, <2>3, <2>5, <3>1, <3>2, <3>3
  <2> QED  BY <1>11, <2>4, <2>5 DEF Back, Go, p
<1>12. CASE BackFirst(r)
  <2> DEFINE v == Extent(scan[r].left.sid, scan[r].left.first, scan[r].l, rs[r].first)
  <2>1. UNCHANGED <<disk, ws, wb, log, recent, recentBlock>>
    BY <1>12 DEF BackFirst
  <2>2. scan[r].l \in Numbers /\ scan[r].left.sid \in Nat /\ scan[r].left.first \in Numbers
        /\ rs[r].first \in Places
    BY <1>12, <1>0 DEF BackFirst, ScanOK, Scans, Headers, Sessions
  <2>3. v \in Sessions /\ IsValid(v)
    BY <2>2, ExtentOK
  <2> HIDE DEF v
  <2>4. CASE Goto(r, "idle") /\ UNCHANGED rs
    BY <1>0, <1>1, <2>1, <2>4
  <2>5. CASE /\ rs' = [rs EXCEPT ![r] = v]
             /\ \/ Goto(r, "idle")
                \/ Goto(r, "back")
    BY <1>1, <2>1, <2>3, <2>5
  <2> QED  BY <1>12, <2>4, <2>5 DEF BackFirst, v
<1>13. CASE NextSession(r)
  <2> DEFINE p == CircularNumber(rs[r].last, 1)
  <2>1. p \in Numbers
    BY <1>0, RingNumbers, NumberBehind DEF Sessions
  <2>2. disk[p] \in Headers
    BY <2>1 DEF StorageOK
  <2>3. /\ scan' = [scan EXCEPT ![r] = [NoScan EXCEPT !.l = p, !.left = disk[p]]]
        /\ at' = [at EXCEPT ![r] = "next"]
        /\ UNCHANGED <<disk, ws, wb, log, recent, recentBlock, rs, req>>
    BY <1>13 DEF NextSession, Go
  <2> HIDE DEF p
  <2> DEFINE s == [NoScan EXCEPT !.l = p, !.left = disk[p]]
  <2>4. "next" \in Labels \ (Copying \cup {"back"})
    BY DEF Labels, Copying
  <2>5. s \in Scans /\ s.l \in Numbers /\ s.r \in Numbers
    BY <2>1, <2>2, PositionOK
  <2>6. scan' = [scan EXCEPT ![r] = s] /\ at' = [at EXCEPT ![r] = "next"]
    BY <2>3
  <2> HIDE DEF s
  <2> QED  BY <1>0, <1>2, <2>3, <2>4, <2>5, <2>6
<1>14. CASE NextFirst(r)
  <2> DEFINE h == scan[r].left
             p == scan[r].l
  <2>1. UNCHANGED <<disk, ws, wb, log, recent, recentBlock>>
    BY <1>14 DEF NextFirst
  <2>2. p \in Numbers /\ h.sid \in Nat /\ h.next \in Places
    BY <1>14, <1>0 DEF NextFirst, ScanOK, Scans, Headers
  <2>3. CASE /\ h.next # INVALID
             /\ rs' = [rs EXCEPT ![r] = Extent(h.sid, p, CircularNumber(h.next, -1), h.next)]
             /\ Goto(r, "idle")
    <3>1. CircularNumber(h.next, -1) \in Numbers
      BY <2>2, <2>3, RingNumbers, NumberBefore
    <3>2. Extent(h.sid, p, CircularNumber(h.next, -1), h.next) \in Sessions
      BY <2>2, <3>1, ExtentOK
    <3> QED  BY <1>1, <2>1, <2>3, <3>2
  <2>4. CASE /\ IsValid(recent)
             /\ scan' = [scan EXCEPT ![r] = [NoScan EXCEPT !.l = 1]]
             /\ at' = [at EXCEPT ![r] = "copyNext"]
             /\ UNCHANGED <<rs, req>>
    <3>1. "copyNext" \in Labels /\ "copyNext" \notin InSearch
      BY DEF Labels, InSearch
    <3> DEFINE s == [NoScan EXCEPT !.l = 1]
    <3>2. s \in Scans /\ s.l = 1
      <4>1. 1 \in 0..StorageSize + 6
        BY RingNumbers
      <4> QED  BY <4>1, PositionOK
    <3>3. scan' = [scan EXCEPT ![r] = s] /\ at' = [at EXCEPT ![r] = "copyNext"]
      BY <2>4
    <3>4. rs' = [rs EXCEPT ![r] = rs[r]] /\ IsValid(recent')
      BY <1>0, <2>1, <2>4
    <3> HIDE DEF s
    <3>5. s.l \in 1..6
      BY <3>2
    <3>6. /\ DOMAIN req' = Searchers /\ req'[SessionWriter] = req[SessionWriter]
          /\ recent' \in Sessions /\ recentBlock' \in Blocks
          /\ UNCHANGED <<disk, ws, wb, log>>
      BY <1>0, <2>1, <2>4
    <3> DEFINE v == rs[r]
    <3>7. v \in Sessions /\ rs' = [rs EXCEPT ![r] = v] /\ IsValid(recent')
      BY <1>0, <3>4
    <3> HIDE DEF v
    <3> QED  BY <3>1, <3>2, <3>3, <3>5, <3>6, <3>7, ReaderKept
  <2>5. CASE rs' = [rs EXCEPT ![r] = NewSession(h.sid, p)] /\ Goto(r, "idle")
    BY <1>1, <2>1, <2>2, <2>5, NewSessionOK
  <2> QED  BY <1>14, <2>3, <2>4, <2>5 DEF NextFirst, Go
<1>15. CASE CopyNext(r)
  <2> DEFINE k == scan[r].l
             v == [rs[r] EXCEPT ![Fields[k]] = recent[Fields[k]]]
  <2>1. k \in 1..6
    BY <1>15, <1>0 DEF CopyNext, ScanOK
  <2>2. v \in Sessions
    BY <1>0, <2>1, FieldOK
  <2>3. rs' = [rs EXCEPT ![r] = v] /\ UNCHANGED <<disk, ws, wb, log, recent, recentBlock>>
    BY <1>15 DEF CopyNext
  <2>4. CASE Goto(r, "idle")
    <3> HIDE DEF v
    <3> QED  BY <1>1, <2>2, <2>3, <2>4
  <2>5. CASE k # 6 /\ scan' = [scan EXCEPT ![r].l = k + 1] /\ UNCHANGED <<at, req>>
    <3>8. k + 1 \in 0..StorageSize + 6
      BY <2>1, RingNumbers
    <3>1. [scan[r] EXCEPT !.l = k + 1] \in Scans /\ [scan[r] EXCEPT !.l = k + 1].l = k + 1
      <4> HIDE DEF k
      <4> QED  BY <1>0, <3>8 DEF Scans
    <3>2. scan' = [scan EXCEPT ![r] = [scan[r] EXCEPT !.l = k + 1]]
      BY <2>5
    <3>3. at' = [at EXCEPT ![r] = "copyNext"] /\ "copyNext" \in Labels /\ "copyNext" \notin InSearch
      BY <1>15, <2>5 DEF CopyNext, StorageOK, Labels, InSearch
    <3>4. k + 1 \in 1..6
      BY <2>1, <2>5
    <3> DEFINE s == [scan[r] EXCEPT !.l = k + 1]
    <3>5. s \in Scans /\ s.l = k + 1 /\ scan' = [scan EXCEPT ![r] = s]
      BY <3>1, <3>2
    <3>7. IsValid(recent) /\ IsValid(recent')
      BY <1>15, <2>3 DEF CopyNext, ScanOK
    <3>6. s.l \in 1..6
      <4> HIDE DEF s, k
      <4> QED  BY <3>4, <3>5
    <3> HIDE DEF v, k, s
    <3> QED  BY <1>0, <3>5, <3>6, <3>7, <2>2, <2>3, <2>5, <3>3, ReaderKept
  <2>6. Len(Fields) = 6
    BY DEF Fields
  <2> QED  BY <1>15, <2>4, <2>5, <2>6 DEF CopyNext
<1>16. CASE ReadBlock(r)
  <2>1. PICK no \in BlocksAsked :
          /\ at' = [at EXCEPT ![r] = "prepareRead"] /\ DOMAIN req' = Searchers
          /\ req'[SessionWriter] = req[SessionWriter]
          /\ scan' = [scan EXCEPT ![r] = [NoScan EXCEPT !.l = CircularNumber(rs[r].first, no)]]
    BY <1>3, <1>16 DEF ReadBlock
  <2>2. CircularNumber(rs[r].first, no) \in 0..StorageSize + 6
    <3>1. CircularNumber(rs[r].first, no) \in Numbers
      BY <1>4, <1>16, RequestsAssumption, NumberOfBlock DEF ReadBlock
    <3> QED  BY <3>1, RingNumbers DEF Numbers
  <2>3. UNCHANGED <<disk, ws, wb, log, recent, recentBlock, rs>>
    BY <1>16 DEF ReadBlock
  <2>4. "prepareRead" \in Labels \ (Copying \cup {"back"}) /\ "prepareRead" \notin InSearch
    BY DEF Labels, InSearch, Copying
  <2> DEFINE s == [NoScan EXCEPT !.l = CircularNumber(rs[r].first, no)]
  <2>5. s \in Scans /\ scan' = [scan EXCEPT ![r] = s]
    BY <2>1, <2>2, PositionOK
  <2> HIDE DEF s
  <2> QED  BY <1>0, <1>2, <2>1, <2>3, <2>4, <2>5
<1>17. CASE PrepareRead(r)
  BY <1>0, <1>1, <1>17 DEF PrepareRead
<1>18. CASE SyncRead(r)
  <2>1. UNCHANGED <<disk, ws, wb, log, recent, recentBlock>>
    BY <1>18 DEF SyncRead
  <2>2. \/ Goto(r, "prepareRead") /\ UNCHANGED rs
        \/ /\ rs' = [rs EXCEPT ![r] = recent]
           /\ Goto(r, "fetch") \/ Goto(r, "waitRead") \/ Goto(r, "idle")
    BY <1>18 DEF SyncRead
  <2> QED  BY <1>0, <1>1, <2>1, <2>2
<1>19. CASE Fetch(r)
  BY <1>0, <1>1, <1>19 DEF Fetch
<1> QED
  BY <1>5, <1>6, <1>7, <1>8, <1>9, <1>10, <1>11, <1>12, <1>13, <1>14, <1>15, <1>16, <1>17,
     <1>18, <1>19 DEF SessionReaderStep

LEMMA StorageStepOK ==
  ASSUME StorageOK, ScanOK, [StorageNext]_storageVars
  PROVE  StorageOK' /\ ScanOK'
<1>1. CASE UNCHANGED storageVars
  BY <1>1 DEF storageVars, StorageOK, ScanOK, IsValid
<1> QED
  BY <1>1, WriterStepOK, ReaderStepOK, ScanStepOK, RestartOK DEF StorageNext

(***************************************************************************)
(* Notifications.  A reader that found the storage empty is right as long  *)
(* as nothing is in the cache, and one that reads a session has something  *)
(* in the cache; so what another reader installs changes no condition that *)
(* somebody waits for.                                                     *)
(***************************************************************************)

RequestsOK == req \in [Searchers -> [no : Nat, block : BOOLEAN]]

Searching == {"scanLast", "halve", "forward", "found"}
InSession == {"backFirst", "next", "copyNext", "prepareRead", "syncRead", "waitRead"}
InEmpty == {"syncOpen", "waitOpen"}
WithCache == {"copy", "notify", "notifyClosed", "open", "written", "closing"}

CachedOK ==
  /\ at[SessionWriter] \in WithCache => IsValid(recent)
  /\ \A r \in Readers : IsValid(rs[r]) => IsValid(recent)
  /\ \A r \in Readers : at[r] \in InSession => IsValid(rs[r])
  /\ \A t \in Searchers : at[t] \in Searching => disk[0].magic
  /\ \A r \in Readers : at[r] \in InEmpty /\ ~IsValid(recent) => ~disk[0].magic

\* What a waiting reader knows, unless the writer is about to notify.
WaitsOn(r) ==
  /\ at[r] = "waitRead" =>
       recent.id = rs[r].id /\ req[r].no >= CircularLength(recent.last, recent.first)
  /\ at[r] = "waitOpen" /\ req[r].no # NEWEST => ~IsValid(recent) \/ req[r].no > recent.id

LEMMA NotificationByReader ==
  NoMissedNotification <=>
    \A r \in Readers : at[SessionWriter] \in {"notify", "notifyClosed"} \/ WaitsOn(r)
BY DEF NoMissedNotification, WaitsOn

LEMMA RequestsStep ==
  ASSUME RequestsOK, [StorageNext]_storageVars
  PROVE  RequestsOK'
<1>1. NoRequest \in [no : Nat, block : BOOLEAN]
  BY DEF NoRequest
<1>2. ASSUME NEW t \in Searchers PROVE EndLocals(t) => RequestsOK'
  BY <1>1 DEF EndLocals, RequestsOK
<1>3. UNCHANGED req => RequestsOK'
  BY DEF RequestsOK
<1>4. ASSUME NEW r \in Readers, NEW x, Goto(r, x) PROVE RequestsOK'
  BY <1>2, <1>3, <1>4, SearchersAre DEF Goto
<1>5. ASSUME NEW r \in Readers, NEW no \in Nat, NEW block \in BOOLEAN, NEW x, Ask(r, no, block, x)
      PROVE  RequestsOK'
  BY <1>5, SearchersAre DEF Ask, RequestsOK
<1>6. ASSUME NEW r \in Readers, SessionReaderStep(r) PROVE RequestsOK'
  <2>1. CASE OpenSession(r) \/ Previous(r) \/ ReadBlock(r)
    BY <2>1, <1>5, RequestsAssumption DEF OpenSession, Previous, ReadBlock, NEWEST
  <2>2. CASE \/ PrepareOpen(r) \/ SyncOpen(r) \/ OpenCopy(r) \/ BackFirst(r)
             \/ PrepareRead(r) \/ SyncRead(r) \/ Fetch(r)
    BY <2>2, <1>4 DEF PrepareOpen, SyncOpen, OpenCopy, BackFirst, PrepareRead, SyncRead, Fetch
  <2>3. CASE Install(r) \/ NextSession(r)
    BY <2>3, <1>3 DEF Install, NextSession
  <2>4. CASE Back(r) \/ NextFirst(r) \/ CopyNext(r)
    BY <2>4, <1>3, <1>4 DEF Back, NextFirst, CopyNext
  <2> QED  BY <1>6, <2>1, <2>2, <2>3, <2>4 DEF SessionReaderStep
<1>7. CASE SessionWriterStep
  <2>1. ASSUME NEW sid \in Asked, Create(sid) PROVE RequestsOK'
    <3>1. req[SessionWriter] \in [no : Nat, block : BOOLEAN] /\ sid \in Nat
      BY SearchersAre, RequestsAssumption DEF RequestsOK
    <3>2. [req[SessionWriter] EXCEPT !.no = sid] \in [no : Nat, block : BOOLEAN]
      BY <3>1
    <3>3. req' = [req EXCEPT ![SessionWriter] = [req[SessionWriter] EXCEPT !.no = sid]]
      BY <2>1 DEF Create
    <3> QED  BY <3>2, <3>3 DEF RequestsOK
  <2>2. CASE CreateFirst \/ CreateAfterSearch \/ CreateAfterCached
    BY <2>2, <1>2, SearchersAre DEF CreateFirst, CreateAfterSearch, CreateAfterCached
  <2>3. CASE Publish \/ NotifyWaiting \/ WriteBlock \/ Record \/ CloseSession \/ Closed
    BY <2>3, <1>3 DEF Publish, NotifyWaiting, WriteBlock, Record, CloseSession, Closed
  <2> QED  BY <1>7, <2>1, <2>2, <2>3 DEF SessionWriterStep
<1>8. ASSUME NEW t \in Searchers, Scan(t) PROVE RequestsOK'
  BY <1>3, <1>8 DEF Scan, ScanFirst, ScanLast, ScanHalve, ScanForward, ScanUnchanged
<1>9. CASE Restart
  BY <1>1, <1>9 DEF Restart, RequestsOK
<1>10. CASE UNCHANGED storageVars
  BY <1>3, <1>10 DEF storageVars
<1> QED  BY <1>6, <1>7, <1>8, <1>9, <1>10 DEF StorageNext

LEMMA CachedKept ==
  ASSUME StorageOK, CachedOK, NEW t \in Searchers, NEW x, at' = [at EXCEPT ![t] = x],
         IsValid(recent) => IsValid(recent'),
         disk[0].magic => disk'[0].magic,
         disk'[0].magic => disk[0].magic \/ IsValid(recent'),
         t = SessionWriter /\ x \in WithCache => IsValid(recent'),
         \A r \in Readers :
           IF r = t THEN /\ IsValid(rs'[r]) => IsValid(recent')
                         /\ x \in InSession => IsValid(rs'[r])
           ELSE rs'[r] = rs[r],
         x \in Searching => disk'[0].magic,
         t \in Readers /\ x \in InEmpty /\ ~IsValid(recent') => ~disk'[0].magic
  PROVE  CachedOK'
<1>1. at'[t] = x /\ \A u \in Searchers \ {t} : at'[u] = at[u]
  BY DEF StorageOK
<1>2. at'[SessionWriter] \in WithCache => IsValid(recent')
  BY <1>1, SearchersAre DEF CachedOK
<1>3. ASSUME NEW r \in Readers
      PROVE  /\ IsValid(rs'[r]) => IsValid(recent')
             /\ at'[r] \in InSession => IsValid(rs'[r])
  BY <1>1, SearchersAre DEF CachedOK, IsValid
<1>4. ASSUME NEW u \in Searchers PROVE at'[u] \in Searching => disk'[0].magic
  BY <1>1 DEF CachedOK
<1>5. ASSUME NEW r \in Readers, at'[r] \in InEmpty, ~IsValid(recent') PROVE ~disk'[0].magic
  BY <1>1, <1>5, SearchersAre DEF CachedOK
<1> QED
  BY <1>2, <1>3, <1>4, <1>5 DEF CachedOK, IsValid

Informed == CachedOK /\ NoMissedNotification

LEMMA NotifiedInit ==
  ASSUME StorageInit
  PROVE  RequestsOK /\ Informed
<1> USE DEF StorageInit, RamAtStart
<1>1. RequestsOK
  BY DEF RequestsOK, NoRequest
<1>2. CachedOK
  BY SearchersAre, NothingOK DEF CachedOK, WithCache, InSession, Searching, InEmpty
<1>3. NoMissedNotification
  BY SearchersAre DEF NoMissedNotification
<1> QED  BY <1>1, <1>2, <1>3 DEF Informed

\* Nobody's condition changes when a thread that does not wait moves, and the
\* cache stays.
LEMMA WaitsKept ==
  ASSUME StorageOK, NoMissedNotification, NEW t \in Searchers, NEW x,
         at' = [at EXCEPT ![t] = x], x \notin {"waitRead", "waitOpen"},
         at[SessionWriter] \notin {"notify", "notifyClosed"} \/ t # SessionWriter,
         \A r \in Readers \ {t} : rs'[r] = rs[r] /\ req'[r] = req[r],
         recent' = recent
  PROVE  NoMissedNotification'
<1>1. at'[t] = x /\ \A u \in Searchers \ {t} : at'[u] = at[u]
  BY DEF StorageOK
<1>2. ASSUME NEW r \in Readers
      PROVE  at'[SessionWriter] \in {"notify", "notifyClosed"} \/ WaitsOn(r)'
  <2>1. CASE r = t
    BY <1>1, <2>1 DEF WaitsOn
  <2>2. CASE r # t /\ at[SessionWriter] \notin {"notify", "notifyClosed"}
    <3>1. WaitsOn(r)
      BY <2>2, NotificationByReader
    <3>2. at'[r] = at[r] /\ rs'[r] = rs[r] /\ req'[r] = req[r]
      BY <1>1, <2>2, SearchersAre
    <3> QED  BY <3>1, <3>2 DEF WaitsOn, IsValid
  <2>3. CASE r # t /\ at[SessionWriter] \in {"notify", "notifyClosed"}
    BY <1>1, <2>3, SearchersAre
  <2> QED  BY <2>1, <2>2, <2>3
<1>3. NoMissedNotification' <=>
        \A r \in Readers : at'[SessionWriter] \in {"notify", "notifyClosed"} \/ WaitsOn(r)'
  BY DEF NoMissedNotification, WaitsOn
<1> QED  BY <1>2, <1>3

LEMMA NotifiedByScan ==
  ASSUME StorageOK, ScanOK, Informed, NEW t \in Searchers, Scan(t)
  PROVE  Informed'
<1>1. /\ UNCHANGED <<disk, recent, rs, req>>
      /\ at[t] \in {"scan", "scanLast", "halve", "forward"}
  BY DEF Scan, ScanFirst, ScanLast, ScanHalve, ScanForward, ScanUnchanged
<1>2. PICK x \in {"scanLast", "notFound", "syncOpen", "forward", "halve", "found"} :
        /\ at' = [at EXCEPT ![t] = x]
        /\ x \in Searching => disk[0].magic
        /\ x = "notFound" => t = SessionWriter
        /\ x = "syncOpen" => ~disk[0].magic
  <2>1. CASE ScanFirst(t)
    BY <2>1 DEF ScanFirst, Go, Searching
  <2>2. CASE ~ScanFirst(t)
    <3>1. \E x \in {"forward", "halve", "found"} : at' = [at EXCEPT ![t] = x]
      <4>1. CASE ScanHalve(t)
        <5>1. at = [at EXCEPT ![t] = "halve"]
          BY <4>1 DEF ScanHalve, StorageOK
        <5> QED  BY <4>1, <5>1 DEF ScanHalve, Go
      <4>2. CASE ScanLast(t) \/ ScanForward(t)
        BY <4>2 DEF ScanLast, ScanForward, Go
      <4> QED  BY <2>2, <4>1, <4>2 DEF Scan
    <3>2. at[t] \in Searching
      BY <2>2 DEF Scan, ScanLast, ScanHalve, ScanForward, Searching
    <3>3. disk[0].magic
      BY <3>2 DEF Informed, CachedOK
    <3> QED  BY <3>1, <3>3
  <2> QED  BY <2>1, <2>2
<1>3. x \notin InSession /\ x \notin WithCache /\ (x \in InEmpty => x = "syncOpen")
  BY DEF InSession, WithCache, InEmpty
<1>4. \A r \in Readers : IsValid(rs[r]) => IsValid(recent)
  BY DEF Informed, CachedOK
<1>5. CachedOK'
  BY <1>1, <1>2, <1>3, <1>4, CachedKept DEF Informed, IsValid
<1>6. NoMissedNotification'
  <2>1. x \notin {"waitRead", "waitOpen"}
    OBVIOUS
  <2>2. at[SessionWriter] \notin {"notify", "notifyClosed"} \/ t # SessionWriter
    BY <1>1
  <2> QED  BY <1>1, <1>2, <2>1, <2>2, WaitsKept DEF Informed
<1> QED  BY <1>5, <1>6 DEF Informed

\* A written block, and a reference set, take no block away.
LEMMA MagicKept ==
  ASSUME NEW d \in [Numbers -> Headers], NEW p, NEW x
  PROVE  SetForward(d, p, x)[0].magic = d[0].magic
<1>1. 0 \in Numbers /\ d[0] \in Headers
  BY RingNumbers
<1>2. [d[0] EXCEPT !.next = x].magic = d[0].magic
  BY <1>1 DEF Headers
<1> QED  BY <1>1, <1>2 DEF SetForward

LEMMA NotifiedByWriter ==
  ASSUME StorageOK, ScanOK, Informed, SessionWriterStep, StorageOK'
  PROVE  Informed'
<1> DEFINE W == SessionWriter
<1>0. /\ disk \in [Numbers -> Headers] /\ W \in Searchers /\ W \notin Readers
      /\ \A r \in Readers : IsValid(rs[r]) => IsValid(recent)
  BY SearchersAre DEF StorageOK, Informed, CachedOK
<1>1. ASSUME NEW x, at' = [at EXCEPT ![W] = x], UNCHANGED rs,
             IsValid(recent) => IsValid(recent'),
             disk[0].magic => disk'[0].magic, disk'[0].magic => disk[0].magic \/ IsValid(recent'),
             x \in WithCache => IsValid(recent'), x \notin Searching
      PROVE  CachedOK'
  BY <1>0, <1>1, CachedKept DEF Informed, IsValid
<1>2. ASSUME NEW x, at' = [at EXCEPT ![W] = x], UNCHANGED <<rs, recent>>,
             \A r \in Readers : req'[r] = req[r],
             at[W] \notin {"notify", "notifyClosed"}, x \notin {"waitRead", "waitOpen"}
      PROVE  NoMissedNotification'
  BY <1>0, <1>2, WaitsKept DEF Informed
<1>3. ASSUME NEW x \in {"notify", "notifyClosed"}, at' = [at EXCEPT ![W] = x]
      PROVE  NoMissedNotification'
  <2>1. at'[W] = x
    BY <1>0, <1>3 DEF StorageOK
  <2> QED  BY <2>1 DEF NoMissedNotification
<1>4. ASSUME NEW sid \in Asked, Create(sid) PROVE Informed'
  <2>1. PICK x \in {"copy", "scan"} : at' = [at EXCEPT ![W] = x] /\ (x = "copy" => IsValid(recent))
    BY <1>4 DEF Create, Go
  <2>2. /\ UNCHANGED <<disk, rs, recent>> /\ \A r \in Readers : req'[r] = req[r]
        /\ at[W] \notin {"notify", "notifyClosed"}
    BY <1>0, <1>4 DEF Create
  <2>3. x \notin Searching /\ (x \in WithCache => x = "copy") /\ x \notin {"waitRead", "waitOpen"}
    BY DEF Searching, WithCache
  <2>4. CachedOK'
    BY <1>1, <2>1, <2>2, <2>3 DEF IsValid
  <2>5. NoMissedNotification'
    BY <1>2, <2>1, <2>2, <2>3
  <2> QED  BY <2>4, <2>5 DEF Informed
<1>5. CASE CreateFirst \/ CreateAfterSearch \/ CreateAfterCached
  <2>1. PICK x \in {"publish", "closed"} : at' = [at EXCEPT ![W] = x]
    BY <1>5 DEF CreateFirst, CreateAfterSearch, CreateAfterCached, Go
  <2>2. /\ UNCHANGED <<rs, recent>> /\ req' = [req EXCEPT ![W] = NoRequest]
        /\ at[W] \notin {"notify", "notifyClosed"}
    BY <1>5 DEF CreateFirst, CreateAfterSearch, CreateAfterCached, EndLocals
  <2>3. disk'[0].magic = disk[0].magic
    <3>1. UNCHANGED disk \/ \E p, n : disk' = SetForward(disk, p, n)
      BY <1>5 DEF CreateFirst, CreateAfterSearch, CreateAfterCached
    <3> QED  BY <1>0, <3>1, MagicKept
  <2>4. x \notin Searching /\ x \notin WithCache /\ x \notin {"waitRead", "waitOpen"}
    BY DEF Searching, WithCache
  <2>5. \A r \in Readers : req'[r] = req[r]
    BY <1>0, <2>2 DEF StorageOK
  <2>6. CachedOK'
    BY <1>1, <2>1, <2>2, <2>3, <2>4 DEF IsValid
  <2>7. NoMissedNotification'
    BY <1>2, <2>1, <2>2, <2>4, <2>5
  <2> QED  BY <2>6, <2>7 DEF Informed
<1>6. "notify" \notin Searching /\ "notifyClosed" \notin Searching
  BY DEF Searching
<1>7. CASE Publish
  <2>1. at' = [at EXCEPT ![W] = "notify"] /\ recent' = ws /\ UNCHANGED <<disk, rs>> /\ IsValid(ws)
    BY <1>7 DEF Publish, Go, ScanOK
  <2>2. CachedOK'
    BY <1>1, <1>6, <2>1 DEF IsValid
  <2> QED  BY <1>3, <2>1, <2>2 DEF Informed
<1>8. CASE NotifyWaiting
  <2>1. /\ at[W] \in {"notify", "notifyClosed"}
        /\ NotifyReaders(IF at[W] = "notify" THEN "open" ELSE "closed")
        /\ UNCHANGED <<disk, recent, rs, req>>
    BY <1>8 DEF NotifyWaiting
  <2>2. IsValid(recent) /\ at'[W] \in {"open", "closed"}
    BY <1>0, <2>1 DEF Informed, CachedOK, WithCache, NotifyReaders
  <2>3. \A r \in Readers :
          /\ at'[r] \notin {"waitOpen", "waitRead"}
          /\ at'[r] = at[r] \/ (at[r] = "waitOpen" /\ at'[r] = "prepareOpen")
             \/ (at[r] = "waitRead" /\ at'[r] = "prepareRead")
    BY <1>0, <2>1, SearchersAre DEF NotifyReaders
  <2>4. \A u \in Searchers : at'[u] \in Searching => at[u] \in Searching
    <3>1. \A u \in Searchers : u = W \/ u \in Readers
      BY DEF Searchers
    <3> QED  BY <2>2, <2>3, <3>1 DEF Searching
  <2>5. \A r \in Readers : at'[r] \in InSession => at[r] \in InSession
    BY <2>3 DEF InSession
  <2>6. CachedOK'
    BY <2>1, <2>2, <2>4, <2>5 DEF Informed, CachedOK, IsValid
  <2>7. NoMissedNotification'
    BY <2>3 DEF NoMissedNotification
  <2> QED  BY <2>6, <2>7 DEF Informed
<1>9. CASE WriteBlock
  <2>1. /\ at' = [at EXCEPT ![W] = "written"] /\ at[W] = "open" /\ UNCHANGED <<recent, rs, req>>
        /\ disk' = [disk EXCEPT ![wb.no] = [magic |-> TRUE, sid |-> ws.id, first |-> ws.first,
                                            bid |-> wb.id, next |-> INVALID]]
    BY <1>9 DEF WriteBlock, Go
  <2>2. disk[0].magic => disk'[0].magic
    BY <1>0, <2>1, RingNumbers
  <2>3. IsValid(recent)
    BY <2>1 DEF Informed, CachedOK, WithCache
  <2>4. "written" \notin Searching /\ "written" \notin {"waitRead", "waitOpen"}
    BY DEF Searching
  <2>5. CachedOK'
    BY <1>1, <2>1, <2>2, <2>3, <2>4 DEF IsValid
  <2>6. NoMissedNotification'
    BY <1>2, <2>1, <2>4
  <2> QED  BY <2>5, <2>6 DEF Informed
<1>10. CASE Record \/ Closed
  <2>1. at[W] \in {"written", "closing"} /\ UNCHANGED <<disk, rs>>
    BY <1>10 DEF Record, Closed
  <2>2. PICK x \in {"notify", "notifyClosed"} : at' = [at EXCEPT ![W] = x]
    BY <1>10 DEF Record, Closed, Go
  <2>3. IsValid(recent)
    BY <2>1 DEF Informed, CachedOK, WithCache
  <2>4. recent'.first = recent.first
    <3>1. recent \in Sessions
      BY DEF StorageOK
    <3> QED  BY <1>10, <3>1 DEF Record, Closed, Sessions
  <2>5. IsValid(recent')
    BY <2>3, <2>4 DEF IsValid
  <2>6. CachedOK'
    BY <1>1, <1>6, <2>1, <2>2, <2>5
  <2> QED  BY <1>3, <2>2, <2>6 DEF Informed
<1>11. CASE CloseSession
  <2>1. /\ at' = [at EXCEPT ![W] = "closing"] /\ at[W] = "open" /\ UNCHANGED <<recent, rs, req>>
        /\ disk' = SetForward(disk, ws.first, wb.no)
    BY <1>11 DEF CloseSession, Go
  <2>2. disk'[0].magic = disk[0].magic
    BY <1>0, <2>1, MagicKept
  <2>3. IsValid(recent)
    BY <2>1 DEF Informed, CachedOK, WithCache
  <2>4. "closing" \notin Searching /\ "closing" \notin {"waitRead", "waitOpen"}
    BY DEF Searching
  <2>5. CachedOK'
    BY <1>1, <2>1, <2>2, <2>3, <2>4 DEF IsValid
  <2>6. NoMissedNotification'
    BY <1>2, <2>1, <2>4
  <2> QED  BY <2>5, <2>6 DEF Informed
<1> QED
  BY <1>4, <1>5, <1>7, <1>8, <1>9, <1>10, <1>11 DEF SessionWriterStep

\* A step of a reader that leaves the cache alone.
LEMMA ReaderNotified ==
  ASSUME StorageOK, Informed, NEW r \in Readers, NEW x, NEW v,
         at' = [at EXCEPT ![r] = x], rs' = [rs EXCEPT ![r] = v],
         UNCHANGED <<disk, recent>>, \A q \in Readers \ {r} : req'[q] = req[q],
         x \notin Searching,
         IsValid(v) => IsValid(recent), x \in InSession => IsValid(v),
         x \in InEmpty /\ ~IsValid(recent) => ~disk[0].magic,
         x = "waitRead" =>
           recent.id = v.id /\ req'[r].no >= CircularLength(recent.last, recent.first),
         x = "waitOpen" /\ req'[r].no # NEWEST => ~IsValid(recent) \/ req'[r].no > recent.id
  PROVE  Informed'
<1>1. /\ rs'[r] = v /\ \A q \in Readers \ {r} : rs'[q] = rs[q]
      /\ at'[r] = x /\ \A u \in Searchers \ {r} : at'[u] = at[u]
      /\ r \in Searchers /\ r # SessionWriter
  BY SearchersAre DEF StorageOK
<1>2. CachedOK'
  <2>1. IsValid(recent') <=> IsValid(recent)
    BY DEF IsValid
  <2>2. \A q \in Readers :
          IF q = r THEN /\ IsValid(rs'[q]) => IsValid(recent')
                        /\ x \in InSession => IsValid(rs'[q])
          ELSE rs'[q] = rs[q]
    BY <1>1, <2>1
  <2>3. CachedOK /\ (x \notin Searching)
    BY DEF Informed
  <2> QED  BY <1>1, <2>1, <2>2, <2>3, CachedKept
<1>3. ASSUME NEW q \in Readers
      PROVE  at'[SessionWriter] \in {"notify", "notifyClosed"} \/ WaitsOn(q)'
  <2>1. CASE q = r
    BY <1>1, <2>1 DEF WaitsOn, IsValid
  <2>2. CASE q # r
    <3>1. at[SessionWriter] \in {"notify", "notifyClosed"} \/ WaitsOn(q)
      BY NotificationByReader DEF Informed
    <3>2. /\ at'[q] = at[q] /\ rs'[q] = rs[q] /\ req'[q] = req[q]
          /\ at'[SessionWriter] = at[SessionWriter]
      BY <1>1, <2>2, SearchersAre
    <3> QED  BY <3>1, <3>2 DEF WaitsOn, IsValid
  <2> QED  BY <2>1, <2>2
<1>4. NoMissedNotification' <=>
        \A q \in Readers : at'[SessionWriter] \in {"notify", "notifyClosed"} \/ WaitsOn(q)'
  BY DEF NoMissedNotification, WaitsOn
<1> QED  BY <1>2, <1>3, <1>4 DEF Informed

LEMMA NotifiedByReader ==
  ASSUME StorageOK, ScanOK, RequestsOK, Informed, NEW r \in Readers, SessionReaderStep(r),
         StorageOK'
  PROVE  Informed'
<1> USE DEF ReaderUnchanged
<1>0. /\ r \in Searchers /\ r # SessionWriter /\ rs[r] \in Sessions
      /\ rs = [rs EXCEPT ![r] = rs[r]] /\ recent \in Sessions
      /\ req[r].no \in Nat /\ req = [req EXCEPT ![r] = req[r]]
      /\ IsValid(rs[r]) => IsValid(recent)
      /\ at[r] \in InSession => IsValid(rs[r])
      /\ at[r] \in {"openCopy", "copyNext"} => IsValid(recent)
      /\ at[r] = "back" => IsValid(rs[r])
  BY SearchersAre DEF StorageOK, RequestsOK, Informed, CachedOK, ScanOK
\* Where it neither waits nor searches.
<1>1. ASSUME NEW x, x \notin {"waitRead", "waitOpen", "syncOpen"} \cup Searching,
             NEW v, NEW q,
             at' = [at EXCEPT ![r] = x], rs' = [rs EXCEPT ![r] = v],
             UNCHANGED <<disk, recent>>, req' = [req EXCEPT ![r] = q],
             IsValid(v) => IsValid(recent), x \in InSession => IsValid(v)
      PROVE  Informed'
  <2>1. \A p \in Readers \ {r} : req'[p] = req[p]
    BY <1>1, SearchersAre DEF RequestsOK
  <2>2. x \notin InEmpty
    BY <1>1 DEF InEmpty
  <2> QED  BY <1>1, <2>1, <2>2, ReaderNotified
<1>2. ASSUME NEW x, Goto(r, x)
      PROVE  at' = [at EXCEPT ![r] = x] /\ \E q : req' = [req EXCEPT ![r] = q]
  BY <1>0, <1>2 DEF Goto, Go, EndLocals
<1>3. /\ {"idle", "scan", "fetch", "prepareOpen", "openCopy", "back", "backFirst", "next",
           "copyNext", "prepareRead", "syncRead"}
            \cap ({"waitRead", "waitOpen", "syncOpen"} \cup Searching) = {}
      /\ {"idle", "scan", "fetch", "prepareOpen", "openCopy", "back"} \cap InSession = {}
      /\ {"backFirst", "next", "copyNext", "prepareRead", "syncRead", "waitRead"} \subseteq InSession
  BY DEF Searching, InSession
<1>4. CASE OpenSession(r)
  <2>1. at' = [at EXCEPT ![r] = "prepareOpen"] /\ \E q : req' = [req EXCEPT ![r] = q]
    BY <1>4 DEF OpenSession, Ask, Go
  <2>2. rs' = [rs EXCEPT ![r] = rs[r]] /\ UNCHANGED <<disk, recent>>
    BY <1>0, <1>4 DEF OpenSession
  <2> QED  BY <1>0, <1>1, <1>3, <2>1, <2>2
<1>5. CASE PrepareOpen(r)
  <2>1. PICK x \in {"scan", "idle", "openCopy"} : Goto(r, x)
    BY <1>5 DEF PrepareOpen
  <2>2. rs' = [rs EXCEPT ![r] = rs[r]] /\ UNCHANGED <<disk, recent>>
    BY <1>0, <1>5 DEF PrepareOpen
  <2> QED  BY <1>0, <1>1, <1>2, <1>3, <2>1, <2>2
<1>6. CASE Install(r) /\ IsValid(recent)
  <2>1. at' = [at EXCEPT ![r] = "prepareOpen"] /\ req' = [req EXCEPT ![r] = req[r]]
    BY <1>0, <1>6 DEF Install, Go
  <2>2. rs' = [rs EXCEPT ![r] = rs[r]] /\ UNCHANGED <<disk, recent>>
    BY <1>0, <1>6 DEF Install
  <2> QED  BY <1>0, <1>1, <1>3, <2>1, <2>2
<1>7. CASE Install(r) /\ ~IsValid(recent)
  <2>1. /\ at' = [at EXCEPT ![r] = "prepareOpen"] /\ at[r] = "found"
        /\ UNCHANGED <<disk, rs, req>>
    BY <1>7 DEF Install, Go
  <2>2. disk[0].magic
    BY <1>0, <2>1 DEF Informed, CachedOK, Searching
  <2>3. /\ \A q \in Readers : ~IsValid(rs[q])
        /\ \A q \in Readers : at[q] \notin InSession \cup InEmpty
    BY <1>7, <2>2 DEF Informed, CachedOK
  <2>4. CachedOK'
    <3>1. "prepareOpen" \notin InSession \cup InEmpty \cup Searching
      BY DEF InSession, InEmpty, Searching
    <3>2. \A q \in Readers : IsValid(rs'[q]) => IsValid(recent')
      BY <2>1, <2>3 DEF IsValid
    <3>3. IsValid(recent) => IsValid(recent')
      BY <1>7
    <3> QED  BY <1>0, <2>1, <3>1, <3>2, <3>3, CachedKept DEF Informed
  <2>5. \A q \in Readers : at'[q] \notin {"waitRead", "waitOpen"}
    BY <1>0, <2>1, <2>3, SearchersAre DEF StorageOK, InSession, InEmpty
  <2> QED  BY <2>4, <2>5 DEF Informed, NoMissedNotification
<1>8. CASE SyncOpen(r)
  <2>1. /\ rs' = [rs EXCEPT ![r] = rs[r]] /\ UNCHANGED <<disk, recent>> /\ at[r] = "syncOpen"
    BY <1>0, <1>8 DEF SyncOpen
  <2>2. CASE Goto(r, "openCopy") \/ Goto(r, "idle")
    BY <1>0, <1>1, <1>2, <1>3, <2>1, <2>2
  <2>3. CASE Goto(r, "waitOpen") /\ ~(IsValid(recent) /\ req[r].no <= recent.id)
    <3>1. at' = [at EXCEPT ![r] = "waitOpen"] /\ req' = req
      BY <2>3 DEF Goto, Go
    <3>2. ~IsValid(recent) \/ req[r].no > recent.id
      BY <1>0, <2>3 DEF Sessions
    <3>3. ~IsValid(recent) => ~disk[0].magic
      BY <2>1 DEF Informed, CachedOK, InEmpty
    <3>4. "waitOpen" \notin Searching \cup InSession
      BY DEF Searching, InSession
    <3> QED  BY <1>0, <2>1, <3>1, <3>2, <3>3, <3>4, ReaderNotified
  <2> QED  BY <1>8, <2>2, <2>3 DEF SyncOpen
<1>9. CASE OpenCopy(r)
  <2>1. PICK x \in {"idle", "back"} : Goto(r, x)
    BY <1>9 DEF OpenCopy
  <2>2. rs' = [rs EXCEPT ![r] = recent] /\ UNCHANGED <<disk, recent>>
    BY <1>9 DEF OpenCopy
  <2> QED  BY <1>0, <1>1, <1>2, <1>3, <2>1, <2>2
<1>10. CASE Previous(r)
  <2>1. at' = [at EXCEPT ![r] = "back"] /\ \E q : req' = [req EXCEPT ![r] = q]
    BY <1>10 DEF Previous, Ask, Go
  <2>2. rs' = [rs EXCEPT ![r] = rs[r]] /\ UNCHANGED <<disk, recent>>
    BY <1>0, <1>10 DEF Previous
  <2> QED  BY <1>0, <1>1, <1>3, <2>1, <2>2
<1>11. CASE Back(r)
  <2>1. rs' = [rs EXCEPT ![r] = rs[r]] /\ UNCHANGED <<disk, recent>> /\ at[r] = "back"
    BY <1>0, <1>11 DEF Back
  <2>2. \/ at' = [at EXCEPT ![r] = "backFirst"] /\ req' = [req EXCEPT ![r] = req[r]]
        \/ Goto(r, "idle")
    BY <1>0, <1>11 DEF Back, Go
  <2> QED  BY <1>0, <1>1, <1>2, <1>3, <2>1, <2>2
<1>12. CASE BackFirst(r)
  <2>1. PICK x \in {"idle", "back"} : Goto(r, x)
    BY <1>12 DEF BackFirst
  <2>2. UNCHANGED <<disk, recent>> /\ at[r] = "backFirst"
    BY <1>12 DEF BackFirst
  <2>3. PICK v : rs' = [rs EXCEPT ![r] = v]
    BY <1>0, <1>12 DEF BackFirst
  <2>4. IsValid(recent)
    BY <1>0, <1>3, <2>2
  <2> QED  BY <1>0, <1>1, <1>2, <1>3, <2>1, <2>2, <2>3, <2>4
<1>13. CASE NextSession(r)
  <2>1. /\ at' = [at EXCEPT ![r] = "next"] /\ req' = [req EXCEPT ![r] = req[r]]
        /\ rs' = [rs EXCEPT ![r] = rs[r]] /\ UNCHANGED <<disk, recent>> /\ IsValid(rs[r])
    BY <1>0, <1>13 DEF NextSession, Go
  <2> QED  BY <1>0, <1>1, <1>3, <2>1
<1>14. CASE NextFirst(r)
  <2>1. UNCHANGED <<disk, recent>> /\ at[r] = "next"
    BY <1>14 DEF NextFirst
  <2>2. IsValid(recent) /\ IsValid(rs[r])
    BY <1>0, <1>3, <2>1
  <2>3. \/ Goto(r, "idle") /\ \E v : rs' = [rs EXCEPT ![r] = v]
        \/ at' = [at EXCEPT ![r] = "copyNext"] /\ req' = [req EXCEPT ![r] = req[r]]
           /\ rs' = [rs EXCEPT ![r] = rs[r]]
    BY <1>0, <1>14 DEF NextFirst, Go
  <2> QED  BY <1>0, <1>1, <1>2, <1>3, <2>1, <2>2, <2>3
<1>15. CASE CopyNext(r)
  <2> DEFINE k == scan[r].l
             v == [rs[r] EXCEPT ![Fields[k]] = recent[Fields[k]]]
  <2>1. /\ UNCHANGED <<disk, recent>> /\ at[r] = "copyNext" /\ k \in 1..6
        /\ rs' = [rs EXCEPT ![r] = v]
    BY <1>0, <1>15 DEF CopyNext, ScanOK
  <2>2. IsValid(recent) /\ IsValid(rs[r])
    BY <1>0, <1>3, <2>1
  <2>3. v.first \in {rs[r].first, recent.first}
    BY <1>0 DEF Sessions
  <2>4. IsValid(v)
    BY <2>2, <2>3 DEF IsValid
  <2>5. \/ Goto(r, "idle")
        \/ at' = [at EXCEPT ![r] = "copyNext"] /\ req' = [req EXCEPT ![r] = req[r]]
    BY <1>0, <1>15, <2>1 DEF CopyNext, StorageOK
  <2> HIDE DEF v
  <2> QED  BY <1>0, <1>1, <1>2, <1>3, <2>1, <2>2, <2>4, <2>5
<1>16. CASE ReadBlock(r)
  <2>1. at' = [at EXCEPT ![r] = "prepareRead"] /\ \E q : req' = [req EXCEPT ![r] = q]
    BY <1>16 DEF ReadBlock, Ask, Go
  <2>2. rs' = [rs EXCEPT ![r] = rs[r]] /\ UNCHANGED <<disk, recent>> /\ IsValid(rs[r])
    BY <1>0, <1>16 DEF ReadBlock
  <2> QED  BY <1>0, <1>1, <1>3, <2>1, <2>2
<1>17. CASE PrepareRead(r)
  <2>1. PICK x \in {"idle", "fetch", "syncRead"} : Goto(r, x)
    BY <1>17 DEF PrepareRead
  <2>2. rs' = [rs EXCEPT ![r] = rs[r]] /\ UNCHANGED <<disk, recent>> /\ IsValid(rs[r])
    BY <1>0, <1>3, <1>17 DEF PrepareRead
  <2> QED  BY <1>0, <1>1, <1>2, <1>3, <2>1, <2>2
<1>18. CASE SyncRead(r)
  <2>1. UNCHANGED <<disk, recent>> /\ IsValid(rs[r]) /\ IsValid(recent)
    BY <1>0, <1>3, <1>18 DEF SyncRead
  <2>2. CASE Goto(r, "prepareRead") /\ rs' = [rs EXCEPT ![r] = rs[r]]
    BY <1>0, <1>1, <1>2, <1>3, <2>1, <2>2
  <2>3. CASE rs' = [rs EXCEPT ![r] = recent] /\ (Goto(r, "fetch") \/ Goto(r, "idle"))
    BY <1>0, <1>1, <1>2, <1>3, <2>1, <2>3
  <2>4. CASE /\ rs' = [rs EXCEPT ![r] = recent] /\ Goto(r, "waitRead")
             /\ ~(req[r].no < CircularLength(recent.last, recent.first))
    <3>1. at' = [at EXCEPT ![r] = "waitRead"] /\ req' = req
      BY <2>4 DEF Goto, Go
    <3>2. CircularLength(recent.last, recent.first) \in Int
      <4>1. recent.last \in Nat /\ recent.first \in Nat
        BY <1>0, RingNumbers DEF Sessions
      <4>2. CircularLength(recent.last, recent.first) \in 0..NumMod - 1
        BY <4>1, LengthInRange
      <4> QED  BY <4>2, RingNumbers
    <3>3. req[r].no >= CircularLength(recent.last, recent.first)
      BY <1>0, <2>4, <3>2
    <3>4. "waitRead" \notin Searching \cup InEmpty
      BY DEF Searching, InEmpty
    <3> QED  BY <1>0, <2>1, <2>4, <3>1, <3>3, <3>4, ReaderNotified
  <2> QED  BY <1>0, <1>18, <2>2, <2>3, <2>4 DEF SyncRead
<1>19. CASE Fetch(r)
  <2>1. Goto(r, "idle") /\ rs' = [rs EXCEPT ![r] = rs[r]] /\ UNCHANGED <<disk, recent>>
    BY <1>0, <1>19 DEF Fetch
  <2> QED  BY <1>0, <1>1, <1>2, <1>3, <2>1
<1> QED
  BY <1>4, <1>5, <1>6, <1>7, <1>8, <1>9, <1>10, <1>11, <1>12, <1>13, <1>14, <1>15, <1>16, <1>17,
     <1>18, <1>19 DEF SessionReaderStep

LEMMA InformedStep ==
  ASSUME StorageOK, ScanOK, RequestsOK, Informed, [StorageNext]_storageVars
  PROVE  Informed'
<1>1. StorageOK'
  BY StorageStepOK
<1>2. CASE UNCHANGED storageVars
  BY <1>2 DEF storageVars, Informed, CachedOK, NoMissedNotification, IsValid
<1>3. CASE Restart
  <2>1. CachedOK'
    BY <1>3, SearchersAre, NothingOK DEF Restart, CachedOK, WithCache, InSession, Searching, InEmpty
  <2>2. NoMissedNotification'
    BY <1>3, SearchersAre DEF Restart, NoMissedNotification
  <2> QED  BY <2>1, <2>2 DEF Informed
<1> QED
  BY <1>1, <1>2, <1>3, NotifiedByReader, NotifiedByWriter, NotifiedByScan DEF StorageNext

\* The invariant for every log.
StorageInv == StorageOK /\ ScanOK /\ RequestsOK /\ Informed

LEMMA StorageInvariant == StorageSpec => []StorageInv
<1>1. StorageInit => StorageInv
  BY StorageInitOK, NotifiedInit DEF StorageInv
<1>2. StorageInv /\ [StorageNext]_storageVars => StorageInv'
  BY StorageStepOK, RequestsStep, InformedStep DEF StorageInv
<1> QED  BY <1>1, <1>2, PTL DEF StorageSpec

\* The readers and the writer of the storage: whatever the readers have searched,
\* opened or read, and whoever filled the cache, a reader that waits for a block
\* or a session waits for one that is not there, or the writer has still to
\* notify (notifyReaders after the cache is extended).
THEOREM NotificationsArrive == StorageSpec => []NoMissedNotification
<1>1. StorageInv => NoMissedNotification
  BY DEF StorageInv, Informed
<1> QED  BY <1>1, StorageInvariant, PTL

(***************************************************************************)
(* Remainders.                                                             *)
(***************************************************************************)

LEMMA DivisionForm ==
  ASSUME NEW a \in Int, NEW m \in Nat \ {0}
  PROVE  /\ a \div m \in Int /\ a % m \in Int /\ 0 <= a % m /\ a % m < m
         /\ a = m * (a \div m) + (a % m)
OBVIOUS

LEMMA RemainderUnique ==
  ASSUME NEW m \in Nat \ {0}, NEW q \in Int, NEW r \in 0..m - 1, NEW a \in Int, a = m * q + r
  PROVE  a % m = r
<1> DEFINE p == a \div m
           s == a % m
<1>1. p \in Int /\ s \in Int /\ 0 <= s /\ s < m /\ a = m * p + s
  BY DivisionForm
<1> HIDE DEF p, s
<1>2. m * p + s = m * q + r /\ r \in Int /\ 0 <= r /\ r < m
  BY <1>1
<1>3. m * (p - q) = r - s
  BY <1>1, <1>2
<1>4. p - q >= 1 => m * (p - q) >= m
  BY <1>1
<1>5. p - q <= -1 => m * (p - q) <= -m
  BY <1>1
<1>6. p - q = 0
  BY <1>1, <1>2, <1>3, <1>4, <1>5
<1>7. s = r
  BY <1>1, <1>2, <1>6
<1> QED  BY <1>7 DEF s

LEMMA RemainderSmall ==
  ASSUME NEW m \in Nat \ {0}, NEW a \in 0..m - 1
  PROVE  a % m = a
<1>1. a = m * 0 + a /\ a \in Int
  OBVIOUS
<1> QED  BY <1>1, RemainderUnique

LEMMA RemainderNext ==
  ASSUME NEW m \in Nat \ {0}, NEW a \in Int
  PROVE  (a + 1) % m = IF a % m = m - 1 THEN 0 ELSE (a % m) + 1
<1> DEFINE q == a \div m
           r == a % m
<1>1. q \in Int /\ r \in Int /\ 0 <= r /\ r < m /\ a = m * q + r
  BY DivisionForm
<1> HIDE DEF q, r
<1>2. CASE r = m - 1
  <2>1. a + 1 = m * (q + 1) + 0
    BY <1>1, <1>2
  <2>2. 0 \in 0..m - 1 /\ q + 1 \in Int /\ a + 1 \in Int
    BY <1>1
  <2>3. (a + 1) % m = 0
    BY <2>1, <2>2, RemainderUnique
  <2> QED  BY <1>2, <2>3 DEF r
<1>3. CASE r # m - 1
  <2>1. a + 1 = m * q + (r + 1) /\ r + 1 \in 0..m - 1 /\ a + 1 \in Int
    BY <1>1, <1>3
  <2>2. (a + 1) % m = r + 1
    BY <1>1, <2>1, RemainderUnique
  <2> QED  BY <1>3, <2>2 DEF r
<1> QED  BY <1>2, <1>3

\* Numbers with the same remainder, less than the modulus apart, are the same.
LEMMA RemaindersDiffer ==
  ASSUME NEW m \in Nat \ {0}, NEW a \in Int, NEW b \in Int, a % m = b % m,
         a <= b, b < a + m
  PROVE  a = b
<1> DEFINE p == a \div m
           q == b \div m
           r == a % m
<1>1. p \in Int /\ q \in Int /\ r \in Int /\ a = m * p + r /\ b = m * q + r
  BY DivisionForm
<1> HIDE DEF p, q, r
<1>2. b - a = m * (q - p)
  BY <1>1
<1>3. q - p >= 1 => m * (q - p) >= m
  BY <1>1
<1>4. q - p <= -1 => m * (q - p) <= -m
  BY <1>1
<1>5. q - p = 0
  BY <1>1, <1>2, <1>3, <1>4
<1> QED  BY <1>1, <1>5

\* A step of less than the modulus, in remainders.
LEMMA RemainderForward ==
  ASSUME NEW m \in Nat \ {0}, NEW a \in Int, NEW d \in 0..m - 1
  PROVE  (a + d) % m = IF (a % m) + d < m THEN (a % m) + d ELSE (a % m) + d - m
<1> DEFINE q == a \div m
           r == a % m
<1>1. q \in Int /\ r \in Int /\ 0 <= r /\ r < m /\ a = m * q + r
  BY DivisionForm
<1> HIDE DEF q, r
<1>2. CASE r + d < m
  <2>1. a + d = m * q + (r + d) /\ r + d \in 0..m - 1 /\ a + d \in Int
    BY <1>1, <1>2
  <2>2. (a + d) % m = r + d
    BY <1>1, <2>1, RemainderUnique
  <2> QED  BY <1>2, <2>2 DEF r
<1>3. CASE ~(r + d < m)
  <2> DEFINE A == a + d
             Q == q + 1
             R == r + d - m
  <2>1. A = m * Q + R /\ R \in 0..m - 1 /\ A \in Int /\ Q \in Int
    BY <1>1, <1>3
  <2>2. A % m = R
    <3> HIDE DEF A, Q, R
    <3> QED  BY <2>1, RemainderUnique
  <2> QED  BY <1>3, <2>2 DEF r
<1> QED  BY <1>2, <1>3

LEMMA RemainderRound ==
  ASSUME NEW m \in Nat \ {0}, NEW a \in Int
  PROVE  (a + m) % m = a % m
<1> DEFINE q == a \div m
           r == a % m
<1>1. q \in Int /\ r \in Int /\ 0 <= r /\ r < m /\ a = m * q + r
  BY DivisionForm
<1> HIDE DEF q, r
<1>2. a + m = m * (q + 1) + r /\ r \in 0..m - 1 /\ a + m \in Int /\ q + 1 \in Int
  BY <1>1
<1>3. (a + m) % m = r
  BY <1>2, RemainderUnique
<1> QED  BY <1>3 DEF r

\* The distance of two numbers from their remainders, forward and backward.
LEMMA RemainderDistance ==
  ASSUME NEW m \in Nat \ {0}, NEW a \in Int, NEW b \in Int
  PROVE  /\ 0 <= a - b /\ a - b < m => ((a % m) - (b % m)) % m = a - b
         /\ -m <= a - b /\ a - b < 0 => ((a % m) - (b % m)) % m = a - b + m
<1> DEFINE p == a \div m
           q == b \div m
           r == a % m
           s == b % m
<1>1. /\ p \in Int /\ r \in Int /\ 0 <= r /\ r < m /\ a = m * p + r
      /\ q \in Int /\ s \in Int /\ 0 <= s /\ s < m /\ b = m * q + s
  BY DivisionForm
<1> HIDE DEF p, q, r, s
<1>2. ASSUME 0 <= a - b, a - b < m PROVE (r - s) % m = a - b
  <2> DEFINE A == r - s
             Q == q - p
             R == a - b
  <2>1. A = m * Q + R /\ R \in 0..m - 1 /\ A \in Int /\ Q \in Int
    BY <1>1, <1>2
  <2>2. A % m = R
    <3> HIDE DEF A, Q, R
    <3> QED  BY <2>1, RemainderUnique
  <2> QED  BY <2>2
<1>3. ASSUME -m <= a - b, a - b < 0 PROVE (r - s) % m = a - b + m
  <2> DEFINE A == r - s
             Q == q - p - 1
             R == a - b + m
  <2>1. A = m * Q + R /\ R \in 0..m - 1 /\ A \in Int /\ Q \in Int
    BY <1>1, <1>3
  <2>2. A % m = R
    <3> HIDE DEF A, Q, R
    <3> QED  BY <2>1, RemainderUnique
  <2> QED  BY <2>2
<1> QED  BY <1>2, <1>3 DEF r, s

(***************************************************************************)
(* Places and identifiers of the blocks of a log.                          *)
(***************************************************************************)

BlockAt(i) == [no |-> PlaceOf(i), id |-> IdOf(i)]

LEMMA PlaceBehind ==
  ASSUME NEW i \in Int
  PROVE  CircularNumber(PlaceOf(i), 1) = PlaceOf(i + 1)
<1> DEFINE p == PlaceOf(i)
<1>1. p \in 0..StorageSize - 1 /\ StorageSize \in Nat \ {0} /\ NumMod \in Nat \ {0}
      /\ i - 1 \in Int /\ NumMod > StorageSize
  BY PlaceRange, RingNumbers DEF Numbers
<1>2. ((i - 1) + 1) % StorageSize = IF (i - 1) % StorageSize = StorageSize - 1 THEN 0
                                   ELSE ((i - 1) % StorageSize) + 1
  BY <1>1, RemainderNext
<1>3. PlaceOf(i + 1) = IF p = StorageSize - 1 THEN 0 ELSE p + 1
  BY <1>2 DEF PlaceOf
<1> HIDE DEF p
<1>4. p \in Int /\ p % StorageSize = p
  BY <1>1, RemainderSmall
<1>5. (p + 1) % StorageSize = IF p = StorageSize - 1 THEN 0 ELSE p + 1
  BY <1>1, <1>4, RemainderNext
<1>6. p + 1 \in 0..NumMod - 1
  BY <1>1
<1>7. (p + 1) % NumMod = p + 1
  BY <1>1, <1>6, RemainderSmall
<1>8. CircularNumber(p, 1) = (p + 1) % StorageSize
  BY <1>7 DEF CircularNumber
<1> QED  BY <1>3, <1>5, <1>8 DEF p

LEMMA PlaceBefore ==
  ASSUME NEW i \in Int
  PROVE  CircularNumber(PlaceOf(i), -1) = PlaceOf(i - 1)
<1> DEFINE p == PlaceOf(i)
           q == PlaceOf(i - 1)
<1>1. /\ p \in 0..StorageSize - 1 /\ q \in 0..StorageSize - 1
      /\ StorageSize \in Nat \ {0} /\ i - 2 \in Int
  BY PlaceRange, RingNumbers DEF Numbers
<1>2. ((i - 2) + 1) % StorageSize = IF (i - 2) % StorageSize = StorageSize - 1 THEN 0
                                   ELSE ((i - 2) % StorageSize) + 1
  BY <1>1, RemainderNext
<1>3. i - 2 = (i - 1) - 1 /\ (i - 2) + 1 = i - 1
  OBVIOUS
<1>4. p = IF q = StorageSize - 1 THEN 0 ELSE q + 1
  BY <1>2, <1>3 DEF PlaceOf
<1> HIDE DEF p, q
<1>5. CircularNumber(p, -1) = q
  BY <1>1, <1>4 DEF CircularNumber
<1> QED  BY <1>5 DEF p, q

LEMMA IdBehind ==
  ASSUME NEW i \in Int
  PROVE  (IdOf(i) + 1) % IdMod = IdOf(i + 1)
<1> DEFINE p == IdOf(i)
<1>1. p \in 0..IdMod - 1 /\ IdMod \in Nat \ {0}
  BY PlaceRange, RingNumbers
<1>2. IdOf(i + 1) = IF p = IdMod - 1 THEN 0 ELSE p + 1
  BY <1>1, RemainderNext DEF IdOf
<1> HIDE DEF p
<1>3. p \in Int /\ p % IdMod = p
  BY <1>1, RemainderSmall
<1>4. (p + 1) % IdMod = IF p = IdMod - 1 THEN 0 ELSE p + 1
  BY <1>1, <1>3, RemainderNext
<1> QED  BY <1>2, <1>4 DEF p

LEMMA NextBlockAt ==
  ASSUME NEW i \in Int
  PROVE  NextBlock(BlockAt(i)) = BlockAt(i + 1)
BY PlaceBehind, IdBehind DEF NextBlock, BlockAt

\* The number of the block that lies at place p when n blocks are written; below
\* one, nothing lies there.
IndexAt(n, p) ==
  IF p <= PlaceOf(n) THEN n - PlaceOf(n) + p ELSE n - PlaceOf(n) + p - StorageSize

LEMMA IndexAtPlace ==
  ASSUME NEW n \in Nat \ {0}, NEW p \in Numbers
  PROVE  /\ IndexAt(n, p) \in Int /\ IndexAt(n, p) <= n /\ IndexAt(n, p) + StorageSize > n
         /\ PlaceOf(IndexAt(n, p)) = p
         /\ IndexAt(n, p) >= 1 <=> p < n
<1> DEFINE S == StorageSize
           e == PlaceOf(n)
           q == (n - 1) \div S
           i == IndexAt(n, p)
<1>1. S \in Nat \ {0} /\ p \in 0..S - 1
  BY RingNumbers DEF Numbers
<1>2. n - 1 \in Int
  OBVIOUS
<1>3. q \in Int /\ e \in Int /\ 0 <= e /\ e < S /\ n - 1 = S * q + e
  BY <1>1, <1>2, DivisionForm DEF PlaceOf
<1>4. i = IF p <= e THEN n - e + p ELSE n - e + p - S
  BY DEF IndexAt
<1>5. q >= 0
  <2> HIDE DEF q, e, S
  <2>1. SUFFICES ASSUME q <= -1 PROVE FALSE
    BY <1>3
  <2>2. S * q <= -S
    BY <1>1, <1>3, <2>1
  <2> QED  BY <1>1, <1>3, <2>2
<1>6. q >= 1 => S * q >= S
  <2> HIDE DEF q, e, S
  <2> QED  BY <1>1, <1>3
<1>7. S * q \in Int /\ S * q >= 0 /\ (q = 0 => S * q = 0)
  <2> HIDE DEF q, e, S
  <2> QED  BY <1>1, <1>3, <1>5
<1>8. i \in Int /\ i <= n /\ i + S > n
  <2> HIDE DEF q, e, S, i
  <2> QED  BY <1>1, <1>3, <1>4
<1>9. i >= 1 <=> p < n
  <2> DEFINE T == S * q
  <2>1. T \in Int /\ T >= 0 /\ (q = 0 => T = 0) /\ (q >= 1 => T >= S) /\ n - 1 = T + e
    BY <1>3, <1>6, <1>7
  <2> HIDE DEF q, e, S, i, T
  <2>2. CASE q = 0
    BY <1>1, <1>3, <1>4, <2>1, <2>2
  <2>3. CASE q >= 1
    BY <1>1, <1>3, <1>4, <2>1, <2>3
  <2> QED  BY <1>3, <1>5, <2>2, <2>3
<1>10. PlaceOf(i) = p
  <2> DEFINE A == i - 1
             Q == IF p <= e THEN q ELSE q - 1
  <2>1. A = S * Q + p /\ A \in Int /\ Q \in Int
    <3> HIDE DEF q, e, S, i
    <3>1. CASE p <= e
      BY <1>1, <1>3, <1>4, <3>1
    <3>2. CASE ~(p <= e)
      <4>1. S * (q - 1) = S * q - S
        BY <1>1, <1>3
      <4> QED  BY <1>1, <1>3, <1>4, <3>2, <4>1
    <3> QED  BY <3>1, <3>2
  <2>2. A % S = p
    <3> HIDE DEF A, Q, S, e, q, i
    <3> QED  BY <1>1, <2>1, RemainderUnique
  <2> QED  BY <2>2 DEF PlaceOf
<1> QED  BY <1>8, <1>9, <1>10

LEMMA SamePlace ==
  ASSUME NEW i \in Int, NEW j \in Int, PlaceOf(i) = PlaceOf(j), i < j + StorageSize,
         j < i + StorageSize
  PROVE  i = j
<1>1. StorageSize \in Nat \ {0} /\ i - 1 \in Int /\ j - 1 \in Int
  BY RingNumbers
<1>2. (i - 1) % StorageSize = (j - 1) % StorageSize
  BY DEF PlaceOf
<1>3. CASE i <= j
  <2>1. i - 1 <= j - 1 /\ j - 1 < (i - 1) + StorageSize
    BY <1>1, <1>3
  <2>2. i - 1 = j - 1
    BY <1>1, <1>2, <2>1, RemaindersDiffer
  <2> QED  BY <2>2
<1>4. CASE j <= i
  <2>1. j - 1 <= i - 1 /\ i - 1 < (j - 1) + StorageSize
    BY <1>1, <1>4
  <2>2. j - 1 = i - 1
    BY <1>1, <1>2, <2>1, RemaindersDiffer
  <2> QED  BY <2>2
<1> QED  BY <1>3, <1>4

(***************************************************************************)
(* The sessions of a log.                                                  *)
(***************************************************************************)

SidBlocks(l, sid) == {i \in 1..Len(l) : l[i] = sid}

LEMMA MinIs ==
  ASSUME NEW S \in SUBSET Nat, NEW x \in S, \A y \in S : x <= y
  PROVE  Min(S) = x
<1>1. Min(S) \in S /\ \A y \in S : Min(S) <= y
  BY MinOf
<1>2. Min(S) <= x /\ x <= Min(S) /\ x \in Nat /\ Min(S) \in Nat
  BY <1>1
<1> QED  BY <1>2

LEMMA MaxIs ==
  ASSUME NEW n \in Nat, NEW S \in SUBSET (1..n), NEW x \in S, \A y \in S : y <= x
  PROVE  Max(S) = x
<1>1. Max(S) \in S /\ \A y \in S : y <= Max(S)
  BY MaxOf
<1>2. x \in 1..n /\ Max(S) \in 1..n
  BY <1>1
<1>3. Max(S) <= x /\ x <= Max(S)
  BY <1>1, <1>2
<1> QED  BY <1>2, <1>3

LEMMA SidEnds ==
  ASSUME NEW l \in Seq(Nat), NEW i \in 1..Len(l)
  PROVE  LET m == Min(SidBlocks(l, l[i]))
         IN  /\ m \in 1..Len(l) /\ l[m] = l[i] /\ m <= i
             /\ \A j \in 1..Len(l) : l[j] = l[i] => m <= j
<1>1. SessionOf(l, i) = SidBlocks(l, l[i]) /\ i \in SessionOf(l, i)
  BY DEF SessionOf, SidBlocks
<1>2. Min(SessionOf(l, i)) \in SessionOf(l, i) /\ \A j \in SessionOf(l, i) : Min(SessionOf(l, i)) <= j
  BY SessionEnds
<1> QED  BY <1>1, <1>2 DEF SessionOf

\* A written block begins a session, or goes on with it.
LEMMA SidAppend ==
  ASSUME NEW l \in Seq(Nat), NEW s \in Nat, NEW x \in Nat
  PROVE  LET k == Append(l, s)
         IN  /\ x # s => SidBlocks(k, x) = SidBlocks(l, x)
             /\ SidBlocks(k, s) = SidBlocks(l, s) \cup {Len(l) + 1}
             /\ SidBlocks(l, s) # {} => Min(SidBlocks(k, s)) = Min(SidBlocks(l, s))
             /\ SidBlocks(l, s) = {} => Min(SidBlocks(k, s)) = Len(l) + 1
<1> DEFINE k == Append(l, s)
           n == Len(l)
<1>1. /\ n \in Nat /\ k \in Seq(Nat) /\ Len(k) = n + 1 /\ k[n + 1] = s
      /\ \A i \in 1..n : k[i] = l[i]
  OBVIOUS
<1> HIDE DEF k
<1>2. \A i : i \in 1..n + 1 <=> i \in 1..n \/ i = n + 1
  BY <1>1
<1>3. x # s => SidBlocks(k, x) = SidBlocks(l, x)
  BY <1>1, <1>2 DEF SidBlocks
<1>4. SidBlocks(k, s) = SidBlocks(l, s) \cup {n + 1}
  BY <1>1, <1>2 DEF SidBlocks
<1>5. SidBlocks(l, s) \subseteq 1..n /\ SidBlocks(k, s) \subseteq Nat
  BY <1>1 DEF SidBlocks
<1>6. SidBlocks(l, s) # {} => Min(SidBlocks(k, s)) = Min(SidBlocks(l, s))
  <2> DEFINE m == Min(SidBlocks(l, s))
  <2>1. SUFFICES ASSUME SidBlocks(l, s) # {} PROVE Min(SidBlocks(k, s)) = m
    OBVIOUS
  <2>2. SidBlocks(l, s) \in SUBSET Nat
    BY <1>5
  <2>3. m \in SidBlocks(l, s) /\ \A y \in SidBlocks(l, s) : m <= y
    BY <2>1, <2>2, MinOf
  <2> HIDE DEF m
  <2>4. m \in SidBlocks(k, s) /\ \A y \in SidBlocks(k, s) : m <= y
    BY <1>1, <1>4, <1>5, <2>3
  <2> QED  BY <1>5, <2>4, MinIs
<1>7. SidBlocks(l, s) = {} => Min(SidBlocks(k, s)) = n + 1
  <2>1. SUFFICES ASSUME SidBlocks(l, s) = {} PROVE Min(SidBlocks(k, s)) = n + 1
    OBVIOUS
  <2>2. SidBlocks(k, s) = {n + 1} /\ n + 1 \in Nat
    BY <1>1, <1>4, <2>1
  <2> QED  BY <1>5, <2>2, MinIs
<1> QED  BY <1>3, <1>4, <1>6, <1>7 DEF k

\* Session after session, none in more than all blocks of the ring but one.
InSessions(l) ==
  \A i, j \in 1..Len(l) : i < j =>
    l[i] <= l[j] /\ (l[i] = l[j] => j - i < StorageSize - 1)

\* The last session ends the log, and its first block is on the device.
LEMMA LastSession ==
  ASSUME NEW l \in Seq(Nat), InSessions(l), Len(l) > 0
  PROVE  LET m == Min(SidBlocks(l, l[Len(l)]))
         IN  /\ m \in 1..Len(l) /\ l[m] = l[Len(l)]
             /\ Max(SidBlocks(l, l[Len(l)])) = Len(l)
             /\ Len(l) - m < StorageSize - 1
             /\ Holds(l, PlaceOf(m), m)
             /\ \A i \in 1..Len(l) : l[i] <= l[Len(l)]
<1> DEFINE n == Len(l)
           m == Min(SidBlocks(l, l[n]))
<1>1. n \in 1..Len(l) /\ n \in Nat
  OBVIOUS
<1>2. m \in 1..n /\ l[m] = l[n]
  BY <1>1, SidEnds
<1> HIDE DEF m
<1>3. Max(SidBlocks(l, l[n])) = n
  <2>1. n \in SidBlocks(l, l[n]) /\ SidBlocks(l, l[n]) \in SUBSET (1..n)
        /\ \A y \in SidBlocks(l, l[n]) : y <= n
    BY <1>1 DEF SidBlocks
  <2> QED  BY <1>1, <2>1, MaxIs
<1>4. n - m < StorageSize - 1
  BY <1>1, <1>2, RingNumbers DEF InSessions
<1>5. Holds(l, PlaceOf(m), m)
  BY <1>1, <1>2, <1>4, RingNumbers DEF Holds
<1>6. \A i \in 1..n : l[i] <= l[n]
  BY <1>1 DEF InSessions
<1> QED  BY <1>2, <1>3, <1>4, <1>5, <1>6 DEF m

(***************************************************************************)
(* A device that holds the tail of a log, with its references.             *)
(***************************************************************************)

TailOn(d, l) ==
  \A p \in Numbers :
    IF d[p].magic
    THEN \E i \in 1..Len(l) :
           /\ Holds(l, p, i)
           /\ d[p].sid = l[i] /\ d[p].bid = IdOf(i)
           /\ d[p].first = PlaceOf(Min(SidBlocks(l, l[i])))
    ELSE p >= Len(l)

RefsOn(d, l) ==
  \A p \in Numbers :
    d[p].magic /\ d[p].next # INVALID =>
      d[p].first = p /\ d[p].next = PlaceOf(Max(SidBlocks(l, d[p].sid)) + 1)

LEMMA TailIs ==
  /\ DiskIsLogTail <=> TailOn(disk, log)
  /\ ForwardRefsPoint <=> RefsOn(disk, log)
BY DEF DiskIsLogTail, TailOn, ForwardRefsPoint, RefsOn, BlocksOf, SidBlocks

LEMMA HoldsOne ==
  ASSUME NEW l \in Seq(Nat), NEW p, NEW i, NEW j, Holds(l, p, i), Holds(l, p, j)
  PROVE  i = j
<1>1. /\ i \in Int /\ j \in Int /\ PlaceOf(i) = PlaceOf(j)
      /\ i < j + StorageSize /\ j < i + StorageSize
  <2>1. Len(l) \in Nat /\ StorageSize \in Nat
    BY RingNumbers
  <2> QED  BY <2>1 DEF Holds
<1> QED  BY <1>1, SamePlace

\* Which places are written, and by what.
LEMMA TailAt ==
  ASSUME NEW d \in [Numbers -> Headers], NEW l \in Seq(Nat), TailOn(d, l),
         NEW p \in Numbers
  PROVE  /\ d[p].magic <=> p < Len(l)
         /\ d[p].magic =>
              LET i == IndexAt(Len(l), p)
              IN  /\ i \in 1..Len(l) /\ Holds(l, p, i)
                  /\ d[p].sid = l[i] /\ d[p].bid = IdOf(i)
                  /\ d[p].first = PlaceOf(Min(SidBlocks(l, l[i])))
<1> DEFINE n == Len(l)
           i == IndexAt(n, p)
<1>0. n \in Nat /\ p \in Nat /\ d[p].magic \in BOOLEAN
  BY DEF Headers, Numbers
<1>1. CASE d[p].magic
  <2>1. PICK j \in 1..n : /\ Holds(l, p, j) /\ d[p].sid = l[j] /\ d[p].bid = IdOf(j)
                          /\ d[p].first = PlaceOf(Min(SidBlocks(l, l[j])))
    BY <1>1 DEF TailOn
  <2>2. n \in Nat \ {0}
    BY <1>0, <2>1
  <2>3. i \in Int /\ i <= n /\ i + StorageSize > n /\ PlaceOf(i) = p
    BY <2>2, IndexAtPlace
  <2> HIDE DEF i
  <2>4. /\ PlaceOf(j) = PlaceOf(i) /\ j \in Int /\ j <= n /\ j + StorageSize > n
    BY <2>1, <2>3 DEF Holds
  <2>5. i < j + StorageSize /\ j < i + StorageSize
    BY <1>0, <2>3, <2>4, RingNumbers
  <2>6. i = j
    BY <2>3, <2>4, <2>5, SamePlace
  <2>7. p < n
    BY <2>1, <2>2, <2>6, IndexAtPlace DEF i
  <2> QED  BY <1>1, <2>1, <2>6, <2>7 DEF i
<1>2. CASE ~d[p].magic
  <2>1. p >= n
    BY <1>2 DEF TailOn
  <2> QED  BY <1>0, <1>2, <2>1
<1> QED  BY <1>1, <1>2

\* What the device holds after a log is the tail of the log.
LEMMA TailAfter ==
  ASSUME NEW l \in Seq(Nat)
  PROVE  TailOn(DiskAfter(l), l) /\ RefsOn(DiskAfter(l), l)
<1> DEFINE d == DiskAfter(l)
<1>0. Len(l) \in Nat
  OBVIOUS
<1>1. ASSUME NEW p \in Numbers, NEW i \in 1..Len(l), Holds(l, p, i), d[p] = HeaderAfter(l, i)
      PROVE  /\ d[p].magic /\ d[p].sid = l[i] /\ d[p].bid = IdOf(i)
             /\ d[p].first = PlaceOf(Min(SidBlocks(l, l[i])))
             /\ d[p].next # INVALID =>
                  d[p].first = p /\ d[p].next = PlaceOf(Max(SidBlocks(l, d[p].sid)) + 1)
  <2>1. SessionOf(l, i) = SidBlocks(l, l[i]) /\ p = PlaceOf(i)
    BY <1>1 DEF SessionOf, SidBlocks, Holds
  <2> HIDE DEF d
  <2> QED  BY <1>1, <2>1 DEF HeaderAfter
<1>2. ASSUME NEW p \in Numbers, \A i \in 1..Len(l) : ~Holds(l, p, i)
      PROVE  p >= Len(l)
  <2>1. SUFFICES ASSUME p < Len(l) PROVE FALSE
    BY <1>0 DEF Numbers
  <2>2. Len(l) \in Nat \ {0} /\ p \in Nat
    BY <1>0, <2>1 DEF Numbers
  <2> DEFINE i == IndexAt(Len(l), p)
  <2>3. /\ i \in Int /\ i <= Len(l) /\ i + StorageSize > Len(l) /\ PlaceOf(i) = p /\ i >= 1
    BY <2>1, <2>2, IndexAtPlace
  <2> HIDE DEF i
  <2>4. i \in 1..Len(l) /\ Holds(l, p, i)
    BY <1>0, <2>3 DEF Holds
  <2> QED  BY <1>2, <2>4
<1>3. ASSUME NEW p \in Numbers, d[p] = Blank PROVE ~d[p].magic
  BY <1>3 DEF Blank
<1>4. \A p \in Numbers :
        \/ \E i \in 1..Len(l) : Holds(l, p, i) /\ d[p] = HeaderAfter(l, i)
        \/ (\A i \in 1..Len(l) : ~Holds(l, p, i)) /\ d[p] = Blank
  BY DiskAfterAt
<1> HIDE DEF d
<1>5. TailOn(d, l)
  BY <1>1, <1>2, <1>3, <1>4 DEF TailOn
<1>6. RefsOn(d, l)
  BY <1>1, <1>3, <1>4 DEF RefsOn
<1> QED  BY <1>5, <1>6 DEF d

\* The reference of the last session goes to the place behind the log.
LEMMA TailForward ==
  ASSUME NEW d \in [Numbers -> Headers], NEW l \in Seq(Nat), TailOn(d, l), RefsOn(d, l),
         InSessions(l), Len(l) > 0
  PROVE  LET f == PlaceOf(Min(SidBlocks(l, l[Len(l)])))
             k == SetForward(d, f, PlaceOf(Len(l) + 1))
         IN  /\ TailOn(k, l) /\ RefsOn(k, l)
             /\ \A p \in Numbers : /\ k[p].magic = d[p].magic /\ k[p].sid = d[p].sid
                                    /\ k[p].first = d[p].first /\ k[p].bid = d[p].bid
<1> DEFINE n == Len(l)
           m == Min(SidBlocks(l, l[n]))
           f == PlaceOf(m)
           x == PlaceOf(n + 1)
           k == SetForward(d, f, x)
<1>1. /\ m \in 1..n /\ l[m] = l[n] /\ Max(SidBlocks(l, l[n])) = n
      /\ n - m < StorageSize - 1 /\ Holds(l, f, m) /\ n \in Nat
  BY LastSession
<1>2. f \in Numbers /\ x \in Numbers
  BY <1>1, PlaceRange
<1> HIDE DEF m, f, x
<1>3. k = [d EXCEPT ![f] = [d[f] EXCEPT !.next = x]]
  BY DEF SetForward
<1>4. /\ \A p \in Numbers : p # f => k[p] = d[p]
      /\ k[f] = [d[f] EXCEPT !.next = x]
  BY <1>2, <1>3
<1> HIDE DEF k
<1>5. ASSUME NEW p \in Numbers
      PROVE  /\ k[p].magic = d[p].magic /\ k[p].sid = d[p].sid
             /\ k[p].first = d[p].first /\ k[p].bid = d[p].bid
             /\ k[p].next = IF p = f THEN x ELSE d[p].next
  BY <1>2, <1>4 DEF Headers
<1>6. TailOn(k, l)
  BY <1>5 DEF TailOn
<1>7. d[f].magic => d[f].sid = l[n] /\ d[f].first = f
  <2>1. SUFFICES ASSUME d[f].magic PROVE d[f].sid = l[n] /\ d[f].first = f
    OBVIOUS
  <2>2. PICK i \in 1..n : /\ Holds(l, f, i) /\ d[f].sid = l[i]
                          /\ d[f].first = PlaceOf(Min(SidBlocks(l, l[i])))
    BY <1>2, <2>1 DEF TailOn
  <2>3. i = m
    BY <1>1, <2>2, HoldsOne
  <2> QED  BY <1>1, <2>2, <2>3 DEF f, m
<1>8. RefsOn(k, l)
  <2>1. SUFFICES ASSUME NEW p \in Numbers, k[p].magic, k[p].next # INVALID
                 PROVE  k[p].first = p /\ k[p].next = PlaceOf(Max(SidBlocks(l, k[p].sid)) + 1)
    BY DEF RefsOn
  <2>2. CASE p = f
    BY <1>1, <1>5, <1>7, <2>1, <2>2 DEF x
  <2>3. CASE p # f
    BY <1>5, <2>1, <2>3 DEF RefsOn
  <2> QED  BY <2>2, <2>3
<1> QED  BY <1>5, <1>6, <1>8 DEF k, f, m, x

\* A block that is written behind the log goes on with its last session, or
\* begins one above it; a session leaves one place of the ring.
NoRefOf(d, s) == \A p \in Numbers : d[p].magic /\ d[p].sid = s => d[p].next = INVALID

MayFollow(d, l, s, f) ==
  /\ \A i \in 1..Len(l) : l[i] <= s
  /\ f = IF SidBlocks(l, s) = {} THEN PlaceOf(Len(l) + 1) ELSE PlaceOf(Min(SidBlocks(l, s)))
  /\ PlaceOf(Len(l) + 1) # CircularNumber(f, -1)
  /\ NoRefOf(d, s)

Written(d, l, s, f) ==
  [d EXCEPT ![PlaceOf(Len(l) + 1)] =
     [magic |-> TRUE, sid |-> s, first |-> f, bid |-> IdOf(Len(l) + 1), next |-> INVALID]]

LEMMA TailAppend ==
  ASSUME NEW d \in [Numbers -> Headers], NEW l \in Seq(Nat), TailOn(d, l), RefsOn(d, l),
         InSessions(l), NEW s \in Nat, NEW f \in Numbers, MayFollow(d, l, s, f)
  PROVE  /\ InSessions(Append(l, s))
         /\ TailOn(Written(d, l, s, f), Append(l, s)) /\ RefsOn(Written(d, l, s, f), Append(l, s))
         /\ NoRefOf(Written(d, l, s, f), s)
         /\ f = PlaceOf(Min(SidBlocks(Append(l, s), s)))
<1> USE DEF MayFollow, NoRefOf, Written
<1> DEFINE n == Len(l)
           x == PlaceOf(n + 1)
           h == [magic |-> TRUE, sid |-> s, first |-> f, bid |-> IdOf(n + 1), next |-> INVALID]
           e == [d EXCEPT ![x] = h]
           k == Append(l, s)
<1>1. /\ n \in Nat /\ k \in Seq(Nat) /\ Len(k) = n + 1 /\ k[n + 1] = s
      /\ \A i \in 1..n : k[i] = l[i] /\ l[i] \in Nat
  OBVIOUS
<1>2. /\ \A y \in Nat : y # s => SidBlocks(k, y) = SidBlocks(l, y)
      /\ SidBlocks(l, s) # {} => Min(SidBlocks(k, s)) = Min(SidBlocks(l, s))
      /\ SidBlocks(l, s) = {} => Min(SidBlocks(k, s)) = n + 1
  BY SidAppend
<1>3. f = PlaceOf(Min(SidBlocks(k, s)))
  BY <1>2
<1>4. x \in Numbers /\ e[x] = h /\ \A p \in Numbers : p # x => e[p] = d[p]
  BY <1>1, PlaceRange
<1> HIDE DEF k, e, x
<1>5. InSessions(k)
  <2>1. SUFFICES ASSUME NEW i \in 1..n + 1, NEW j \in 1..n + 1, i < j
                 PROVE  k[i] <= k[j] /\ (k[i] = k[j] => j - i < StorageSize - 1)
    BY <1>1 DEF InSessions
  <2>2. CASE j \in 1..n
    <3>1. i \in 1..n
      BY <1>1, <2>1, <2>2
    <3> QED  BY <1>1, <2>1, <2>2, <3>1 DEF InSessions
  <2>3. CASE j = n + 1
    <3>1. i \in 1..n
      BY <1>1, <2>1, <2>3
    <3>2. k[i] <= k[j]
      BY <1>1, <2>3, <3>1
    <3>3. ASSUME k[i] = k[j] PROVE j - i < StorageSize - 1
      <4> DEFINE m == Min(SidBlocks(l, s))
      <4>1. i \in SidBlocks(l, s) /\ l[i] = s
        BY <1>1, <2>3, <3>1, <3>3 DEF SidBlocks
      <4>2. m \in 1..n /\ m <= i /\ l[m] = s
        BY <3>1, <4>1, SidEnds
      <4>3. f = PlaceOf(m)
        BY <4>1
      <4> HIDE DEF m
      <4>4. n - m < StorageSize - 1
        <5>1. l[n] = s
          <6>1. CASE i = n
            BY <4>1, <6>1
          <6>2. CASE i < n
            <7>1. l[i] <= l[n] /\ l[n] <= s
              BY <1>1, <3>1, <6>2 DEF InSessions
            <7>2. l[n] \in Nat /\ l[i] = s
              BY <1>1, <3>1, <4>1
            <7> QED  BY <7>1, <7>2
          <6> QED  BY <1>1, <3>1, <6>1, <6>2
        <5>2. m < n => n - m < StorageSize - 1
          <6>1. n \in 1..n
            BY <1>1, <3>1
          <6> QED  BY <4>2, <5>1, <6>1 DEF InSessions
        <5>3. m \in Int /\ m <= n
          BY <4>2
        <5> QED  BY <1>1, <5>2, <5>3, RingNumbers
      <4>5. n - m # StorageSize - 2
        <5>1. SUFFICES ASSUME n - m = StorageSize - 2 PROVE FALSE
          OBVIOUS
        <5>2. CircularNumber(f, -1) = PlaceOf(m - 1)
          <6>1. m \in Int
            BY <4>2
          <6>2. CircularNumber(PlaceOf(m), -1) = PlaceOf(m - 1)
            BY <6>1, PlaceBefore
          <6> QED  BY <4>3, <6>2
        <5> DEFINE y == m - 1
        <5>3. /\ (n + 1) - 1 = (y - 1) + StorageSize /\ StorageSize \in Nat \ {0}
              /\ y \in Int /\ y - 1 \in Int
          BY <1>1, <4>2, <5>1, RingNumbers
        <5> HIDE DEF y
        <5>4. PlaceOf(n + 1) = PlaceOf(y)
          BY <5>3, RemainderRound DEF PlaceOf
        <5> QED  BY <5>2, <5>4 DEF x, y
      <4>6. m \in Int /\ i \in Int /\ m <= i /\ j = n + 1 /\ StorageSize \in Int
        BY <1>1, <2>3, <3>1, <4>2, RingNumbers
      <4> QED  BY <1>1, <4>4, <4>5, <4>6
    <3> QED  BY <3>2, <3>3
  <2>4. j \in 1..n \/ j = n + 1
    BY <1>1
  <2> QED  BY <2>2, <2>3, <2>4
<1>6. Holds(k, x, n + 1)
  BY <1>1, RingNumbers DEF Holds, x
<1>7. ASSUME NEW p \in Numbers, p # x, NEW i \in 1..n, Holds(l, p, i) PROVE Holds(k, p, i)
  <2>1. PlaceOf(i) = p /\ i + StorageSize > n /\ StorageSize \in Nat \ {0}
    BY <1>7, RingNumbers DEF Holds
  <2>2. i + StorageSize # n + 1
    <3>1. SUFFICES ASSUME i + StorageSize = n + 1 PROVE FALSE
      OBVIOUS
    <3>2. (n + 1) - 1 = (i - 1) + StorageSize /\ i - 1 \in Int
      BY <1>1, <2>1, <3>1
    <3>3. x = PlaceOf(i)
      BY <2>1, <3>2, RemainderRound DEF PlaceOf, x
    <3> QED  BY <1>7, <2>1, <3>3
  <2>3. i \in 1..n + 1 /\ i + StorageSize > n + 1
    <3>1. n \in Nat /\ i \in 1..n /\ StorageSize \in Nat
      BY <1>1, <2>1
    <3> HIDE DEF n
    <3> QED  BY <2>1, <2>2, <3>1
  <2> QED  BY <1>1, <2>1, <2>3 DEF Holds
<1>8. TailOn(e, k)
  <2>1. SUFFICES ASSUME NEW p \in Numbers
                 PROVE  IF e[p].magic
                        THEN \E i \in 1..n + 1 :
                               /\ Holds(k, p, i)
                               /\ e[p].sid = k[i] /\ e[p].bid = IdOf(i)
                               /\ e[p].first = PlaceOf(Min(SidBlocks(k, k[i])))
                        ELSE p >= n + 1
    BY <1>1 DEF TailOn
  <2>2. CASE p = x
    <3>1. n + 1 \in 1..n + 1
      BY <1>1
    <3>2. e[p] = h /\ Holds(k, p, n + 1) /\ k[n + 1] = s
      BY <1>1, <1>4, <1>6, <2>2
    <3>3. h.magic /\ h.sid = s /\ h.bid = IdOf(n + 1) /\ h.first = PlaceOf(Min(SidBlocks(k, s)))
      BY <1>3
    <3> HIDE DEF h
    <3> QED  BY <3>1, <3>2, <3>3
  <2>3. CASE p # x /\ d[p].magic
    <3>1. PICK i \in 1..n : /\ Holds(l, p, i) /\ d[p].sid = l[i] /\ d[p].bid = IdOf(i)
                            /\ d[p].first = PlaceOf(Min(SidBlocks(l, l[i])))
      BY <2>3 DEF TailOn
    <3>2. i \in 1..n + 1 /\ k[i] = l[i] /\ Holds(k, p, i) /\ e[p] = d[p]
      BY <1>1, <1>4, <1>7, <2>3, <3>1
    <3>3. Min(SidBlocks(k, k[i])) = Min(SidBlocks(l, l[i]))
      <4>1. CASE l[i] = s
        <5>1. i \in SidBlocks(l, s)
          BY <4>1 DEF SidBlocks
        <5> QED  BY <1>2, <3>2, <4>1, <5>1
      <4>2. CASE l[i] # s
        BY <1>1, <1>2, <3>2, <4>2
      <4> QED  BY <4>1, <4>2
    <3> QED  BY <2>3, <3>1, <3>2, <3>3
  <2>4. CASE p # x /\ ~d[p].magic
    <3>1. p >= n /\ e[p] = d[p] /\ p \in 0..StorageSize - 1
      BY <1>4, <2>4 DEF TailOn, Numbers
    <3>2. n # p
      <4>1. SUFFICES ASSUME n = p PROVE FALSE
        OBVIOUS
      <4>2. (n + 1) - 1 = n /\ n \in 0..StorageSize - 1 /\ StorageSize \in Nat \ {0}
        BY <1>1, <3>1, <4>1, RingNumbers
      <4>3. x = n
        BY <4>2, RemainderSmall DEF PlaceOf, x
      <4> QED  BY <2>4, <4>1, <4>3
    <3>3. p >= n + 1
      BY <1>1, <3>1, <3>2, RingNumbers
    <3> QED  BY <2>4, <3>1, <3>3
  <2> QED  BY <2>2, <2>3, <2>4
<1>9. \A p \in Numbers : e[p].magic /\ e[p].sid = s => e[p].next = INVALID
  BY <1>4
<1>10. RefsOn(e, k)
  <2>1. SUFFICES ASSUME NEW p \in Numbers, e[p].magic, e[p].next # INVALID
                 PROVE  e[p].first = p /\ e[p].next = PlaceOf(Max(SidBlocks(k, e[p].sid)) + 1)
    BY DEF RefsOn
  <2>2. p # x /\ e[p] = d[p] /\ e[p].sid # s
    BY <1>4, <1>9, <2>1
  <2>3. d[p].sid \in Nat
    BY DEF Headers
  <2>4. SidBlocks(k, d[p].sid) = SidBlocks(l, d[p].sid)
    BY <1>2, <2>2, <2>3
  <2> QED  BY <2>1, <2>2, <2>4 DEF RefsOn
<1> QED  BY <1>3, <1>5, <1>8, <1>9, <1>10 DEF k, e, x

(***************************************************************************)
(* What the threads know of the log.                                       *)
(***************************************************************************)

FirstOf(sid) == PlaceOf(Min(SidBlocks(log, sid)))

\* The cache is the last session written.
CachedLast ==
  IsValid(recent) =>
    /\ Len(log) > 0 /\ recent.id = log[Len(log)]
    /\ recent.first = FirstOf(log[Len(log)]) /\ recent.last = PlaceOf(Len(log))
    /\ recentBlock = BlockAt(Len(log))

\* The session of the writer has no block yet; its last block ends the log.
NewOne ==
  /\ ws.last = INVALID /\ \A i \in 1..Len(log) : log[i] < ws.id
  /\ ws.first = PlaceOf(Len(log) + 1) /\ wb = BlockAt(Len(log) + 1)
InBlocks == Len(log) > 0 /\ log[Len(log)] = ws.id /\ ws.first = FirstOf(ws.id)
Extended == InBlocks /\ ws.last = PlaceOf(Len(log)) /\ wb = BlockAt(Len(log) + 1)

NoRef == NoRefOf(disk, ws.id)
CacheIsSession == recent.id = ws.id /\ recent.first = ws.first

Resting == {"closed", "scan", "scanLast", "halve", "forward", "found", "notFound", "copy",
            "notifyClosed"}

WriterOK ==
  LET a == at[SessionWriter] IN
  /\ a \in Resting => CachedLast
  /\ a = "notFound" => Len(log) = 0
  /\ a = "publish" => NewOne
  /\ a \in {"notify", "open"} =>
       /\ CacheIsSession /\ recent.last = ws.last /\ NoRef
       /\ (NewOne /\ recentBlock = wb) \/ (Extended /\ recentBlock = BlockAt(Len(log)))
  /\ a = "written" => CacheIsSession /\ InBlocks /\ wb = BlockAt(Len(log)) /\ NoRef
  /\ a = "closing" =>
       Extended /\ CacheIsSession /\ recent.last = ws.last /\ recentBlock = BlockAt(Len(log))

\* Headers that differ in the reference at most.
Same(h, g) == h.magic = g.magic /\ h.sid = g.sid /\ h.first = g.first /\ h.bid = g.bid

\* The end of the ring is between the blocks that a search has read.
ScanAt(t) ==
  /\ at[t] \in Searching =>
       /\ Len(log) > 0 /\ Same(scan[t].left, disk[scan[t].l])
       /\ t = SessionWriter => scan[t].left = disk[scan[t].l]
  /\ at[t] = "scanLast" => scan[t].l = 0 /\ scan[t].r = StorageSize - 1
  /\ at[t] = "halve" => /\ scan[t].l <= PlaceOf(Len(log)) /\ PlaceOf(Len(log)) < scan[t].r
                        /\ Same(scan[t].right, disk[scan[t].r])
  /\ at[t] \in {"forward", "found"} => scan[t].l = PlaceOf(Len(log))

\* A reader's search counts as long as nothing is in the cache.
SearchOK == \A t \in Searchers : t = SessionWriter \/ ~IsValid(recent) => ScanAt(t)

\* The invariant about the log, when sessions are not left without a block.
LogInv == InSessions(log) /\ TailOn(disk, log) /\ RefsOn(disk, log) /\ WriterOK /\ SearchOK

LEMMA LogInit ==
  ASSUME StorageInit
  PROVE  LogInv
<1> USE DEF StorageInit, RamAtStart
<1>1. log \in Seq(Nat) /\ InSessions(log)
  BY LogsAssumption DEF InSessions
<1>2. TailOn(disk, log) /\ RefsOn(disk, log)
  BY <1>1, TailAfter
<1>3. at[SessionWriter] = "closed" /\ \A r \in Readers : at[r] = "idle"
  BY SearchersAre
<1>4. WriterOK
  BY <1>3, NothingOK DEF WriterOK, CachedLast
<1>5. SearchOK
  <2>1. \A t \in Searchers : at[t] \in {"closed", "idle"}
    OBVIOUS
  <2> QED  BY <2>1 DEF SearchOK, ScanAt, Searching
<1> QED  BY <1>1, <1>2, <1>4, <1>5 DEF LogInv

\* Where the searches stay.
LEMMA SearchKept ==
  ASSUME SearchOK, NEW t \in Searchers, at'[t] \notin Searching,
         \A u \in Searchers \ {t} : at'[u] = at[u] /\ scan'[u] = scan[u],
         log' = log, IsValid(recent) => IsValid(recent'), StorageOK, ScanOK,
         \A p \in Numbers : Same(disk'[p], disk[p]), disk' = disk \/ t = SessionWriter
  PROVE  SearchOK'
<1>1. SUFFICES ASSUME NEW u \in Searchers, u = SessionWriter \/ ~IsValid(recent')
               PROVE  ScanAt(u)'
  BY DEF SearchOK, IsValid
<1>2. CASE u = t
  BY <1>2 DEF ScanAt, Searching
<1>3. CASE u # t
  <2>1. ScanAt(u) /\ at'[u] = at[u] /\ scan'[u] = scan[u]
    BY <1>1, <1>3 DEF SearchOK
  <2>2. at[u] \in Searching => scan[u].l \in Numbers /\ scan[u].r \in Numbers
    BY DEF ScanOK, Searching
  <2>3. disk' = disk \/ u # SessionWriter
    BY <1>3
  <2> QED  BY <2>1, <2>2, <2>3 DEF ScanAt, Same, Searching
<1> QED  BY <1>2, <1>3

\* Nobody searches when the writer does not and the cache is there.
LEMMA NoSearch ==
  ASSUME at'[SessionWriter] \notin Searching, IsValid(recent')
  PROVE  SearchOK'
BY DEF SearchOK, ScanAt, IsValid, Searching

LEMMA SameOf ==
  ASSUME NEW d \in [Numbers -> Headers], NEW p, NEW x
  PROVE  \A q \in Numbers : Same(SetForward(d, p, x)[q], d[q])
<1>1. TAKE q \in Numbers
<1>2. d[q] \in Headers
  OBVIOUS
<1> QED  BY <1>2 DEF SetForward, Same, Headers

(***************************************************************************)
(* The search.  The identifiers rise from the first block of the ring to   *)
(* the last one written and again from the block behind it to the end, and *)
(* they break in between; the ring holds less than half of them.           *)
(***************************************************************************)

\* The block at a place, from the place of the last block.
LEMMA WrittenAt ==
  ASSUME StorageOK, LogInv, Len(log) > 0, NEW p \in Numbers
  PROVE  LET n == Len(log)
             e == PlaceOf(n)
         IN  /\ n \in Nat /\ e \in Numbers
             /\ disk[p].magic <=> p < n
             /\ p <= e => disk[p].magic /\ disk[p].bid = IdOf(n - e + p)
             /\ p > e /\ disk[p].magic => disk[p].bid = IdOf(n - e + p - StorageSize)
<1> DEFINE n == Len(log)
           e == PlaceOf(n)
<1>1. n \in Nat \ {0} /\ e \in Numbers /\ p \in Int /\ e \in Int
  BY PlaceRange DEF StorageOK, Numbers
<1>2. /\ disk[p].magic <=> p < n
      /\ disk[p].magic => disk[p].bid = IdOf(IndexAt(n, p))
  BY TailAt DEF LogInv, StorageOK
<1>3. IndexAt(n, p) >= 1 <=> p < n
  BY <1>1, IndexAtPlace
<1>4. IndexAt(n, p) = IF p <= e THEN n - e + p ELSE n - e + p - StorageSize
  BY DEF IndexAt
<1>5. p <= e => p < n
  <2>1. e < n
    <3>1. IndexAt(n, e) = n
      BY <1>1 DEF IndexAt
    <3> QED  BY <1>1, <3>1, IndexAtPlace
  <2> QED  BY <1>1, <2>1
<1> QED  BY <1>1, <1>2, <1>4, <1>5

\* The middle block is in the half with the newer identifiers if the break is
\* before it.
LEMMA HalfOf ==
  ASSUME StorageOK, LogInv, Len(log) > 0,
         NEW l \in Numbers, NEW r \in Numbers, NEW m \in Numbers,
         l <= PlaceOf(Len(log)), PlaceOf(Len(log)) < r, l < m, m < r
  PROVE  InLeftHalf(disk[l], disk[m], disk[r]) <=> PlaceOf(Len(log)) < m
<1> DEFINE n == Len(log)
           e == PlaceOf(n)
           S == StorageSize
<1>1. /\ n \in Nat /\ e \in Numbers /\ disk[l].bid = IdOf(n - e + l)
      /\ disk[m].magic <=> m < n
      /\ m <= e => disk[m].bid = IdOf(n - e + m)
      /\ m > e /\ disk[m].magic => disk[m].bid = IdOf(n - e + m - S)
      /\ disk[r].magic <=> r < n
      /\ disk[r].magic => disk[r].bid = IdOf(n - e + r - S)
  BY WrittenAt
<1>2. /\ l \in Nat /\ r \in Nat /\ m \in Nat /\ e \in Nat /\ r < S
      /\ S \in Nat /\ IdMod \in Nat \ {0} /\ IdMod >= 2 * S /\ n \in Nat
  BY <1>1, StorageAssumption, RingNumbers DEF Numbers
<1>3. CASE disk[r].magic /\ m <= e
  <2> DEFINE a == n - e + l
             b == n - e + m
             c == n - e + r - S
  <2>1. a \in Int /\ b \in Int /\ c \in Int
    BY <1>2
  <2>2. b - a = m - l /\ c - b = r - m - S
    BY <1>2
  <2>3. 0 <= m - l /\ m - l < IdMod /\ -IdMod <= r - m - S /\ r - m - S < 0
    BY <1>2
  <2>4. disk[l].bid = a % IdMod /\ disk[m].bid = b % IdMod /\ disk[r].bid = c % IdMod
    BY <1>1, <1>3 DEF IdOf
  <2> HIDE DEF a, b, c
  <2>5. ((b % IdMod) - (a % IdMod)) % IdMod = m - l
    BY <1>2, <2>1, <2>2, <2>3, RemainderDistance
  <2>6. ((c % IdMod) - (b % IdMod)) % IdMod = r - m - S + IdMod
    <3>1. -IdMod <= c - b /\ c - b < 0
      BY <2>2, <2>3
    <3>2. ((c % IdMod) - (b % IdMod)) % IdMod = c - b + IdMod
      BY <1>2, <2>1, <3>1, RemainderDistance
    <3> QED  BY <2>2, <3>2
  <2>7. ~(m - l > r - m - S + IdMod)
    BY <1>2
  <2>8. ~InLeftHalf(disk[l], disk[m], disk[r])
    BY <1>3, <2>4, <2>5, <2>6, <2>7 DEF InLeftHalf
  <2>9. ~(e < m)
    BY <1>2, <1>3
  <2> QED  BY <2>8, <2>9
<1>4. CASE disk[r].magic /\ ~(m <= e)
  <2> DEFINE a == n - e + l
             b == n - e + m - S
             c == n - e + r - S
  <2>1. a \in Int /\ b \in Int /\ c \in Int
    BY <1>2
  <2>2. b - a = m - l - S /\ c - b = r - m
    BY <1>2
  <2>3. 0 <= r - m /\ r - m < IdMod /\ -IdMod <= m - l - S /\ m - l - S < 0
    BY <1>2
  <2>4. disk[l].bid = a % IdMod /\ disk[m].bid = b % IdMod /\ disk[r].bid = c % IdMod
    <3>1. m > e /\ disk[m].magic
      BY <1>1, <1>2, <1>4
    <3> QED  BY <1>1, <1>4, <3>1 DEF IdOf
  <2> HIDE DEF a, b, c
  <2>5. ((b % IdMod) - (a % IdMod)) % IdMod = m - l - S + IdMod
    <3>1. -IdMod <= b - a /\ b - a < 0
      BY <2>2, <2>3
    <3>2. ((b % IdMod) - (a % IdMod)) % IdMod = b - a + IdMod
      BY <1>2, <2>1, <3>1, RemainderDistance
    <3> QED  BY <2>2, <3>2
  <2>6. ((c % IdMod) - (b % IdMod)) % IdMod = r - m
    BY <1>2, <2>1, <2>2, <2>3, RemainderDistance
  <2>7. m - l - S + IdMod > r - m
    BY <1>2
  <2>8. InLeftHalf(disk[l], disk[m], disk[r])
    BY <1>4, <2>4, <2>5, <2>6, <2>7 DEF InLeftHalf
  <2>9. e < m
    BY <1>2, <1>4
  <2> QED  BY <2>8, <2>9
<1>5. CASE ~disk[r].magic
  <2>1. n <= r /\ n - 1 \in 0..S - 1 /\ S \in Nat \ {0}
    BY <1>1, <1>2, <1>5
  <2>2. e = n - 1
    BY <2>1, RemainderSmall DEF PlaceOf
  <2>3. disk[m].magic <=> ~(e < m)
    BY <1>1, <1>2, <2>2
  <2> QED  BY <1>5, <2>3 DEF InLeftHalf
<1> QED  BY <1>3, <1>4, <1>5

\* Without a break at the border the end is before the last place.
LEMMA BorderOf ==
  ASSUME StorageOK, LogInv, Len(log) > 0
  PROVE  LET right == disk[StorageSize - 1]
             border == right.magic /\ (right.bid + 1) % IdMod # disk[0].bid
         IN  border <=> PlaceOf(Len(log)) = StorageSize - 1
<1> DEFINE n == Len(log)
           e == PlaceOf(n)
           S == StorageSize
           right == disk[S - 1]
<1>1. 0 \in Numbers /\ S - 1 \in Numbers /\ S \in Nat \ {0} /\ 0 < S - 1
  BY RingNumbers DEF Numbers
<1>2. /\ n \in Nat /\ e \in Numbers /\ disk[0].bid = IdOf(n - e + 0)
      /\ right.magic <=> S - 1 < n
      /\ S - 1 <= e => right.magic /\ right.bid = IdOf(n - e + (S - 1))
      /\ S - 1 > e /\ right.magic => right.bid = IdOf(n - e + (S - 1) - S)
  <2>1. n \in Nat /\ e \in Numbers /\ (0 <= e => disk[0].bid = IdOf(n - e + 0))
    BY <1>1, WrittenAt
  <2>2. /\ right.magic <=> S - 1 < n
        /\ S - 1 <= e => right.magic /\ right.bid = IdOf(n - e + (S - 1))
        /\ S - 1 > e /\ right.magic => right.bid = IdOf(n - e + (S - 1) - S)
    BY <1>1, WrittenAt
  <2>3. 0 <= e
    BY <2>1 DEF Numbers
  <2> QED  BY <2>1, <2>2, <2>3
<1>3. e \in 0..S - 1 /\ IdMod \in Nat \ {0} /\ IdMod >= 2 * S
  BY <1>2, StorageAssumption, RingNumbers DEF Numbers
<1>4. CASE e = S - 1
  <2> DEFINE a == n - e
             b == n + 1
  <2>1. a \in Int /\ b \in Int /\ b - a = S /\ n \in Int /\ a <= b /\ b < a + IdMod
    BY <1>1, <1>2, <1>3, <1>4
  <2>2. n - e + 0 = a /\ n - e + (S - 1) = n
    BY <1>1, <1>2, <1>3, <1>4
  <2>3. right.magic /\ right.bid = IdOf(n) /\ disk[0].bid = IdOf(a)
    BY <1>1, <1>2, <1>4, <2>2
  <2>4. (right.bid + 1) % IdMod = IdOf(b)
    BY <2>1, <2>3, IdBehind
  <2> HIDE DEF a, b
  <2>5. IdOf(b) # IdOf(a)
    <3>1. SUFFICES ASSUME IdOf(a) = IdOf(b) PROVE FALSE
      OBVIOUS
    <3>2. a = b
      BY <1>3, <2>1, <3>1, RemaindersDiffer DEF IdOf
    <3> QED  BY <1>1, <2>1, <3>2
  <2> QED  BY <1>4, <2>3, <2>4, <2>5
<1>5. CASE e # S - 1 /\ right.magic
  <2> DEFINE a == n - e
  <2>1. a \in Int /\ a - 1 \in Int /\ (a - 1) + 1 = a /\ S - 1 > e
    BY <1>1, <1>2, <1>3, <1>5
  <2>2. n - e + 0 = a /\ n - e + (S - 1) - S = a - 1
    BY <1>1, <1>2, <1>3
  <2>3. right.bid = IdOf(a - 1) /\ disk[0].bid = IdOf(a)
    BY <1>2, <1>5, <2>1, <2>2
  <2> HIDE DEF a
  <2>4. (right.bid + 1) % IdMod = IdOf(a)
    BY <2>1, <2>3, IdBehind
  <2> QED  BY <1>5, <2>3, <2>4
<1>6. CASE ~right.magic
  <2>1. e # S - 1
    BY <1>1, <1>2, <1>3, <1>6
  <2> QED  BY <1>6, <2>1
<1> QED  BY <1>4, <1>5, <1>6

LEMMA MiddleOf ==
  ASSUME NEW l \in Nat, NEW r \in Nat, l + 1 < r
  PROVE  (l + r) \div 2 \in Nat /\ l < (l + r) \div 2 /\ (l + r) \div 2 < r
OBVIOUS

\* A step of a search keeps the end of the ring between its blocks.
LEMMA ScanAtStep ==
  ASSUME StorageOK, ScanOK, LogInv, NEW t \in Searchers, Scan(t),
         t = SessionWriter \/ ~IsValid(recent)
  PROVE  ScanAt(t)' /\ (at'[t] = "notFound" => Len(log) = 0)
<1> DEFINE n == Len(log)
           e == PlaceOf(n)
<1> USE DEF ScanUnchanged, Go
<1>1. UNCHANGED <<disk, log>> /\ ScanAt(t) /\ n \in Nat
  BY DEF Scan, ScanFirst, ScanLast, ScanHalve, ScanForward, LogInv, SearchOK, StorageOK
<1>2. scan[t] \in Scans /\ \A p \in Numbers : disk[p] \in Headers
  BY DEF StorageOK
<1>3. e \in Numbers
  BY <1>1, PlaceRange
<1>4. CASE ScanFirst(t)
  <2>1. 0 \in Numbers /\ (disk[0].magic <=> 0 < n)
    BY RingNumbers, TailAt DEF LogInv, StorageOK
  <2>2. CASE disk[0].magic
    <3> DEFINE s == [NoScan EXCEPT !.r = StorageSize - 1, !.left = disk[0]]
    <3>1. at'[t] = "scanLast" /\ scan'[t] = s
      BY <1>4, <2>2 DEF ScanFirst, StorageOK
    <3>2. s.l = 0 /\ s.r = StorageSize - 1 /\ s.left = disk[0]
      BY DEF NoScan
    <3> QED  BY <1>1, <2>1, <2>2, <3>1, <3>2 DEF ScanAt, Same
  <2>3. CASE ~disk[0].magic
    <3>1. at'[t] \in {"notFound", "syncOpen"} /\ n = 0
      BY <1>1, <1>4, <2>1, <2>3 DEF ScanFirst, StorageOK
    <3> QED  BY <3>1 DEF ScanAt, Searching
  <2> QED  BY <2>2, <2>3
<1>5. CASE ScanLast(t)
  <2> DEFINE right == disk[StorageSize - 1]
             border == right.magic /\ (right.bid + 1) % IdMod # scan[t].left.bid
  <2>1. /\ at[t] = "scanLast" /\ n > 0 /\ scan[t].l = 0 /\ scan[t].r = StorageSize - 1
        /\ Same(scan[t].left, disk[0]) /\ (t = SessionWriter => scan[t].left = disk[0])
    BY <1>1, <1>5 DEF ScanLast, ScanAt, Searching
  <2>2. border <=> e = StorageSize - 1
    BY <2>1, BorderOf DEF Same
  <2>3. /\ at'[t] = IF border THEN "forward" ELSE "halve"
        /\ scan' = [scan EXCEPT ![t].right = right,
                                ![t].l = IF border THEN StorageSize - 1 ELSE @,
                                ![t].left = IF border THEN right ELSE @]
    BY <1>5 DEF ScanLast, StorageOK
  <2> HIDE DEF border
  <2>4. /\ scan'[t].l = (IF border THEN StorageSize - 1 ELSE 0)
        /\ scan'[t].r = StorageSize - 1 /\ scan'[t].right = right
        /\ scan'[t].left = (IF border THEN right ELSE scan[t].left)
    BY <1>2, <2>1, <2>3 DEF StorageOK, Scans
  <2>5. CASE border
    BY <1>1, <2>1, <2>2, <2>3, <2>4, <2>5 DEF ScanAt, Same
  <2>6. CASE ~border
    <3>1. 0 <= e /\ e < StorageSize - 1
      BY <1>3, <2>2, <2>6, RingNumbers DEF Numbers
    <3> QED  BY <1>1, <2>1, <2>3, <2>4, <2>6, <3>1 DEF ScanAt, Same
  <2> QED  BY <2>5, <2>6
<1>6. CASE ScanHalve(t)
  <2> DEFINE l == scan[t].l
             r == scan[t].r
             m == (l + r) \div 2
  <2>1. /\ at[t] = "halve" /\ n > 0 /\ l <= e /\ e < r
        /\ Same(scan[t].left, disk[l]) /\ Same(scan[t].right, disk[r])
        /\ t = SessionWriter => scan[t].left = disk[l]
    BY <1>1, <1>6 DEF ScanHalve, ScanAt, Searching
  <2>2. l \in Numbers /\ r \in Numbers
    BY <2>1 DEF ScanOK
  <2>3. CASE l + 1 = r
    <3>1. at'[t] = "forward" /\ scan' = scan
      BY <1>6, <2>3 DEF ScanHalve, StorageOK
    <3>2. l = e
      BY <1>3, <2>1, <2>2, <2>3 DEF Numbers
    <3> QED  BY <1>1, <2>1, <3>1, <3>2 DEF ScanAt
  <2>4. CASE l + 1 # r
    <3>1. /\ at' = at
          /\ scan' = [scan EXCEPT ![t] =
                         IF InLeftHalf(scan[t].left, disk[m], scan[t].right)
                         THEN [scan[t] EXCEPT !.r = m, !.right = disk[m]]
                         ELSE [scan[t] EXCEPT !.l = m, !.left = disk[m]]]
      BY <1>6, <2>4 DEF ScanHalve
    <3>2. m \in Numbers /\ l < m /\ m < r
      <4>1. l \in Nat /\ r \in Nat /\ l + 1 < r /\ r <= StorageSize - 1
        BY <1>3, <2>1, <2>2, <2>4, RingNumbers DEF Numbers
      <4>2. m \in Nat /\ l < m /\ m < r
        BY <4>1, MiddleOf
      <4> HIDE DEF l, r, m
      <4> QED  BY <4>1, <4>2, RingNumbers DEF Numbers
    <3>3. InLeftHalf(disk[l], disk[m], disk[r]) <=> e < m
      BY <2>1, <2>2, <3>2, HalfOf
    <3>4. InLeftHalf(scan[t].left, disk[m], scan[t].right) <=> e < m
      BY <2>1, <3>3 DEF InLeftHalf, Same
    <3>5. CASE e < m
      <4>1. scan'[t] = [scan[t] EXCEPT !.r = m, !.right = disk[m]]
        BY <3>1, <3>4, <3>5 DEF StorageOK
      <4>2. /\ scan'[t].r = m /\ scan'[t].right = disk[m]
            /\ scan'[t].l = l /\ scan'[t].left = scan[t].left
        BY <1>2, <4>1 DEF Scans
      <4> HIDE DEF l, r, m
      <4> QED  BY <1>1, <2>1, <3>1, <3>5, <4>2 DEF ScanAt, Same
    <3>6. CASE ~(e < m)
      <4>1. scan'[t] = [scan[t] EXCEPT !.l = m, !.left = disk[m]]
        BY <3>1, <3>4, <3>6 DEF StorageOK
      <4>2. /\ scan'[t].r = r /\ scan'[t].right = scan[t].right
            /\ scan'[t].l = m /\ scan'[t].left = disk[m]
        BY <1>2, <4>1 DEF Scans
      <4>3. m <= e
        BY <1>3, <3>2, <3>6 DEF Numbers
      <4> HIDE DEF l, r, m
      <4> QED  BY <1>1, <2>1, <3>1, <4>2, <4>3 DEF ScanAt, Same
    <3> QED  BY <3>5, <3>6
  <2> QED  BY <2>3, <2>4
<1>7. CASE ScanForward(t)
  <2>1. at[t] = "forward" /\ at'[t] = "found"
        /\ scan' = [scan EXCEPT ![t].next = disk[scan[t].left.first].next]
    BY <1>7 DEF ScanForward, StorageOK
  <2>2. scan'[t].l = scan[t].l /\ scan'[t].left = scan[t].left
    BY <1>2, <2>1 DEF StorageOK, Scans
  <2> QED  BY <1>1, <2>1, <2>2 DEF ScanAt, Searching
<1> QED  BY <1>4, <1>5, <1>6, <1>7 DEF Scan

LEMMA LogByScan ==
  ASSUME StorageOK, ScanOK, LogInv, NEW t \in Searchers, Scan(t)
  PROVE  LogInv'
<1>1. /\ UNCHANGED <<disk, recent, recentBlock, ws, wb, log>>
      /\ at[t] \in {"scan", "scanLast", "halve", "forward"}
  BY DEF Scan, ScanFirst, ScanLast, ScanHalve, ScanForward, ScanUnchanged
<1>2. /\ at'[t] \in {"scanLast", "halve", "forward", "found", "notFound", "syncOpen"}
      /\ at'[t] = "syncOpen" => t # SessionWriter
      /\ \A u \in Searchers \ {t} : at'[u] = at[u] /\ scan'[u] = scan[u]
  BY DEF Scan, ScanFirst, ScanLast, ScanHalve, ScanForward, Go, StorageOK
<1>3. InSessions(log') /\ TailOn(disk', log') /\ RefsOn(disk', log')
  BY <1>1 DEF LogInv
<1>4. SearchOK'
  <2>1. SUFFICES ASSUME NEW u \in Searchers, u = SessionWriter \/ ~IsValid(recent)
                 PROVE  ScanAt(u)'
    BY <1>1 DEF SearchOK, IsValid
  <2>2. CASE u = t
    BY <2>1, <2>2, ScanAtStep
  <2>3. CASE u # t
    BY <1>1, <1>2, <2>1, <2>3 DEF LogInv, SearchOK, ScanAt
  <2> QED  BY <2>2, <2>3
<1>5. WriterOK'
  <2>1. CASE t # SessionWriter
    <3>1. at'[SessionWriter] = at[SessionWriter]
      BY <1>2, <2>1, SearchersAre
    <3> QED
      BY <1>1, <3>1 DEF LogInv, WriterOK, CachedLast, NewOne, InBlocks, Extended, NoRef,
         CacheIsSession, FirstOf, IsValid
  <2>2. CASE t = SessionWriter
    <3>1. at[SessionWriter] \in Resting /\ at'[SessionWriter] \in Resting
      BY <1>1, <1>2, <2>2 DEF Resting
    <3>2. CachedLast
      BY <3>1 DEF LogInv, WriterOK
    <3>3. CachedLast'
      BY <1>1, <3>2 DEF CachedLast, FirstOf, IsValid
    <3>4. at'[SessionWriter] = "notFound" => Len(log') = 0
      BY <1>1, <2>2, ScanAtStep
    <3>5. at'[SessionWriter] \notin {"publish", "notify", "open", "written", "closing"}
      BY <3>1 DEF Resting
    <3> QED  BY <3>3, <3>4, <3>5 DEF WriterOK
  <2> QED  BY <2>1, <2>2
<1> QED  BY <1>3, <1>4, <1>5 DEF LogInv

(***************************************************************************)
(* The readers: all that they change of what the log is about is the cache *)
(* they install.                                                           *)
(***************************************************************************)

LEMMA ReaderMoves ==
  ASSUME StorageOK, RequestsOK, ScanOK, NEW r \in Readers, SessionReaderStep(r)
  PROVE  /\ UNCHANGED <<disk, ws, wb, log>>
         /\ at'[r] \notin Searching
         /\ \A u \in Searchers \ {r} : at'[u] = at[u] /\ scan'[u] = scan[u]
         /\ \/ UNCHANGED <<recent, recentBlock>>
            \/ /\ at[r] = "found" /\ ~IsValid(recent)
               /\ recent' = FoundSession(scan[r])
               /\ recentBlock' = [no |-> scan[r].l, id |-> scan[r].left.bid]
<1> USE DEF ReaderUnchanged
<1>0. r \in Searchers /\ at \in [Searchers -> Labels] /\ DOMAIN scan = Searchers
  BY SearchersAre DEF StorageOK
<1>1. UNCHANGED <<disk, ws, wb, log>>
  BY DEF SessionReaderStep, OpenSession, PrepareOpen, Install, SyncOpen, OpenCopy, Previous, Back,
     BackFirst, NextSession, NextFirst, CopyNext, ReadBlock, PrepareRead, SyncRead, Fetch
<1>2. ASSUME NEW x, Goto(r, x), x \notin Searching
      PROVE  /\ at'[r] \notin Searching
             /\ \A u \in Searchers \ {r} : at'[u] = at[u] /\ scan'[u] = scan[u]
  BY <1>0, <1>2 DEF Goto, Go, EndLocals
<1>3. ASSUME NEW x, Go(r, x), x \notin Searching
      PROVE  at'[r] \notin Searching /\ \A u \in Searchers \ {r} : at'[u] = at[u]
  BY <1>0, <1>3 DEF Go
<1>4. ASSUME UNCHANGED scan \/ \E s : scan' = [scan EXCEPT ![r] = s]
      PROVE  \A u \in Searchers \ {r} : scan'[u] = scan[u]
  BY <1>0, <1>4
<1>5. {"idle", "scan", "fetch", "prepareOpen", "syncOpen", "openCopy", "waitOpen", "back", "backFirst",
       "next", "copyNext", "prepareRead", "syncRead", "waitRead"} \cap Searching = {}
  BY DEF Searching
<1>6. CASE Install(r)
  BY <1>1, <1>3, <1>4, <1>5, <1>6 DEF Install
<1>7. CASE ~Install(r)
  <2>1. UNCHANGED <<recent, recentBlock>>
    BY <1>7 DEF SessionReaderStep, OpenSession, PrepareOpen, SyncOpen, OpenCopy, Previous, Back,
       BackFirst, NextSession, NextFirst, CopyNext, ReadBlock, PrepareRead, SyncRead, Fetch
  <2>2. CASE OpenSession(r) \/ Previous(r) \/ ReadBlock(r)
    <3>1. \E x \in {"prepareOpen", "back", "prepareRead"} : Go(r, x)
      BY <2>2 DEF OpenSession, Previous, ReadBlock, Ask
    <3>2. UNCHANGED scan \/ \E s : scan' = [scan EXCEPT ![r] = s]
      BY <2>2 DEF OpenSession, Previous, ReadBlock
    <3> QED  BY <1>1, <1>3, <1>4, <1>5, <2>1, <3>1, <3>2
  <2>3. CASE PrepareOpen(r) \/ SyncOpen(r) \/ OpenCopy(r)
    <3>1. \E x \in {"idle", "scan", "openCopy", "waitOpen", "back"} : Goto(r, x)
      BY <2>3 DEF PrepareOpen, SyncOpen, OpenCopy
    <3> QED  BY <1>1, <1>2, <1>5, <2>1, <3>1
  <2>4. CASE BackFirst(r) \/ PrepareRead(r) \/ SyncRead(r) \/ Fetch(r)
    <3>1. \E x \in {"idle", "back", "fetch", "syncRead", "prepareRead", "waitRead"} : Goto(r, x)
      BY <2>4 DEF BackFirst, PrepareRead, SyncRead, Fetch
    <3> QED  BY <1>1, <1>2, <1>5, <2>1, <3>1
  <2>5. CASE Back(r) \/ NextSession(r) \/ NextFirst(r)
    <3>1. \/ Goto(r, "idle")
          \/ /\ \E x \in {"backFirst", "next", "copyNext"} : Go(r, x)
             /\ \E s : scan' = [scan EXCEPT ![r] = s]
      BY <2>5 DEF Back, NextSession, NextFirst
    <3> QED  BY <1>1, <1>2, <1>3, <1>4, <1>5, <2>1, <3>1
  <2>6. CASE CopyNext(r)
    <3>1. \/ Goto(r, "idle")
          \/ /\ UNCHANGED at /\ at[r] = "copyNext"
             /\ scan' = [scan EXCEPT ![r].l = scan[r].l + 1]
      BY <2>6 DEF CopyNext
    <3>2. ASSUME UNCHANGED at, at[r] = "copyNext", scan' = [scan EXCEPT ![r].l = scan[r].l + 1]
          PROVE  /\ at'[r] \notin Searching
                 /\ \A u \in Searchers \ {r} : at'[u] = at[u] /\ scan'[u] = scan[u]
      BY <1>0, <1>5, <3>2
    <3> QED  BY <1>1, <1>2, <1>5, <2>1, <3>1, <3>2
  <2> QED  BY <1>7, <2>2, <2>3, <2>4, <2>5, <2>6 DEF SessionReaderStep
<1> QED  BY <1>6, <1>7

\* The block at the end of the log.
LEMMA LastAt ==
  ASSUME StorageOK, TailOn(disk, log), Len(log) > 0
  PROVE  LET h == disk[PlaceOf(Len(log))]
         IN  /\ h.sid = log[Len(log)] /\ h.first = FirstOf(log[Len(log)])
             /\ h.bid = IdOf(Len(log)) /\ h.magic
<1> DEFINE n == Len(log)
           e == PlaceOf(n)
<1>1. n \in Nat \ {0} /\ e \in Numbers /\ e \in Int /\ log \in Seq(Nat)
  BY PlaceRange DEF StorageOK, Numbers
<1>2. IndexAt(n, e) = n
  BY <1>1 DEF IndexAt
<1>3. e < n
  BY <1>1, <1>2, IndexAtPlace
<1> HIDE DEF e
<1>4. disk[e].magic
  BY <1>1, <1>3, TailAt DEF StorageOK
<1>5. /\ disk[e].sid = log[IndexAt(n, e)] /\ disk[e].bid = IdOf(IndexAt(n, e))
      /\ disk[e].first = PlaceOf(Min(SidBlocks(log, log[IndexAt(n, e)])))
  BY <1>1, <1>4, TailAt DEF StorageOK
<1> QED  BY <1>2, <1>4, <1>5 DEF FirstOf, e

LEMMA LogByReader ==
  ASSUME StorageOK, RequestsOK, ScanOK, CachedOK, LogInv, NEW r \in Readers,
         SessionReaderStep(r)
  PROVE  LogInv'
<1>1. /\ UNCHANGED <<disk, ws, wb, log>> /\ at'[r] \notin Searching
      /\ \A u \in Searchers \ {r} : at'[u] = at[u] /\ scan'[u] = scan[u]
      /\ \/ UNCHANGED <<recent, recentBlock>>
         \/ /\ at[r] = "found" /\ ~IsValid(recent)
            /\ recent' = FoundSession(scan[r])
            /\ recentBlock' = [no |-> scan[r].l, id |-> scan[r].left.bid]
  BY ReaderMoves
<1>2. r \in Searchers /\ at'[SessionWriter] = at[SessionWriter]
  BY <1>1, SearchersAre
<1>3. SearchOK'
  <2>1. IsValid(recent) => IsValid(recent')
    BY <1>1 DEF IsValid
  <2>2. \A p \in Numbers : Same(disk'[p], disk[p])
    BY <1>1 DEF Same
  <2> QED  BY <1>1, <1>2, <2>1, <2>2, SearchKept DEF LogInv
<1>4. WriterOK'
  <2>1. CASE UNCHANGED <<recent, recentBlock>>
    BY <1>1, <1>2, <2>1 DEF LogInv, WriterOK, CachedLast, NewOne, InBlocks, Extended, NoRef,
       CacheIsSession, FirstOf, IsValid
  <2>2. CASE /\ at[r] = "found" /\ ~IsValid(recent)
             /\ recent' = FoundSession(scan[r])
             /\ recentBlock' = [no |-> scan[r].l, id |-> scan[r].left.bid]
    <3>1. at[SessionWriter] \notin {"notify", "open", "written", "closing"}
      BY <2>2 DEF CachedOK, WithCache
    <3>2. ScanAt(r)
      BY <1>2, <2>2 DEF LogInv, SearchOK
    <3>3. /\ Len(log) > 0 /\ scan[r].l = PlaceOf(Len(log))
          /\ Same(scan[r].left, disk[PlaceOf(Len(log))])
      BY <2>2, <3>2 DEF ScanAt, Searching
    <3>4. CachedLast'
      BY <1>1, <2>2, <3>3, LastAt DEF LogInv, CachedLast, FoundSession, Same, BlockAt, FirstOf, IsValid
    <3>5. at[SessionWriter] = "publish" => NewOne'
      BY <1>1 DEF LogInv, WriterOK, NewOne
    <3>6. at[SessionWriter] = "notFound" => Len(log') = 0
      BY <1>1 DEF LogInv, WriterOK
    <3> QED  BY <1>2, <3>1, <3>4, <3>5, <3>6 DEF WriterOK
  <2> QED  BY <1>1, <2>1, <2>2
<1>5. InSessions(log') /\ TailOn(disk', log') /\ RefsOn(disk', log')
  BY <1>1 DEF LogInv
<1> QED  BY <1>3, <1>4, <1>5 DEF LogInv

(***************************************************************************)
(* The writer.                                                             *)
(***************************************************************************)

\* A new session behind the last one.
LEMMA NewIdAbove ==
  ASSUME RequestsOK, NEW last \in Nat, Monotone(last)
  PROVE  NewId(last) \in Nat /\ last < NewId(last)
<1>1. req[SessionWriter].no \in Nat
  BY SearchersAre DEF RequestsOK
<1> QED  BY <1>1 DEF Monotone, NewId, NEXT

LEMMA LogCreate ==
  ASSUME StorageOK, ScanOK, LogInv, ~EmptySessions, NEW sid \in Asked, Create(sid)
  PROVE  LogInv'
<1> DEFINE W == SessionWriter
<1>1. UNCHANGED <<disk, recent, recentBlock, ws, wb, scan, log>>
  BY DEF Create
<1>2. /\ at[W] = "closed" \/ (at[W] = "open" /\ HasBlocks)
      /\ at'[W] \in {"copy", "scan"} /\ \A u \in Searchers \ {W} : at'[u] = at[u]
  BY SearchersAre DEF Create, Go, StorageOK
<1>3. CachedLast
  <2>1. CASE at[W] = "closed"
    BY <2>1 DEF LogInv, WriterOK, Resting
  <2>2. CASE at[W] = "open" /\ HasBlocks
    BY <2>2 DEF LogInv, WriterOK, CachedLast, CacheIsSession, NewOne, Extended, InBlocks, HasBlocks
  <2> QED  BY <1>2, <2>1, <2>2
<1>4. WriterOK'
  BY <1>1, <1>2, <1>3 DEF WriterOK, CachedLast, FirstOf, IsValid
<1>5. SearchOK'
  <2>1. W \in Searchers /\ at'[W] \notin Searching
    BY <1>2, SearchersAre DEF Searching
  <2>2. \A p \in Numbers : Same(disk'[p], disk[p])
    BY <1>1 DEF Same
  <2>3. IsValid(recent) => IsValid(recent')
    BY <1>1 DEF IsValid
  <2> QED  BY <1>1, <1>2, <2>1, <2>2, <2>3, SearchKept DEF LogInv
<1> QED  BY <1>1, <1>4, <1>5 DEF LogInv

\* The first session begins at the beginning.
LEMMA LogCreateFirst ==
  ASSUME StorageOK, ScanOK, LogInv, CreateFirst
  PROVE  LogInv'
<1> DEFINE W == SessionWriter
<1>1. UNCHANGED <<disk, recent, recentBlock, log>> /\ Len(log) = 0
  BY DEF CreateFirst, LogInv, WriterOK
<1>2. /\ at'[W] = "publish"
      /\ \A u \in Searchers \ {W} : at'[u] = at[u] /\ scan'[u] = scan[u]
  BY SearchersAre DEF CreateFirst, Go, EndLocals, StorageOK
<1>3. NewOne'
  <2>1. /\ ws' = [NoSession EXCEPT !.id = NewId(0), !.first = 0]
        /\ wb' = [no |-> 0, id |-> 1]
    BY DEF CreateFirst, NewSession
  <2>2. ws'.first = 0 /\ ws'.last = INVALID
    BY <2>1 DEF NoSession
  <2>3. PlaceOf(1) = 0 /\ IdOf(1) = 1
    <3>1. StorageSize \in Nat \ {0} /\ 0 \in 0..StorageSize - 1 /\ 1 - 1 = 0
          /\ IdMod \in Nat \ {0} /\ 1 \in 0..IdMod - 1
      BY RingNumbers
    <3> QED  BY <3>1, RemainderSmall DEF PlaceOf, IdOf
  <2>4. Len(log') + 1 = 1 /\ 1..Len(log') = {}
    BY <1>1
  <2> QED  BY <2>1, <2>2, <2>3, <2>4 DEF NewOne, BlockAt
<1>4. WriterOK'
  BY <1>2, <1>3 DEF WriterOK, Resting
<1>5. SearchOK'
  <2>1. W \in Searchers /\ at'[W] \notin Searching
    BY <1>2, SearchersAre DEF Searching
  <2>2. \A p \in Numbers : Same(disk'[p], disk[p])
    BY <1>1 DEF Same
  <2>3. IsValid(recent) => IsValid(recent')
    BY <1>1 DEF IsValid
  <2> QED  BY <1>1, <1>2, <2>1, <2>2, <2>3, SearchKept DEF LogInv
<1> QED  BY <1>1, <1>4, <1>5 DEF LogInv

\* After a search: the reference that was left open is set, and the session
\* begins behind the last block.
LEMMA LogCreateAfterSearch ==
  ASSUME StorageOK, ScanOK, RequestsOK, LogInv, CreateAfterSearch
  PROVE  LogInv'
<1> DEFINE W == SessionWriter
           n == Len(log)
           h == scan[W].left
           s == FoundSession(scan[W])
           b == NextBlock([no |-> scan[W].l, id |-> h.bid])
<1>1. /\ at[W] = "found" /\ UNCHANGED <<recent, recentBlock, log>> /\ wb' = b
      /\ disk' = IF ForwardValid(s) THEN disk ELSE SetForward(disk, s.first, b.no)
      /\ ws' = IF Monotone(s.id) THEN NewSession(NewId(s.id), b.no) ELSE ws
  BY DEF CreateAfterSearch
<1>2. /\ at'[W] = (IF Monotone(s.id) THEN "publish" ELSE "closed")
      /\ \A u \in Searchers \ {W} : at'[u] = at[u] /\ scan'[u] = scan[u]
  BY SearchersAre DEF CreateAfterSearch, Go, EndLocals, StorageOK
<1>3. n > 0 /\ scan[W].l = PlaceOf(n) /\ h = disk[PlaceOf(n)]
  BY <1>1, SearchersAre DEF LogInv, SearchOK, ScanAt, Searching
<1>4. /\ h.sid = log[n] /\ h.first = FirstOf(log[n]) /\ h.bid = IdOf(n)
      /\ n \in Nat \ {0} /\ log \in Seq(Nat) /\ disk \in [Numbers -> Headers]
  BY <1>3, LastAt DEF LogInv, StorageOK
<1>5. b = BlockAt(n + 1) /\ s.id = log[n] /\ s.first = FirstOf(log[n])
  <2>1. [no |-> scan[W].l, id |-> h.bid] = BlockAt(n)
    BY <1>3, <1>4 DEF BlockAt
  <2>2. b = BlockAt(n + 1)
    <3>1. n \in Int
      BY <1>4
    <3>2. NextBlock(BlockAt(n)) = BlockAt(n + 1)
      BY <3>1, NextBlockAt
    <3> QED  BY <2>1, <3>2
  <2>3. s.id = h.sid /\ s.first = h.first
    BY DEF FoundSession
  <2> HIDE DEF b, s, h
  <2> QED  BY <1>4, <2>2, <2>3
<1> HIDE DEF s, b
<1>6. /\ TailOn(disk', log') /\ RefsOn(disk', log')
      /\ \A p \in Numbers : Same(disk'[p], disk[p])
  <2>1. CASE ForwardValid(s)
    BY <1>1, <2>1 DEF LogInv, Same
  <2>2. CASE ~ForwardValid(s)
    <3>1. disk' = SetForward(disk, FirstOf(log[n]), PlaceOf(n + 1))
      BY <1>1, <1>5, <2>2 DEF BlockAt
    <3>2. TailOn(disk', log) /\ RefsOn(disk', log)
      BY <1>3, <1>4, <3>1, TailForward DEF LogInv, FirstOf
    <3>3. \A p \in Numbers : Same(disk'[p], disk[p])
      BY <1>4, <3>1, SameOf
    <3> QED  BY <1>1, <3>2, <3>3
  <2> QED  BY <2>1, <2>2
<1>7. SearchOK'
  <2>1. W \in Searchers /\ at'[W] \notin Searching
    BY <1>2, SearchersAre DEF Searching
  <2>2. IsValid(recent) => IsValid(recent')
    BY <1>1 DEF IsValid
  <2> QED  BY <1>1, <1>2, <1>6, <2>1, <2>2, SearchKept DEF LogInv
<1>8. WriterOK'
  <2>1. CASE Monotone(s.id)
    <3>1. log[n] \in Nat /\ \A i \in 1..n : log[i] \in Nat /\ log[i] <= log[n]
      BY <1>3, <1>4, LastSession DEF LogInv
    <3>2. NewId(s.id) \in Nat /\ log[n] < NewId(s.id)
      BY <1>5, <2>1, <3>1, NewIdAbove
    <3>3. ws' = [NoSession EXCEPT !.id = NewId(s.id), !.first = PlaceOf(n + 1)]
      BY <1>1, <1>5, <2>1 DEF NewSession, BlockAt
    <3>4. ws'.last = INVALID /\ ws'.first = PlaceOf(n + 1) /\ ws'.id = NewId(s.id)
      BY <3>3 DEF NoSession
    <3>5. \A i \in 1..n : log[i] < NewId(s.id)
      BY <3>1, <3>2
    <3>6. NewOne'
      BY <1>1, <1>5, <3>4, <3>5 DEF NewOne
    <3> QED  BY <1>2, <2>1, <3>6 DEF WriterOK, Resting
  <2>2. CASE ~Monotone(s.id)
    <3>1. CachedLast
      BY <1>1 DEF LogInv, WriterOK, Resting
    <3> QED  BY <1>1, <1>2, <2>2, <3>1 DEF WriterOK, CachedLast, FirstOf, IsValid
  <2> QED  BY <2>1, <2>2
<1> QED  BY <1>1, <1>6, <1>7, <1>8 DEF LogInv

LEMMA LogCreateAfterCached ==
  ASSUME StorageOK, ScanOK, RequestsOK, CachedOK, LogInv, CreateAfterCached
  PROVE  LogInv'
<1> DEFINE W == SessionWriter
           n == Len(log)
           b == NextBlock(recentBlock)
<1>1. /\ at[W] = "copy" /\ UNCHANGED <<disk, recent, recentBlock, log>> /\ wb' = b
      /\ ws' = IF Monotone(recent.id) THEN NewSession(NewId(recent.id), b.no) ELSE recent
      /\ at'[W] = (IF Monotone(recent.id) THEN "publish" ELSE "closed")
  BY SearchersAre DEF CreateAfterCached, Go, StorageOK
<1>2. IsValid(recent) /\ CachedLast
  BY <1>1 DEF CachedOK, WithCache, LogInv, WriterOK, Resting
<1>3. n > 0 /\ recent.id = log[n] /\ recentBlock = BlockAt(n) /\ log \in Seq(Nat) /\ n \in Nat
  BY <1>2 DEF CachedLast, StorageOK
<1>4. b = BlockAt(n + 1)
  BY <1>3, NextBlockAt
<1> HIDE DEF b
<1>5. SearchOK'
  BY <1>1, <1>2, NoSearch DEF Searching, IsValid
<1>6. WriterOK'
  <2>1. CASE Monotone(recent.id)
    <3>1. log[n] \in Nat /\ \A i \in 1..n : log[i] \in Nat /\ log[i] <= log[n]
      BY <1>3, LastSession DEF LogInv
    <3>2. NewId(recent.id) \in Nat /\ log[n] < NewId(recent.id)
      BY <1>3, <2>1, <3>1, NewIdAbove
    <3>3. ws' = [NoSession EXCEPT !.id = NewId(recent.id), !.first = PlaceOf(n + 1)]
      BY <1>1, <1>4, <2>1 DEF NewSession, BlockAt
    <3>4. ws'.last = INVALID /\ ws'.first = PlaceOf(n + 1) /\ ws'.id = NewId(recent.id)
      BY <3>3 DEF NoSession
    <3>5. \A i \in 1..n : log[i] < NewId(recent.id)
      BY <3>1, <3>2
    <3>6. NewOne'
      BY <1>1, <1>4, <3>4, <3>5 DEF NewOne
    <3> QED  BY <1>1, <2>1, <3>6 DEF WriterOK, Resting
  <2>2. CASE ~Monotone(recent.id)
    BY <1>1, <1>2, <2>2 DEF WriterOK, CachedLast, FirstOf, IsValid
  <2> QED  BY <2>1, <2>2
<1> QED  BY <1>1, <1>5, <1>6 DEF LogInv

LEMMA LogPublish ==
  ASSUME StorageOK, ScanOK, LogInv, Publish
  PROVE  LogInv'
<1> DEFINE W == SessionWriter
<1>1. /\ at[W] = "publish" /\ at'[W] = "notify" /\ recent' = ws /\ recentBlock' = wb
      /\ UNCHANGED <<disk, ws, wb, log>>
  BY SearchersAre DEF Publish, Go, StorageOK
<1>2. NewOne /\ IsValid(ws)
  BY <1>1 DEF LogInv, WriterOK, ScanOK, InWriter
<1>3. SearchOK'
  <2>1. IsValid(recent')
    BY <1>1, <1>2 DEF IsValid
  <2> QED  BY <1>1, <2>1, NoSearch DEF Searching
<1>4. NoRef
  <2>1. SUFFICES ASSUME NEW p \in Numbers, disk[p].magic, disk[p].sid = ws.id PROVE FALSE
    BY DEF NoRef, NoRefOf
  <2>2. PICK i \in 1..Len(log) : disk[p].sid = log[i]
    BY <2>1 DEF LogInv, TailOn
  <2>3. log[i] < ws.id /\ log[i] \in Nat /\ ws.id \in Nat
    BY <1>2 DEF NewOne, StorageOK, Sessions
  <2> QED  BY <2>1, <2>2, <2>3
<1>5. WriterOK'
  BY <1>1, <1>2, <1>4 DEF WriterOK, Resting, NewOne, NoRef, CacheIsSession
<1> QED  BY <1>1, <1>3, <1>5 DEF LogInv

LEMMA LogNotify ==
  ASSUME StorageOK, CachedOK, LogInv, NotifyWaiting
  PROVE  LogInv'
<1> DEFINE W == SessionWriter
<1>1. /\ at[W] \in {"notify", "notifyClosed"}
      /\ at'[W] = (IF at[W] = "notify" THEN "open" ELSE "closed")
      /\ UNCHANGED <<disk, recent, recentBlock, ws, wb, log>>
  BY SearchersAre DEF NotifyWaiting, NotifyReaders
<1>2. IsValid(recent)
  BY <1>1 DEF CachedOK, WithCache
<1>3. SearchOK'
  BY <1>1, <1>2, NoSearch DEF Searching, IsValid
<1>4. WriterOK'
  BY <1>1 DEF LogInv, WriterOK, Resting, CachedLast, NewOne, InBlocks, Extended, NoRef, CacheIsSession,
     FirstOf, IsValid
<1> QED  BY <1>1, <1>3, <1>4 DEF LogInv

LEMMA LogWriteBlock ==
  ASSUME StorageOK, CachedOK, LogInv, WriteBlock
  PROVE  LogInv'
<1> DEFINE W == SessionWriter
           n == Len(log)
           h == [magic |-> TRUE, sid |-> ws.id, first |-> ws.first, bid |-> wb.id, next |-> INVALID]
<1>1. /\ at[W] = "open" /\ at'[W] = "written" /\ ~Full
      /\ disk' = [disk EXCEPT ![wb.no] = h] /\ log' = Append(log, ws.id)
      /\ UNCHANGED <<recent, recentBlock, ws, wb>>
  BY SearchersAre DEF WriteBlock, Go, StorageOK
<1>2. /\ CacheIsSession /\ NoRef /\ (NewOne \/ Extended)
      /\ InSessions(log) /\ TailOn(disk, log) /\ RefsOn(disk, log)
  BY <1>1 DEF LogInv, WriterOK
<1>3. log \in Seq(Nat) /\ n \in Nat /\ ws.id \in Nat /\ disk \in [Numbers -> Headers]
  BY DEF StorageOK, Sessions
<1>4. wb = BlockAt(n + 1)
  BY <1>2 DEF NewOne, Extended
<1>5. /\ \A i \in 1..n : log[i] <= ws.id
      /\ IF SidBlocks(log, ws.id) = {} THEN ws.first = PlaceOf(n + 1)
         ELSE ws.first = PlaceOf(Min(SidBlocks(log, ws.id)))
  <2>1. CASE NewOne
    <3>1. \A i \in 1..n : log[i] \in Nat /\ log[i] < ws.id
      BY <1>3, <2>1 DEF NewOne
    <3>2. \A i \in 1..n : log[i] <= ws.id /\ log[i] # ws.id
      BY <1>3, <3>1
    <3>3. SidBlocks(log, ws.id) = {}
      BY <3>2 DEF SidBlocks
    <3> QED  BY <2>1, <3>2, <3>3 DEF NewOne
  <2>2. CASE Extended
    <3>1. n > 0 /\ log[n] = ws.id /\ ws.first = FirstOf(ws.id)
      BY <2>2 DEF Extended, InBlocks
    <3>2. \A i \in 1..n : log[i] <= log[n]
      BY <1>2, <1>3, <3>1, LastSession
    <3>3. n \in SidBlocks(log, ws.id)
      BY <1>3, <3>1 DEF SidBlocks
    <3> QED  BY <3>1, <3>2, <3>3 DEF FirstOf
  <2> QED  BY <1>2, <2>1, <2>2
<1>6. ws.first \in Numbers
  <2>1. CASE NewOne
    BY <1>3, <2>1, PlaceRange DEF NewOne
  <2>2. CASE Extended
    <3>1. n \in 1..n /\ log[n] = ws.id /\ ws.first = PlaceOf(Min(SidBlocks(log, ws.id)))
      BY <1>3, <2>2 DEF Extended, InBlocks, FirstOf
    <3>2. Min(SidBlocks(log, ws.id)) \in 1..n
      BY <1>3, <3>1, SidEnds
    <3> QED  BY <3>1, <3>2, PlaceRange
  <2> QED  BY <1>2, <2>1, <2>2
<1>7. PlaceOf(n + 1) # CircularNumber(ws.first, -1)
  BY <1>1, <1>4 DEF Full, BlockAt
<1>8. disk' = [disk EXCEPT ![PlaceOf(n + 1)] =
                 [magic |-> TRUE, sid |-> ws.id, first |-> ws.first, bid |-> IdOf(n + 1),
                  next |-> INVALID]]
  BY <1>1, <1>4 DEF BlockAt
<1>9. NoRefOf(disk, ws.id)
  BY <1>2 DEF NoRef
<1>10. /\ InSessions(log') /\ TailOn(disk', log') /\ RefsOn(disk', log')
       /\ NoRefOf(disk', ws.id)
       /\ ws.first = PlaceOf(Min(SidBlocks(log', ws.id)))
  <2>1. MayFollow(disk, log, ws.id, ws.first)
    BY <1>5, <1>7, <1>9 DEF MayFollow
  <2>2. disk' = Written(disk, log, ws.id, ws.first)
    BY <1>8 DEF Written
  <2> DEFINE s == ws.id
             f == ws.first
  <2>3. /\ s \in Nat /\ f \in Numbers /\ MayFollow(disk, log, s, f)
        /\ disk \in [Numbers -> Headers] /\ log \in Seq(Nat)
        /\ TailOn(disk, log) /\ RefsOn(disk, log) /\ InSessions(log)
    BY <1>2, <1>3, <1>6, <2>1
  <2> HIDE DEF s, f
  <2>4. /\ InSessions(Append(log, s))
        /\ TailOn(Written(disk, log, s, f), Append(log, s))
        /\ RefsOn(Written(disk, log, s, f), Append(log, s))
        /\ NoRefOf(Written(disk, log, s, f), s)
        /\ f = PlaceOf(Min(SidBlocks(Append(log, s), s)))
    BY <2>3, TailAppend
  <2> QED  BY <1>1, <2>2, <2>4 DEF s, f
<1>11. SearchOK'
  <2>1. IsValid(recent')
    BY <1>1 DEF CachedOK, WithCache, IsValid
  <2> QED  BY <1>1, <2>1, NoSearch DEF Searching
<1>12. Len(log') = n + 1 /\ log'[n + 1] = ws.id
  BY <1>1, <1>3
<1>13. InBlocks' /\ wb' = BlockAt(Len(log')) /\ NoRef' /\ CacheIsSession'
  BY <1>1, <1>2, <1>3, <1>4, <1>10, <1>12 DEF InBlocks, FirstOf, NoRef, CacheIsSession
<1>14. WriterOK'
  BY <1>1, <1>13 DEF WriterOK, Resting
<1> QED  BY <1>10, <1>11, <1>14 DEF LogInv

LEMMA LogRecord ==
  ASSUME StorageOK, CachedOK, LogInv, Record
  PROVE  LogInv'
<1> DEFINE W == SessionWriter
           n == Len(log)
<1>1. /\ at[W] = "written" /\ at'[W] = "notify" /\ UNCHANGED <<disk, log>>
      /\ ws' = [ws EXCEPT !.last = wb.no, !.len = CircularLength(wb.no, ws.first)]
      /\ recent' = [recent EXCEPT !.last = wb.no, !.len = CircularLength(wb.no, ws.first)]
      /\ recentBlock' = wb /\ wb' = NextBlock(wb)
  BY SearchersAre DEF Record, Go, StorageOK
<1>2. CacheIsSession /\ InBlocks /\ wb = BlockAt(n) /\ NoRef
  BY <1>1 DEF LogInv, WriterOK
<1>3. /\ ws'.id = ws.id /\ ws'.first = ws.first /\ ws'.last = wb.no
      /\ recent'.id = recent.id /\ recent'.first = recent.first /\ recent'.last = wb.no
  BY <1>1 DEF StorageOK, Sessions
<1>4. n \in Int /\ wb' = BlockAt(n + 1)
  <2>1. n \in Int
    BY DEF StorageOK
  <2>2. NextBlock(BlockAt(n)) = BlockAt(n + 1)
    BY <2>1, NextBlockAt
  <2> QED  BY <1>1, <1>2, <2>1, <2>2
<1>5. SearchOK'
  <2>1. IsValid(recent')
    BY <1>1, <1>3 DEF CachedOK, WithCache, IsValid
  <2> QED  BY <1>1, <2>1, NoSearch DEF Searching
<1>6. Extended' /\ CacheIsSession' /\ recent'.last = ws'.last /\ NoRef' /\ recentBlock' = BlockAt(n)
  BY <1>1, <1>2, <1>3, <1>4 DEF Extended, InBlocks, CacheIsSession, NoRef, FirstOf, BlockAt
<1>7. WriterOK'
  BY <1>1, <1>6 DEF WriterOK, Resting
<1> QED  BY <1>1, <1>5, <1>7 DEF LogInv

LEMMA LogClose ==
  ASSUME StorageOK, CachedOK, LogInv, ~EmptySessions, CloseSession
  PROVE  LogInv'
<1> DEFINE W == SessionWriter
           n == Len(log)
<1>1. /\ at[W] = "open" /\ at'[W] = "closing" /\ HasBlocks
      /\ UNCHANGED <<recent, recentBlock, ws, wb, log>>
      /\ disk' = SetForward(disk, ws.first, wb.no)
  BY SearchersAre DEF CloseSession, Go, StorageOK
<1>2. Extended /\ CacheIsSession /\ recent.last = ws.last /\ recentBlock = BlockAt(n)
  BY <1>1 DEF LogInv, WriterOK, NewOne, HasBlocks
<1>3. /\ n > 0 /\ ws.first = FirstOf(log[n]) /\ wb.no = PlaceOf(n + 1)
      /\ disk \in [Numbers -> Headers] /\ log \in Seq(Nat)
  BY <1>2 DEF Extended, InBlocks, BlockAt, StorageOK
<1>4. TailOn(disk', log) /\ RefsOn(disk', log)
  <2>1. disk' = SetForward(disk, PlaceOf(Min(SidBlocks(log, log[Len(log)]))), PlaceOf(Len(log) + 1))
    BY <1>1, <1>3 DEF FirstOf
  <2> QED  BY <1>3, <2>1, TailForward DEF LogInv
<1>5. SearchOK'
  <2>1. IsValid(recent')
    BY <1>1 DEF CachedOK, WithCache, IsValid
  <2> QED  BY <1>1, <2>1, NoSearch DEF Searching
<1>6. WriterOK'
  BY <1>1, <1>2 DEF WriterOK, Resting, Extended, InBlocks, CacheIsSession, FirstOf
<1> QED  BY <1>1, <1>4, <1>5, <1>6 DEF LogInv

LEMMA LogClosed ==
  ASSUME StorageOK, CachedOK, LogInv, Closed
  PROVE  LogInv'
<1> DEFINE W == SessionWriter
           k == CircularLength(ws.last, ws.first)
<1>1. /\ at[W] = "closing" /\ at'[W] = "notifyClosed" /\ UNCHANGED <<disk, recentBlock, log>>
      /\ recent' = [recent EXCEPT !.next = wb.no, !.len = k]
  BY SearchersAre DEF Closed, Go, StorageOK
<1>2. recent'.id = recent.id /\ recent'.first = recent.first /\ recent'.last = recent.last
  BY <1>1 DEF StorageOK, Sessions
<1>3. SearchOK'
  <2>1. IsValid(recent')
    BY <1>1, <1>2 DEF CachedOK, WithCache, IsValid
  <2> QED  BY <1>1, <2>1, NoSearch DEF Searching
<1>4. CachedLast'
  BY <1>1, <1>2 DEF LogInv, WriterOK, Extended, InBlocks, CacheIsSession, CachedLast, FirstOf
<1>5. WriterOK'
  BY <1>1, <1>4 DEF WriterOK
<1> QED  BY <1>1, <1>3, <1>5 DEF LogInv

LEMMA LogStep ==
  ASSUME StorageInv, LogInv, ~EmptySessions, [StorageNext]_storageVars
  PROVE  LogInv'
<1>0. StorageOK /\ ScanOK /\ RequestsOK /\ CachedOK
  BY DEF StorageInv, Informed
<1>1. CASE SessionWriterStep
  BY <1>0, <1>1, LogCreate, LogCreateFirst, LogCreateAfterSearch, LogCreateAfterCached, LogPublish,
     LogNotify, LogWriteBlock, LogRecord, LogClose, LogClosed DEF SessionWriterStep
<1>2. CASE Restart
  <2>1. UNCHANGED <<disk, log>> /\ recent' = NoSession /\ at'[SessionWriter] = "closed"
        /\ \A t \in Searchers : at'[t] \notin Searching
    BY <1>2, SearchersAre DEF Restart, Searching
  <2>2. WriterOK'
    <3>1. ~IsValid(recent')
      BY <2>1, NothingOK DEF IsValid
    <3> QED  BY <2>1, <3>1 DEF WriterOK, CachedLast, IsValid
  <2>3. SearchOK'
    BY <2>1 DEF SearchOK, ScanAt, Searching
  <2> QED  BY <2>1, <2>2, <2>3 DEF LogInv
<1>3. CASE UNCHANGED storageVars
  BY <1>3 DEF storageVars, LogInv, WriterOK, SearchOK, ScanAt, CachedLast, NewOne, InBlocks, Extended,
     NoRef, CacheIsSession, FirstOf, IsValid
<1> QED  BY <1>0, <1>1, <1>2, <1>3, LogByReader, LogByScan DEF StorageNext

LEMMA LogInvariant ==
  ASSUME ~EmptySessions
  PROVE  StorageSpec => [](StorageInv /\ LogInv)
<1>1. StorageInit => LogInv
  BY LogInit
<1>2. StorageInv /\ LogInv /\ [StorageNext]_storageVars => LogInv'
  BY LogStep
<1> QED  BY <1>1, <1>2, StorageInvariant, PTL DEF StorageSpec

\* At every moment and after every power failure the ring holds the tail of all
\* blocks ever written, in order and with identifiers that follow one another
\* (writeSessionBlock, createSession).
THEOREM DeviceHoldsLog ==
  ASSUME ~EmptySessions
  PROVE  StorageSpec => []DiskIsLogTail
<1>1. StorageInv /\ LogInv => DiskIsLogTail
  BY TailIs DEF LogInv
<1> QED  BY <1>1, LogInvariant, PTL

\* A forward reference on the device goes to the place behind the last block of
\* its session (closeSession, and createSession after a power failure).
THEOREM ReferencesPoint ==
  ASSUME ~EmptySessions
  PROVE  StorageSpec => []ForwardRefsPoint
<1>1. StorageInv /\ LogInv => ForwardRefsPoint
  BY TailIs DEF LogInv
<1> QED  BY <1>1, LogInvariant, PTL

\* searchMostRecentlyWrittenBlock finds the last block written, for rings of every
\* size and identifiers that have gone round any number of times.
THEOREM SearchFinds ==
  ASSUME ~EmptySessions
  PROVE  StorageSpec => []SearchFindsNewest
<1>1. ASSUME StorageInv, LogInv PROVE SearchFindsNewest
  <2>1. SUFFICES ASSUME at[SessionWriter] = "found"
                 PROVE  /\ Len(log) > 0
                        /\ scan[SessionWriter].l = PlaceOf(Len(log))
                        /\ scan[SessionWriter].left = disk[PlaceOf(Len(log))]
                        /\ FoundSession(scan[SessionWriter]).id = log[Len(log)]
    BY DEF SearchFindsNewest
  <2>2. /\ Len(log) > 0 /\ scan[SessionWriter].l = PlaceOf(Len(log))
        /\ scan[SessionWriter].left = disk[PlaceOf(Len(log))]
    BY <1>1, <2>1, SearchersAre DEF LogInv, SearchOK, ScanAt, Searching
  <2>3. disk[PlaceOf(Len(log))].sid = log[Len(log)]
    BY <1>1, <2>2, LastAt DEF LogInv, StorageInv
  <2> QED  BY <2>2, <2>3 DEF FoundSession
<1> QED  BY <1>1, LogInvariant, PTL

\* Between two calls of the writer the cached session is the one that the device
\* ends with, or the one just begun, whether the writer or a reader's search
\* filled the cache.
THEOREM CacheFresh ==
  ASSUME ~EmptySessions
  PROVE  StorageSpec => []CacheIsFresh
<1>1. ASSUME StorageInv, LogInv PROVE CacheIsFresh
  <2>1. CASE at[SessionWriter] = "closed"
    <3>1. CachedLast /\ Len(log) \in Int
      BY <1>1, <2>1 DEF LogInv, WriterOK, Resting, StorageInv, StorageOK
    <3>2. PlaceOf(Len(log)) # INVALID
      BY <3>1, PlaceRange, RingNumbers
    <3> QED  BY <2>1, <3>1, <3>2 DEF CacheIsFresh, CachedLast, FirstOf, SidBlocks, BlocksOf, BlockAt
  <2>2. CASE at[SessionWriter] = "open"
    <3>1. /\ CacheIsSession /\ recent.last = ws.last /\ Len(log) \in Int
          /\ (NewOne /\ recentBlock = wb) \/ (Extended /\ recentBlock = BlockAt(Len(log)))
      BY <1>1, <2>2 DEF LogInv, WriterOK, StorageInv, StorageOK
    <3>2. PlaceOf(Len(log)) # INVALID
      BY <3>1, PlaceRange, RingNumbers
    <3>3. CASE NewOne /\ recentBlock = wb
      BY <2>2, <3>1, <3>3 DEF CacheIsFresh, NewOne, CacheIsSession, BlockAt
    <3>4. CASE Extended /\ recentBlock = BlockAt(Len(log))
      BY <2>2, <3>1, <3>2, <3>4 DEF CacheIsFresh, Extended, InBlocks, CacheIsSession, BlockAt, FirstOf,
         SidBlocks, BlocksOf
    <3> QED  BY <3>1, <3>3, <3>4
  <2> QED  BY <2>1, <2>2 DEF CacheIsFresh
<1> QED  BY <1>1, LogInvariant, PTL

-----------------------------------------------------------------------------
(***************************************************************************)
(* What the readers open.  A reader keeps what it read while the writer    *)
(* goes on: the header that it read is that of a block of the log, which   *)
(* the device need not hold any more, and the place of its session is one  *)
(* from which on the log is of this session or later ones.                 *)
(***************************************************************************)

\* The log goes on at place p with session id, or a later one, or is to.
GoesOn(l, p, id) ==
  \E i \in 1..Len(l) + 1 : PlaceOf(i) = p /\ \A k \in i..Len(l) : l[k] >= id

\* The m-th block is the last one of its session, and the writer writes a later one.
LastIn(l, m) == m \in 1..Len(l) /\ \A k \in m + 1..Len(l) : l[k] > l[m]
GoingOn == at[SessionWriter] \in {"publish", "notify", "open", "written"}
Ended(m) == LastIn(log, m) /\ (GoingOn => log[m] < ws.id)

\* Only a session that a search has found is complete in the cache.
DoneOK ==
  LET a == at[SessionWriter] IN
  /\ a \in Resting \cup InWriter /\ (a = "publish" => CachedLast)
  /\ a \in InWriter => ~ws.done
  /\ a \in {"notify", "open", "written", "closing"} => ~recent.done

\* The header that openPreviousSession, or openNextSession, has read.
BeforeOK(r) ==
  at[r] = "backFirst" =>
    \E j \in 1..Len(log) :
      /\ log[j] = scan[r].left.sid /\ PlaceOf(j) = scan[r].l
      /\ scan[r].left.first = FirstOf(log[j])
      /\ log[j] < rs[r].id => Ended(j)

NextOK(r) ==
  at[r] = "next" =>
    \E j \in 1..Len(log) :
      /\ log[j] = scan[r].left.sid /\ PlaceOf(j) = scan[r].l
      /\ scan[r].left.next # INVALID =>
           /\ scan[r].l = FirstOf(log[j])
           /\ \E m \in 1..Len(log) :
                Ended(m) /\ log[m] = log[j] /\ scan[r].left.next = PlaceOf(m + 1)

\* A copy of a complete session is made of one session: the cache no longer has it
\* once the writer has changed the cache.
CopyOK(r) ==
  at[r] = "copyNext" /\ recent.done =>
    /\ scan[r].l > 1 => rs[r].id = recent.id
    /\ scan[r].l > 2 => rs[r].first = recent.first
    /\ scan[r].l > 3 => rs[r].last = recent.last

\* Between the copies of its first two fields a session is of two.
HeldBy(r) ==
  /\ IsValid(rs[r]) =>
       /\ rs[r].id <= recent.id
       /\ (at[r] = "copyNext" /\ scan[r].l = 2) \/ GoesOn(log, rs[r].first, rs[r].id)
  /\ BeforeOK(r) /\ NextOK(r) /\ CopyOK(r)

HeldInv == DoneOK /\ \A r \in Readers : HeldBy(r)

\* What another block leaves of what is known of the log.
LEMMA AppendKeeps ==
  ASSUME NEW l \in Seq(Nat), NEW s \in Nat
  PROVE  LET k == Append(l, s)
         IN  /\ \A j \in 1..Len(l) :
                  j \in 1..Len(k) /\ k[j] = l[j] /\ Min(SidBlocks(k, l[j])) = Min(SidBlocks(l, l[j]))
             /\ \A p, id : GoesOn(l, p, id) /\ id <= s => GoesOn(k, p, id)
             /\ \A m : LastIn(l, m) /\ l[m] < s => LastIn(k, m)
<1> DEFINE k == Append(l, s)
           n == Len(l)
<1>1. /\ n \in Nat /\ k \in Seq(Nat) /\ Len(k) = n + 1 /\ k[n + 1] = s
      /\ \A i \in 1..n : k[i] = l[i]
  OBVIOUS
<1>2. ASSUME NEW j \in 1..n PROVE Min(SidBlocks(k, l[j])) = Min(SidBlocks(l, l[j]))
  <2>1. l[j] \in Nat /\ j \in SidBlocks(l, l[j])
    BY DEF SidBlocks
  <2>2. /\ l[j] # s => SidBlocks(k, l[j]) = SidBlocks(l, l[j])
        /\ SidBlocks(l, s) # {} => Min(SidBlocks(k, s)) = Min(SidBlocks(l, s))
    BY <2>1, SidAppend
  <2> HIDE DEF k
  <2> QED  BY <2>1, <2>2
<1> HIDE DEF k
<1>3. ASSUME NEW p, NEW id, GoesOn(l, p, id), id <= s PROVE GoesOn(k, p, id)
  <2>1. PICK i \in 1..n + 1 : PlaceOf(i) = p /\ \A x \in i..n : l[x] >= id
    BY <1>3 DEF GoesOn
  <2>2. \A x \in i..n + 1 : k[x] >= id
    <3>1. TAKE x \in i..n + 1
    <3>2. CASE x = n + 1
      BY <1>1, <1>3, <3>2
    <3>3. CASE x # n + 1
      <4>1. x \in i..n /\ x \in 1..n
        BY <1>1, <2>1, <3>3
      <4> QED  BY <1>1, <2>1, <4>1
    <3> QED  BY <3>2, <3>3
  <2>3. i \in 1..Len(k) + 1
    BY <1>1
  <2> QED  BY <1>1, <2>1, <2>2, <2>3 DEF GoesOn
<1>4. ASSUME NEW m, LastIn(l, m), l[m] < s PROVE LastIn(k, m)
  <2>1. m \in 1..n /\ \A x \in m + 1..n : l[x] > l[m]
    BY <1>4 DEF LastIn
  <2>2. \A x \in m + 1..n + 1 : k[x] > k[m]
    <3>1. TAKE x \in m + 1..n + 1
    <3>2. CASE x = n + 1
      BY <1>1, <1>4, <2>1, <3>2
    <3>3. CASE x # n + 1
      <4>0. m \in Nat /\ m >= 1 /\ x \in Int /\ x >= m + 1 /\ x <= n + 1 /\ n \in Nat
        BY <1>1, <2>1
      <4>1. x \in m + 1..n /\ x \in 1..n
        BY <3>3, <4>0
      <4> QED  BY <1>1, <2>1, <4>1
    <3> QED  BY <3>2, <3>3
  <2> QED  BY <1>1, <2>1, <2>2 DEF LastIn
<1>5. \A j \in 1..n : j \in 1..Len(k) /\ k[j] = l[j]
  BY <1>1
<1> QED  BY <1>2, <1>3, <1>4, <1>5 DEF k

\* The ends of a session.
LEMMA FirstGoesOn ==
  ASSUME NEW l \in Seq(Nat), InSessions(l), NEW j \in 1..Len(l)
  PROVE  /\ GoesOn(l, PlaceOf(j), l[j])
         /\ GoesOn(l, PlaceOf(Min(SidBlocks(l, l[j]))), l[j])
<1>1. \A i \in 1..Len(l) : l[i] = l[j] => GoesOn(l, PlaceOf(i), l[j])
  <2>1. SUFFICES ASSUME NEW i \in 1..Len(l), l[i] = l[j] PROVE GoesOn(l, PlaceOf(i), l[j])
    OBVIOUS
  <2>2. \A k \in i..Len(l) : k \in 1..Len(l) /\ (k = i \/ i < k)
    OBVIOUS
  <2>3. \A k \in i..Len(l) : l[k] >= l[j]
    <3>1. TAKE k \in i..Len(l)
    <3>2. l[k] \in Nat /\ l[i] \in Nat
      BY <2>2
    <3>3. l[i] <= l[k]
      BY <2>2, <3>2 DEF InSessions
    <3> QED  BY <2>1, <3>2, <3>3
  <2>4. i \in 1..Len(l) + 1
    OBVIOUS
  <2> QED  BY <2>3, <2>4 DEF GoesOn
<1>2. Min(SidBlocks(l, l[j])) \in 1..Len(l) /\ l[Min(SidBlocks(l, l[j]))] = l[j]
  BY SidEnds
<1> QED  BY <1>1, <1>2

LEMMA LastIsMax ==
  ASSUME NEW l \in Seq(Nat), InSessions(l)
  PROVE  /\ \A m : LastIn(l, m) => Max(SidBlocks(l, l[m])) = m
         /\ \A j \in 1..Len(l) :
              LET m == Max(SidBlocks(l, l[j])) IN LastIn(l, m) /\ l[m] = l[j]
<1>1. ASSUME NEW m, LastIn(l, m) PROVE Max(SidBlocks(l, l[m])) = m
  <2>1. m \in 1..Len(l) /\ \A k \in m + 1..Len(l) : l[k] > l[m]
    BY <1>1 DEF LastIn
  <2>2. \A y \in SidBlocks(l, l[m]) : y <= m
    <3>1. TAKE y \in SidBlocks(l, l[m])
    <3>2. y \in 1..Len(l) /\ l[y] = l[m] /\ l[m] \in Nat
      BY <2>1 DEF SidBlocks
    <3>3. y \in m + 1..Len(l) => FALSE
      BY <2>1, <3>2
    <3> QED  BY <2>1, <3>2, <3>3
  <2>3. m \in SidBlocks(l, l[m]) /\ SidBlocks(l, l[m]) \in SUBSET (1..Len(l)) /\ Len(l) \in Nat
    BY <2>1 DEF SidBlocks
  <2> QED  BY <2>2, <2>3, MaxIs
<1>2. ASSUME NEW j \in 1..Len(l)
      PROVE  LastIn(l, Max(SidBlocks(l, l[j]))) /\ l[Max(SidBlocks(l, l[j]))] = l[j]
  <2> DEFINE m == Max(SidBlocks(l, l[j]))
  <2>1. SidBlocks(l, l[j]) \in SUBSET (1..Len(l)) /\ SidBlocks(l, l[j]) # {} /\ Len(l) \in Nat
    BY DEF SidBlocks
  <2>2. m \in SidBlocks(l, l[j]) /\ \A y \in SidBlocks(l, l[j]) : y <= m
    BY <2>1, MaxOf
  <2> HIDE DEF m
  <2>3. m \in 1..Len(l) /\ l[m] = l[j]
    BY <2>2 DEF SidBlocks
  <2>4. \A k \in m + 1..Len(l) : l[k] > l[m]
    <3>1. TAKE k \in m + 1..Len(l)
    <3>2. k \in 1..Len(l) /\ m < k /\ l[k] \in Nat /\ l[m] \in Nat
      BY <2>1, <2>3
    <3>3. l[m] <= l[k]
      BY <2>3, <3>2 DEF InSessions
    <3>4. l[k] # l[m]
      <4>1. k \in SidBlocks(l, l[j]) => k <= m
        BY <2>2
      <4>2. ~(k <= m)
        BY <2>3, <3>2
      <4> QED  BY <2>3, <3>2, <4>1, <4>2 DEF SidBlocks
    <3> QED  BY <3>2, <3>3, <3>4
  <2> QED  BY <2>3, <2>4 DEF LastIn, m
<1> QED  BY <1>1, <1>2

\* The cache is of the last session, or of the one that is written.
LEMMA CacheGoesOn ==
  ASSUME StorageOK, LogInv, DoneOK, IsValid(recent)
  PROVE  /\ GoesOn(log, recent.first, recent.id)
         /\ \A i \in 1..Len(log) : log[i] <= recent.id
<1> DEFINE n == Len(log)
           a == at[SessionWriter]
<1>1. log \in Seq(Nat) /\ n \in Nat /\ InSessions(log) /\ ws.id \in Nat
  BY DEF StorageOK, LogInv, Sessions
<1>2. ASSUME n > 0, recent.id = log[n], recent.first = FirstOf(log[n])
      PROVE  /\ GoesOn(log, recent.first, recent.id)
             /\ \A i \in 1..n : log[i] <= recent.id
  <2>1. n \in 1..n
    BY <1>1, <1>2
  <2>2. \A i \in 1..n : log[i] <= log[n]
    BY <1>1, <1>2, LastSession
  <2>3. GoesOn(log, PlaceOf(Min(SidBlocks(log, log[n]))), log[n])
    BY <1>1, <2>1, FirstGoesOn
  <2> QED  BY <1>2, <2>2, <2>3 DEF FirstOf
<1>3. CASE a \in Resting \cup {"publish"}
  <2>1. CachedLast
    BY <1>3 DEF LogInv, WriterOK, DoneOK
  <2> QED  BY <1>2, <2>1 DEF CachedLast
<1>4. CASE a \in {"notify", "open", "written", "closing"}
  <2>1. CacheIsSession /\ (NewOne \/ InBlocks)
    BY <1>4 DEF LogInv, WriterOK, Extended
  <2>2. CASE NewOne
    <3>1. recent.first = PlaceOf(n + 1) /\ \A i \in 1..n : log[i] < recent.id
      BY <2>1, <2>2 DEF NewOne, CacheIsSession
    <3>2. GoesOn(log, recent.first, recent.id)
      <4>1. n + 1 \in 1..n + 1 /\ (n + 1)..n = {}
        BY <1>1
      <4> QED  BY <3>1, <4>1 DEF GoesOn
    <3>3. \A i \in 1..n : log[i] \in Nat /\ log[i] <= recent.id
      BY <1>1, <2>1, <3>1 DEF CacheIsSession
    <3> QED  BY <3>2, <3>3
  <2>3. CASE InBlocks
    BY <1>2, <2>1, <2>3 DEF InBlocks, CacheIsSession
  <2> QED  BY <2>1, <2>2, <2>3
<1> QED  BY <1>3, <1>4 DEF DoneOK, InWriter

\* A complete session in the cache is the last one.
LEMMA DoneIsLast ==
  ASSUME StorageOK, LogInv, DoneOK, IsValid(recent), recent.done
  PROVE  LET b == BlocksOf(recent.id)
         IN  /\ b # {} /\ recent.first = PlaceOf(Min(b)) /\ Holds(log, recent.first, Min(b))
             /\ recent.last \in {PlaceOf(i) : i \in b}
<1> DEFINE n == Len(log)
<1>1. CachedLast
  BY DEF LogInv, WriterOK, DoneOK, InWriter
<1>2. n > 0 /\ recent.id = log[n] /\ recent.first = FirstOf(log[n]) /\ recent.last = PlaceOf(n)
  BY <1>1 DEF CachedLast
<1>3. log \in Seq(Nat) /\ n \in 1..n /\ InSessions(log)
  BY <1>2 DEF StorageOK, LogInv
<1>4. BlocksOf(recent.id) = SidBlocks(log, log[n]) /\ n \in BlocksOf(recent.id)
  BY <1>2, <1>3 DEF BlocksOf, SidBlocks
<1>5. LET m == Min(SidBlocks(log, log[n])) IN Holds(log, PlaceOf(m), m)
  BY <1>2, <1>3, LastSession
<1> QED  BY <1>2, <1>4, <1>5 DEF FirstOf

\* Where a reader holds what it read in an earlier step.
Away == {"backFirst", "next", "copyNext"}

\* The writer's step is one after which a session that has ended stays so.
LEMMA EndedKept ==
  ASSUME StorageOK, NEW m, Ended(m),
         log' = log \/ (log' = Append(log, ws.id) /\ GoingOn),
         GoingOn' => \/ GoingOn /\ ws'.id = ws.id
                     \/ log' = log /\ \A i \in 1..Len(log) : log[i] < ws'.id
  PROVE  Ended(m)' /\ m \in 1..Len(log') /\ log'[m] = log[m]
<1>1. LastIn(log, m) /\ (GoingOn => log[m] < ws.id) /\ log \in Seq(Nat) /\ ws.id \in Nat
  BY DEF Ended, StorageOK, Sessions
<1>2. m \in 1..Len(log)
  BY <1>1 DEF LastIn
<1>3. LastIn(log', m) /\ m \in 1..Len(log') /\ log'[m] = log[m]
  <2>1. CASE log' = log
    BY <1>1, <1>2, <2>1
  <2>2. CASE log' = Append(log, ws.id) /\ GoingOn
    BY <1>1, <1>2, <2>2, AppendKeeps
  <2> QED  BY <2>1, <2>2
<1>4. GoingOn' => log'[m] < ws'.id
  BY <1>1, <1>2, <1>3
<1> QED  BY <1>3, <1>4 DEF Ended

\* What a reader holds while others go on.
LEMMA HeldKept ==
  ASSUME StorageOK, NEW r \in Readers, HeldBy(r), rs'[r] = rs[r],
         \/ at'[r] = at[r] /\ scan'[r] = scan[r]
         \/ at[r] \notin Away /\ at'[r] \notin Away,
         at[r] \in Away => IsValid(rs[r]),
         IsValid(rs[r]) => recent.id <= recent'.id /\ (recent'.done => recent' = recent),
         recent \in Sessions, recent' \in Sessions,
         \/ log' = log
         \/ log' = Append(log, ws.id) /\ GoingOn /\ (IsValid(rs[r]) => recent.id <= ws.id),
         GoingOn' => \/ GoingOn /\ ws'.id = ws.id
                     \/ log' = log /\ \A i \in 1..Len(log) : log[i] < ws'.id
  PROVE  HeldBy(r)'
<1>1. /\ log \in Seq(Nat) /\ ws.id \in Nat /\ rs[r].id \in Nat
      /\ recent.id \in Nat /\ recent'.id \in Nat
  BY DEF StorageOK, Sessions
<1>2. /\ \A j \in 1..Len(log) : /\ j \in 1..Len(log') /\ log'[j] = log[j]
                                /\ FirstOf(log[j]) = PlaceOf(Min(SidBlocks(log', log[j])))
      /\ \A m : Ended(m) => Ended(m)' /\ m \in 1..Len(log') /\ log'[m] = log[m]
  <2>1. ASSUME NEW m, Ended(m) PROVE Ended(m)' /\ m \in 1..Len(log') /\ log'[m] = log[m]
    BY <2>1, EndedKept
  <2>2. CASE log' = log
    BY <2>1, <2>2 DEF FirstOf
  <2>3. CASE log' = Append(log, ws.id)
    BY <1>1, <2>1, <2>3, AppendKeeps DEF FirstOf
  <2> QED  BY <2>2, <2>3
<1>3. IsValid(rs[r])' =>
        /\ rs'[r].id <= recent'.id
        /\ (at'[r] = "copyNext" /\ scan'[r].l = 2) \/ GoesOn(log', rs'[r].first, rs'[r].id)
  <2>1. SUFFICES ASSUME IsValid(rs[r])
                 PROVE  /\ rs[r].id <= recent'.id
                        /\ \/ at'[r] = "copyNext" /\ scan'[r].l = 2
                           \/ GoesOn(log', rs[r].first, rs[r].id)
    BY DEF IsValid
  <2>2. rs[r].id <= recent.id /\ recent.id <= recent'.id
    BY <2>1 DEF HeldBy
  <2>3. (at[r] = "copyNext" /\ scan[r].l = 2) \/ GoesOn(log, rs[r].first, rs[r].id)
    BY <2>1 DEF HeldBy
  <2>4. GoesOn(log, rs[r].first, rs[r].id) => GoesOn(log', rs[r].first, rs[r].id)
    <3>1. CASE log' = log
      BY <3>1
    <3>2. CASE log' = Append(log, ws.id) /\ recent.id <= ws.id
      <4>1. rs[r].id <= ws.id
        BY <1>1, <2>2, <3>2
      <4> QED  BY <1>1, <3>2, <4>1, AppendKeeps
    <3> QED  BY <2>1, <3>1, <3>2
  <2> QED  BY <1>1, <2>2, <2>3, <2>4 DEF Away
<1>4. BeforeOK(r)'
  <2>1. SUFFICES ASSUME at'[r] = "backFirst"
                 PROVE  \E j \in 1..Len(log') :
                           /\ log'[j] = scan'[r].left.sid /\ PlaceOf(j) = scan'[r].l
                           /\ scan'[r].left.first = PlaceOf(Min(SidBlocks(log', log'[j])))
                           /\ log'[j] < rs'[r].id => Ended(j)'
    BY DEF BeforeOK, FirstOf
  <2>2. at[r] = "backFirst" /\ scan'[r] = scan[r]
    BY <2>1 DEF Away
  <2>3. PICK j \in 1..Len(log) : /\ log[j] = scan[r].left.sid /\ PlaceOf(j) = scan[r].l
                                 /\ scan[r].left.first = FirstOf(log[j])
                                 /\ log[j] < rs[r].id => Ended(j)
    BY <2>2 DEF HeldBy, BeforeOK
  <2> QED  BY <1>2, <2>2, <2>3
<1>5. NextOK(r)'
  <2>1. SUFFICES ASSUME at'[r] = "next"
                 PROVE  \E j \in 1..Len(log') :
                           /\ log'[j] = scan'[r].left.sid /\ PlaceOf(j) = scan'[r].l
                           /\ scan'[r].left.next # INVALID =>
                                /\ scan'[r].l = PlaceOf(Min(SidBlocks(log', log'[j])))
                                /\ \E m \in 1..Len(log') : /\ Ended(m)' /\ log'[m] = log'[j]
                                                           /\ scan'[r].left.next = PlaceOf(m + 1)
    BY DEF NextOK, FirstOf
  <2>2. at[r] = "next" /\ scan'[r] = scan[r]
    BY <2>1 DEF Away
  <2>3. PICK j \in 1..Len(log) : /\ log[j] = scan[r].left.sid /\ PlaceOf(j) = scan[r].l
                                 /\ scan[r].left.next # INVALID =>
                                      /\ scan[r].l = FirstOf(log[j])
                                      /\ \E m \in 1..Len(log) : /\ Ended(m) /\ log[m] = log[j]
                                                                /\ scan[r].left.next = PlaceOf(m + 1)
    BY <2>2 DEF HeldBy, NextOK
  <2>4. /\ j \in 1..Len(log') /\ log'[j] = log[j]
        /\ FirstOf(log[j]) = PlaceOf(Min(SidBlocks(log', log'[j])))
    BY <1>2
  <2>5. scan[r].left.next # INVALID =>
          \E m \in 1..Len(log') : /\ Ended(m)' /\ log'[m] = log'[j]
                                  /\ scan[r].left.next = PlaceOf(m + 1)
    BY <1>2, <2>3, <2>4
  <2> QED  BY <2>2, <2>3, <2>4, <2>5
<1>6. CopyOK(r)'
  <2>1. SUFFICES ASSUME at'[r] = "copyNext", recent'.done
                 PROVE  /\ scan'[r].l > 1 => rs'[r].id = recent'.id
                        /\ scan'[r].l > 2 => rs'[r].first = recent'.first
                        /\ scan'[r].l > 3 => rs'[r].last = recent'.last
    BY DEF CopyOK
  <2>2. at[r] = "copyNext" /\ scan'[r] = scan[r] /\ recent' = recent
    BY <2>1 DEF Away
  <2> QED  BY <2>1, <2>2 DEF HeldBy, CopyOK
<1> QED  BY <1>3, <1>4, <1>5, <1>6 DEF HeldBy, IsValid

\* At the start there is nothing that a reader or the cache holds.
LEMMA ReadInit ==
  ASSUME StorageInit
  PROVE  HeldInv
<1>1. /\ at[SessionWriter] = "closed" /\ \A r \in Readers : at[r] = "idle" /\ rs[r] = NoSession
      /\ ~recent.done
  BY SearchersAre DEF StorageInit, RamAtStart, NoSession
<1> QED  BY <1>1, NothingOK DEF HeldInv, DoneOK, HeldBy, BeforeOK, NextOK, CopyOK, Resting, InWriter

\* The writer and the searches.
LEMMA ReadByWriter ==
  ASSUME StorageInv, StorageInv', LogInv, LogInv', HeldInv, SessionWriterStep
  PROVE  HeldInv' /\ rs' = rs
<1> DEFINE W == SessionWriter
<1>0. StorageOK /\ StorageOK' /\ CachedOK /\ DoneOK /\ W \in Searchers /\ W \notin Readers
  BY SearchersAre DEF StorageInv, Informed, HeldInv
<1>1. /\ recent \in Sessions /\ recent' \in Sessions /\ ws \in Sessions
      /\ at \in [Searchers -> Labels] /\ recent.id \in Nat /\ recent'.id \in Nat
  BY <1>0 DEF StorageOK, Sessions
<1>2. ASSUME NEW sid \in Asked, Create(sid)
      PROVE  /\ UNCHANGED <<recent, ws, rs, scan, log>> /\ at'[W] \in {"copy", "scan"}
             /\ \A r \in Readers : at'[r] = at[r]
  BY <1>0, <1>1, <1>2, SearchersAre DEF Create, Go
<1>3. ASSUME CreateFirst \/ CreateAfterSearch \/ CreateAfterCached
      PROVE  /\ UNCHANGED <<recent, recentBlock, rs, log>> /\ at[W] \in Resting
             /\ at'[W] = "closed" \/ (at'[W] = "publish" /\ ~ws'.done)
             /\ \A r \in Readers : at'[r] = at[r] /\ scan'[r] = scan[r]
  BY <1>0, <1>1, <1>3, SearchersAre
     DEF CreateFirst, CreateAfterSearch, CreateAfterCached, Go, EndLocals, NewSession, NoSession, Resting,
         StorageOK
<1>4. ASSUME Publish
      PROVE  /\ UNCHANGED <<ws, rs, scan, log>> /\ at[W] = "publish" /\ at'[W] = "notify"
             /\ recent' = ws /\ \A r \in Readers : at'[r] = at[r]
  BY <1>0, <1>1, <1>4, SearchersAre DEF Publish, Go
<1>5. ASSUME NotifyWaiting
      PROVE  /\ UNCHANGED <<recent, ws, rs, scan, log>> /\ at[W] \in {"notify", "notifyClosed"}
             /\ at'[W] = (IF at[W] = "notify" THEN "open" ELSE "closed")
             /\ \A r \in Readers : at'[r] = at[r] \/ (at[r] \notin Away /\ at'[r] \notin Away)
  BY <1>0, <1>1, <1>5, SearchersAre DEF NotifyWaiting, NotifyReaders, Away
<1>6. ASSUME WriteBlock
      PROVE  /\ UNCHANGED <<recent, ws, rs, scan>> /\ log' = Append(log, ws.id)
             /\ at[W] = "open" /\ at'[W] = "written" /\ \A r \in Readers : at'[r] = at[r]
  BY <1>0, <1>1, <1>6, SearchersAre DEF WriteBlock, Go
<1>7. ASSUME Record
      PROVE  /\ UNCHANGED <<rs, scan, log>> /\ at[W] = "written" /\ at'[W] = "notify"
             /\ recent'.id = recent.id /\ recent'.done = recent.done
             /\ ws'.id = ws.id /\ ws'.done = ws.done /\ \A r \in Readers : at'[r] = at[r]
  BY <1>0, <1>1, <1>7, SearchersAre DEF Record, Go, Sessions
<1>8. ASSUME CloseSession
      PROVE  /\ UNCHANGED <<recent, ws, rs, scan, log>> /\ at[W] = "open" /\ at'[W] = "closing"
             /\ \A r \in Readers : at'[r] = at[r]
  BY <1>0, <1>1, <1>8, SearchersAre DEF CloseSession, Go
<1>9. ASSUME Closed
      PROVE  /\ UNCHANGED <<rs, scan, log>> /\ at[W] = "closing" /\ at'[W] = "notifyClosed"
             /\ recent'.id = recent.id /\ recent'.done = recent.done
             /\ \A r \in Readers : at'[r] = at[r]
  BY <1>0, <1>1, <1>9, SearchersAre DEF Closed, Go, Sessions
<1>10. DoneOK'
  <2>1. CASE \E sid \in Asked : Create(sid)
    BY <1>0, <1>2, <2>1 DEF DoneOK, Resting, InWriter
  <2>2. CASE CreateFirst \/ CreateAfterSearch \/ CreateAfterCached
    <3>1. CachedLast
      BY <1>3, <2>2 DEF LogInv, WriterOK
    <3>2. CachedLast'
      BY <1>3, <2>2, <3>1 DEF CachedLast, IsValid, FirstOf
    <3> QED  BY <1>3, <2>2, <3>2 DEF DoneOK, Resting, InWriter
  <2>3. CASE Publish
    BY <1>0, <1>4, <2>3 DEF DoneOK, Resting, InWriter
  <2>4. CASE NotifyWaiting
    BY <1>0, <1>5, <2>4 DEF DoneOK, Resting, InWriter
  <2>5. CASE WriteBlock \/ CloseSession
    BY <1>0, <1>6, <1>8, <2>5 DEF DoneOK, Resting, InWriter
  <2>6. CASE Record \/ Closed
    BY <1>0, <1>7, <1>9, <2>6 DEF DoneOK, Resting, InWriter
  <2> QED  BY <2>1, <2>2, <2>3, <2>4, <2>5, <2>6 DEF SessionWriterStep
<1>11. ASSUME NEW r \in Readers,
              rs' = rs,
              \/ at'[r] = at[r] /\ scan'[r] = scan[r]
              \/ at[r] \notin Away /\ at'[r] \notin Away,
              IsValid(recent) => recent.id <= recent'.id,
              IsValid(recent) => recent' = recent \/ ~recent'.done,
              \/ log' = log
              \/ log' = Append(log, ws.id) /\ GoingOn /\ recent.id <= ws.id,
              GoingOn' => \/ GoingOn /\ ws'.id = ws.id
                          \/ log' = log /\ \A i \in 1..Len(log) : log[i] < ws'.id
       PROVE  HeldBy(r)'
  <2>1. IsValid(rs[r]) => IsValid(recent)
    BY <1>0 DEF CachedOK
  <2>2. at[r] \in Away => IsValid(rs[r])
    BY <1>0 DEF CachedOK, InSession, Away
  <2>3. HeldBy(r) /\ rs'[r] = rs[r]
    BY <1>11 DEF HeldInv
  <2> QED  BY <1>0, <1>1, <1>11, <2>1, <2>2, <2>3, HeldKept
<1>12. ASSUME NEW r \in Readers PROVE HeldBy(r)'
  <2>1. CASE \E sid \in Asked : Create(sid)
    BY <1>1, <1>2, <1>11, <2>1 DEF GoingOn
  <2>2. CASE CreateFirst \/ CreateAfterSearch \/ CreateAfterCached
    <3>1. at'[W] = "publish" => NewOne'
      BY DEF LogInv, WriterOK
    <3> QED  BY <1>1, <1>3, <1>11, <2>2, <3>1 DEF GoingOn, NewOne
  <2>3. CASE Publish
    <3>1. CachedLast /\ NewOne /\ ~ws.done
      BY <1>0, <1>4, <2>3 DEF LogInv, WriterOK, DoneOK, InWriter
    <3>2. IsValid(recent) => recent.id <= ws.id
      <4>1. SUFFICES ASSUME IsValid(recent) PROVE recent.id <= ws.id
        OBVIOUS
      <4>2. Len(log) \in 1..Len(log) /\ recent.id = log[Len(log)]
        BY <1>0, <3>1, <4>1 DEF CachedLast, StorageOK
      <4>3. recent.id < ws.id /\ ws.id \in Nat
        BY <1>1, <3>1, <4>2 DEF NewOne, Sessions
      <4> QED  BY <1>1, <4>3
    <3> QED  BY <1>4, <1>11, <2>3, <3>1, <3>2 DEF GoingOn
  <2>4. CASE NotifyWaiting
    BY <1>1, <1>5, <1>11, <2>4 DEF GoingOn
  <2>5. CASE WriteBlock
    <3>1. recent.id = ws.id
      BY <1>6, <2>5 DEF LogInv, WriterOK, CacheIsSession
    <3> QED  BY <1>1, <1>6, <1>11, <2>5, <3>1 DEF GoingOn
  <2>6. CASE Record
    <3>1. ~recent.done
      BY <1>0, <1>7, <2>6 DEF DoneOK
    <3> QED  BY <1>1, <1>7, <1>11, <2>6, <3>1 DEF GoingOn
  <2>7. CASE CloseSession
    BY <1>1, <1>8, <1>11, <2>7 DEF GoingOn
  <2>8. CASE Closed
    <3>1. ~recent.done
      BY <1>0, <1>9, <2>8 DEF DoneOK
    <3> QED  BY <1>1, <1>9, <1>11, <2>8, <3>1 DEF GoingOn
  <2> QED  BY <2>1, <2>2, <2>3, <2>4, <2>5, <2>6, <2>7, <2>8 DEF SessionWriterStep
<1>13. rs' = rs
  BY <1>2, <1>3, <1>4, <1>5, <1>6, <1>7, <1>8, <1>9 DEF SessionWriterStep
<1> QED  BY <1>10, <1>12, <1>13 DEF HeldInv

\* A search, which writes only its own locals.
LEMMA ReadByScan ==
  ASSUME StorageInv, LogInv, HeldInv, NEW t \in Searchers, Scan(t)
  PROVE  HeldInv' /\ rs' = rs
<1>0. StorageOK /\ CachedOK /\ DoneOK
  BY DEF StorageInv, Informed, HeldInv
<1>1. /\ UNCHANGED <<recent, recentBlock, ws, rs, log>>
      /\ at[t] \in {"scan", "scanLast", "halve", "forward"}
  BY DEF Scan, ScanFirst, ScanLast, ScanHalve, ScanForward, ScanUnchanged
<1>2. /\ at'[t] \in {"scanLast", "halve", "forward", "found", "notFound", "syncOpen"}
      /\ at'[t] = "syncOpen" => t # SessionWriter
      /\ \A u \in Searchers \ {t} : at'[u] = at[u] /\ scan'[u] = scan[u]
  BY <1>0 DEF Scan, ScanFirst, ScanLast, ScanHalve, ScanForward, Go, StorageOK
<1>3. \/ at'[SessionWriter] = at[SessionWriter]
      \/ at'[SessionWriter] \in Resting
  BY <1>2, SearchersAre DEF Resting
<1>4. DoneOK'
  <2>1. CachedLast => CachedLast'
    BY <1>1 DEF CachedLast, IsValid, FirstOf
  <2> QED  BY <1>0, <1>1, <1>3, <2>1 DEF DoneOK, Resting, InWriter
<1>5. ASSUME NEW r \in Readers PROVE HeldBy(r)'
  <2>1. /\ HeldBy(r) /\ rs'[r] = rs[r] /\ recent \in Sessions /\ recent.id \in Nat
        /\ at[r] \in Away => IsValid(rs[r])
    BY <1>0, <1>1 DEF HeldInv, CachedOK, InSession, Away, StorageOK, Sessions
  <2>2. \/ at'[r] = at[r] /\ scan'[r] = scan[r]
        \/ at[r] \notin Away /\ at'[r] \notin Away
    BY <1>1, <1>2, SearchersAre DEF Away
  <2>3. GoingOn' => GoingOn /\ ws'.id = ws.id
    BY <1>1, <1>3 DEF GoingOn, Resting
  <2> QED  BY <1>0, <1>1, <2>1, <2>2, <2>3, HeldKept
<1> QED  BY <1>1, <1>4, <1>5 DEF HeldInv

\* A reader's step, as seen by the others and the writer.
LEMMA ReadOthers ==
  ASSUME StorageInv, LogInv, HeldInv, NEW r \in Readers, SessionReaderStep(r)
  PROVE  /\ DoneOK' /\ UNCHANGED <<disk, log, ws, at[SessionWriter]>>
         /\ IsValid(recent) => recent' = recent
         /\ \A q \in Readers \ {r} : HeldBy(q)' /\ rs'[q] = rs[q]
<1>0. /\ StorageOK /\ RequestsOK /\ ScanOK /\ CachedOK /\ DoneOK
      /\ r \in Searchers /\ r # SessionWriter /\ SessionWriter \in Searchers
  BY SearchersAre DEF StorageInv, Informed, HeldInv
<1>1. /\ UNCHANGED <<disk, ws, wb, log>>
      /\ \A u \in Searchers \ {r} : at'[u] = at[u] /\ scan'[u] = scan[u]
      /\ \/ UNCHANGED <<recent, recentBlock>>
         \/ /\ at[r] = "found" /\ ~IsValid(recent)
            /\ recent' = FoundSession(scan[r])
            /\ recentBlock' = [no |-> scan[r].l, id |-> scan[r].left.bid]
  BY <1>0, ReaderMoves
<1>2. at'[SessionWriter] = at[SessionWriter]
  BY <1>0, <1>1
<1>3. DoneOK'
  <2>1. CASE UNCHANGED <<recent, recentBlock>>
    BY <1>0, <1>1, <1>2, <2>1 DEF DoneOK, CachedLast, IsValid, FirstOf
  <2>2. CASE /\ at[r] = "found" /\ ~IsValid(recent)
             /\ recent' = FoundSession(scan[r])
             /\ recentBlock' = [no |-> scan[r].l, id |-> scan[r].left.bid]
    <3>1. at[SessionWriter] \notin {"notify", "open", "written", "closing"}
      BY <1>0, <2>2 DEF CachedOK, WithCache
    <3>2. ScanAt(r)
      BY <1>0, <2>2 DEF LogInv, SearchOK
    <3>3. /\ Len(log) > 0 /\ scan[r].l = PlaceOf(Len(log))
          /\ Same(scan[r].left, disk[PlaceOf(Len(log))])
      BY <2>2, <3>2 DEF ScanAt, Searching
    <3>4. CachedLast'
      BY <1>0, <1>1, <2>2, <3>3, LastAt DEF LogInv, CachedLast, FoundSession, Same, BlockAt, FirstOf, IsValid
    <3> QED  BY <1>0, <1>1, <1>2, <3>1, <3>4 DEF DoneOK
  <2> QED  BY <1>1, <2>1, <2>2
<1>4. rs' = [rs EXCEPT ![r] = rs'[r]] \/ rs' = rs
  BY DEF SessionReaderStep, OpenSession, PrepareOpen, Install, SyncOpen, OpenCopy, Previous, Back,
     BackFirst, NextSession, NextFirst, CopyNext, ReadBlock, PrepareRead, SyncRead, Fetch, StorageOK
<1>5. ASSUME NEW q \in Readers \ {r} PROVE HeldBy(q)' /\ rs'[q] = rs[q]
  <2>1. rs'[q] = rs[q] /\ HeldBy(q) /\ at'[q] = at[q] /\ scan'[q] = scan[q]
    BY <1>0, <1>1, <1>4, <1>5, SearchersAre DEF HeldInv, StorageOK
  <2>2. recent \in Sessions /\ recent' \in Sessions
    <3>1. at[r] = "found" => scan[r].l \in Numbers
      BY <1>0 DEF ScanOK
    <3> QED  BY <1>0, <1>1, <3>1, FoundSessionOK DEF StorageOK
  <2>3. /\ IsValid(rs[q]) => recent' = recent /\ recent.id <= recent'.id
        /\ at[q] \in Away => IsValid(rs[q])
    BY <1>0, <1>1, <2>2 DEF CachedOK, InSession, Away, Sessions
  <2>4. GoingOn' => GoingOn /\ ws'.id = ws.id
    BY <1>1, <1>2 DEF GoingOn
  <2> QED  BY <1>0, <1>1, <2>1, <2>2, <2>3, <2>4, HeldKept
<1> QED  BY <1>1, <1>2, <1>3, <1>5

\* What OpensReal says of a reader.
Opens(r) ==
  LET s == rs'[r]
      b == BlocksOf(s.id)
  IN s # rs[r] /\ s.done /\ restarts' = restarts /\ at'[r] # "copyNext" =>
       /\ b # {}
       /\ s.first = PlaceOf(Min(b)) /\ (at[r] # "next" => Holds(log, s.first, Min(b)))
       /\ s.last \in {PlaceOf(i) : i \in b}
       /\ at[r] = "next" \/ (at[r] = "backFirst" /\ s.id < rs[r].id) => s.last = PlaceOf(Max(b))

\* A step that leaves the session, and one that takes it from the cache.
LEMMA ReadSame ==
  ASSUME StorageInv, LogInv, HeldInv, NEW r \in Readers, UNCHANGED <<log, ws, at[SessionWriter], rs>>,
         at[r] \notin Away, at'[r] \notin Away, IsValid(recent) => recent' = recent
  PROVE  HeldBy(r)' /\ Opens(r)
<1>1. IsValid(rs[r]) => recent' = recent
  BY DEF StorageInv, Informed, CachedOK
<1>2. HeldBy(r)
  BY DEF HeldInv
<1>3. HeldBy(r)'
  BY <1>1, <1>2 DEF HeldBy, BeforeOK, NextOK, CopyOK, Away, IsValid
<1> QED  BY <1>3 DEF Opens

LEMMA ReadCache ==
  ASSUME StorageInv, LogInv, HeldInv, NEW r \in Readers, UNCHANGED <<log, recent>>, IsValid(recent),
         rs'[r] = recent, at[r] \notin Away, at'[r] \notin Away
  PROVE  HeldBy(r)' /\ Opens(r)
<1>1. StorageOK /\ DoneOK /\ recent.id \in Nat
  BY DEF StorageInv, HeldInv, StorageOK, Sessions
<1>2. GoesOn(log, recent.first, recent.id)
  BY <1>1, CacheGoesOn
<1>3. HeldBy(r)'
  BY <1>1, <1>2 DEF HeldBy, BeforeOK, NextOK, CopyOK, Away, IsValid
<1>4. Opens(r)
  BY <1>1, DoneIsLast DEF Opens, Away
<1> QED  BY <1>3, <1>4

\* openPreviousSession reads the block before the session.
LEMMA ReadBack ==
  ASSUME StorageInv, LogInv, HeldInv, NEW r \in Readers, Back(r)
  PROVE  HeldBy(r)' /\ Opens(r)
<1> DEFINE p == CircularNumber(rs[r].first, -1)
<1>0. /\ StorageOK /\ ScanOK /\ CachedOK /\ DoneOK /\ HeldBy(r) /\ r \in Searchers
      /\ r # SessionWriter /\ at[r] = "back" /\ IsValid(rs[r])
  BY SearchersAre DEF StorageInv, Informed, HeldInv, Back, ScanOK
<1>1. /\ log \in Seq(Nat) /\ rs[r].id \in Nat /\ rs[r].first \in Numbers /\ recent.id \in Nat
      /\ disk \in [Numbers -> Headers] /\ ws.id \in Nat /\ InSessions(log) /\ TailOn(disk, log)
      /\ scan[r] \in Scans
  BY <1>0, RingNumbers DEF StorageOK, Sessions, LogInv, IsValid
<1>2. /\ UNCHANGED <<disk, recent, rs, log, ws>> /\ at'[SessionWriter] = at[SessionWriter]
  BY <1>0, SearchersAre DEF Back, ReaderUnchanged, Goto, Go, StorageOK
<1>3. CASE /\ disk[p].magic
           /\ scan' = [scan EXCEPT ![r] = [NoScan EXCEPT !.l = p, !.left = disk[p]]]
           /\ Go(r, "backFirst")
  <2>1. p \in Numbers
    BY <1>1, NumberBefore
  <2>2. at'[r] = "backFirst" /\ scan'[r].l = p /\ scan'[r].left = disk[p]
    BY <1>0, <1>1, <1>3, <2>1, PositionOK DEF Go, StorageOK
  <2> HIDE DEF p
  <2>3. PICK j \in 1..Len(log) : Holds(log, p, j) /\ disk[p].sid = log[j]
                                 /\ disk[p].first = PlaceOf(Min(SidBlocks(log, log[j])))
    BY <1>1, <1>3, <2>1 DEF TailOn
  <2>4. log[j] < rs[r].id => Ended(j)
    <3>1. SUFFICES ASSUME log[j] < rs[r].id PROVE Ended(j)
      OBVIOUS
    <3>2. PICK i \in 1..Len(log) + 1 :
            PlaceOf(i) = rs[r].first /\ \A k \in i..Len(log) : log[k] >= rs[r].id
      BY <1>0 DEF HeldBy, GoesOn
    <3>3. p = PlaceOf(i - 1)
      <4>1. i \in Int
        BY <3>2
      <4> QED  BY <3>2, <4>1, PlaceBefore DEF p
    <3>4. j < i
      <4>1. j \in i..Len(log) => log[j] >= rs[r].id
        BY <3>2
      <4> QED  BY <1>1, <3>1, <4>1
    <3>5. PlaceOf(j) = PlaceOf(i - 1) /\ j + StorageSize > Len(log)
      BY <2>3, <3>3 DEF Holds
    <3>6. j = i - 1
      <4>1. j \in Int /\ i - 1 \in Int /\ j < (i - 1) + StorageSize /\ i - 1 < j + StorageSize
        BY <1>1, <3>4, <3>5, RingNumbers
      <4> QED  BY <3>5, <4>1, SamePlace
    <3>7. LastIn(log, j)
      <4>1. \A k \in j + 1..Len(log) : k \in i..Len(log) /\ k \in 1..Len(log)
        BY <3>6
      <4>2. \A k \in j + 1..Len(log) : log[k] >= rs[r].id /\ log[k] \in Nat
        <5>1. TAKE k \in j + 1..Len(log)
        <5>2. k \in i..Len(log) /\ k \in 1..Len(log)
          BY <4>1
        <5>3. log[k] \in Nat
          BY <1>1, <5>2
        <5> QED  BY <3>2, <5>2, <5>3
      <4>3. \A k \in j + 1..Len(log) : log[k] > log[j]
        BY <1>1, <3>1, <4>2
      <4> QED  BY <4>3 DEF LastIn
    <3>8. GoingOn => log[j] < ws.id
      <4>1. at[SessionWriter] = "publish" => log[j] < ws.id
        BY DEF LogInv, WriterOK, NewOne
      <4>2. at[SessionWriter] \in {"notify", "open", "written"} => recent.id = ws.id
        BY DEF LogInv, WriterOK, CacheIsSession
      <4>3. log[j] < recent.id
        BY <1>0, <1>1, <3>1 DEF HeldBy
      <4> QED  BY <4>1, <4>2, <4>3 DEF GoingOn
    <3> QED  BY <3>7, <3>8 DEF Ended
  <2>5. Ended(j) => Ended(j)'
    BY <1>2 DEF Ended, GoingOn
  <2>6. BeforeOK(r)'
    <3>1. PlaceOf(j) = p
      BY <2>3 DEF Holds
    <3> QED  BY <1>2, <2>2, <2>3, <2>4, <2>5, <3>1 DEF BeforeOK, FirstOf
  <2>7. HeldBy(r)'
    BY <1>0, <1>2, <2>2, <2>6 DEF HeldBy, NextOK, CopyOK, IsValid
  <2> QED  BY <1>2, <2>7 DEF Opens
<1>4. CASE Goto(r, "idle")
  <2>1. at'[r] = "idle"
    BY <1>0, <1>4 DEF Goto, Go, StorageOK
  <2> QED  BY <1>0, <1>2, <2>1, ReadSame DEF Away
<1> QED  BY <1>3, <1>4 DEF Back

\* The first block of the session, read after its last one, is still the first.
LEMMA ReadBackFirst ==
  ASSUME StorageInv, LogInv, HeldInv, NEW r \in Readers, BackFirst(r)
  PROVE  HeldBy(r)' /\ Opens(r)
<1> DEFINE h == scan[r].left
           s == Extent(h.sid, h.first, scan[r].l, rs[r].first)
<1>0. /\ StorageOK /\ ScanOK /\ CachedOK /\ DoneOK /\ HeldBy(r) /\ r \in Searchers
      /\ at[r] = "backFirst" /\ IsValid(rs[r]) /\ IsValid(recent)
  BY SearchersAre DEF StorageInv, Informed, HeldInv, BackFirst, CachedOK, InSession
<1>1. /\ log \in Seq(Nat) /\ InSessions(log) /\ TailOn(disk, log) /\ h \in Headers
      /\ UNCHANGED <<recent, log>> /\ recent.id \in Nat
  BY <1>0 DEF StorageOK, LogInv, BackFirst, ReaderUnchanged, Scans, Sessions
<1>2. PICK j \in 1..Len(log) :
        /\ log[j] = h.sid /\ PlaceOf(j) = scan[r].l /\ h.first = FirstOf(log[j])
        /\ log[j] < rs[r].id => Ended(j)
  BY <1>0 DEF HeldBy, BeforeOK
<1>3. /\ GoesOn(log, h.first, h.sid) /\ h.sid <= recent.id
  BY <1>0, <1>1, <1>2, FirstGoesOn, CacheGoesOn DEF FirstOf
<1>4. ASSUME NEW x \in {"idle", "back"}, Goto(r, x) PROVE at'[r] = x
  BY <1>0, <1>4 DEF Goto, Go, StorageOK
<1>5. CASE /\ disk[h.first].magic /\ disk[h.first].sid = h.sid
           /\ rs' = [rs EXCEPT ![r] = s] /\ (Goto(r, "idle") \/ Goto(r, "back"))
  <2>1. rs'[r] = s /\ at'[r] \in {"idle", "back"}
    <3>1. at'[r] = "idle" \/ at'[r] = "back"
      BY <1>4, <1>5
    <3>2. rs' = [rs EXCEPT ![r] = s] /\ DOMAIN rs = Readers
      BY <1>0, <1>5 DEF StorageOK
    <3> HIDE DEF s
    <3> QED  BY <3>1, <3>2
  <2>2. s.id = h.sid /\ s.first = h.first /\ s.last = scan[r].l
    BY DEF Extent
  <2> HIDE DEF s
  <2>3. HeldBy(r)'
    BY <1>1, <1>3, <2>1, <2>2 DEF HeldBy, BeforeOK, NextOK, CopyOK, IsValid
  <2> DEFINE b == BlocksOf(s.id)
             m == Min(b)
  <2>4. b = SidBlocks(log, log[j]) /\ j \in b
    BY <1>1, <1>2, <2>2 DEF BlocksOf, SidBlocks
  <2>5. h.first = PlaceOf(m) /\ m \in 1..Len(log) /\ log[m] = log[j]
    BY <1>1, <1>2, <2>4, SidEnds DEF FirstOf
  <2>6. Holds(log, h.first, m)
    <3>1. PICK i \in 1..Len(log) : Holds(log, h.first, i) /\ disk[h.first].sid = log[i]
      BY <1>1, <1>5 DEF TailOn, Headers
    <3>2. log[i] = log[j]
      BY <1>2, <1>5, <3>1
    <3>3. m <= i
      BY <1>1, <2>4, <3>2, SidEnds
    <3> HIDE DEF m
    <3>4. m < i => i - m < StorageSize - 1
      BY <1>1, <2>5, <3>2 DEF InSessions
    <3>5. /\ m \in Int /\ i \in Int /\ PlaceOf(i) = PlaceOf(m)
          /\ i < m + StorageSize /\ m < i + StorageSize
      BY <2>5, <3>1, <3>3, <3>4, RingNumbers DEF Holds
    <3>6. m = i
      BY <3>5, SamePlace
    <3> QED  BY <3>1, <3>6
  <2>7. s.id < rs[r].id => s.last = PlaceOf(Max(b))
    <3>1. Ended(j) => Max(SidBlocks(log, log[j])) = j
      BY <1>1, LastIsMax DEF Ended
    <3> QED  BY <1>2, <2>2, <2>4, <3>1
  <2>8. s.last \in {PlaceOf(i) : i \in b}
    BY <1>2, <2>2, <2>4
  <2>9. b # {}
    BY <2>4
  <2> HIDE DEF b, m
  <2>10. s.first = PlaceOf(Min(b)) /\ Holds(log, s.first, Min(b))
    BY <2>2, <2>5, <2>6 DEF m
  <2>11. Opens(r)
    BY <1>0, <2>1, <2>7, <2>8, <2>9, <2>10 DEF Opens, b
  <2> QED  BY <2>3, <2>11
<1>6. CASE Goto(r, "idle") /\ UNCHANGED rs
  <2>1. at'[r] = "idle" /\ rs'[r] = rs[r]
    BY <1>4, <1>6
  <2> QED  BY <1>0, <1>1, <2>1 DEF Opens, HeldBy, BeforeOK, NextOK, CopyOK, IsValid
<1>7. \/ /\ disk[h.first].magic /\ disk[h.first].sid = h.sid
         /\ rs' = [rs EXCEPT ![r] = s] /\ (Goto(r, "idle") \/ Goto(r, "back"))
      \/ Goto(r, "idle") /\ UNCHANGED rs
  BY DEF BackFirst
<1> QED  BY <1>5, <1>6, <1>7

\* openNextSession reads the block behind the session.
LEMMA ReadNext ==
  ASSUME StorageInv, LogInv, HeldInv, NEW r \in Readers, NextSession(r)
  PROVE  HeldBy(r)' /\ Opens(r)
<1> DEFINE p == CircularNumber(rs[r].last, 1)
<1>0. /\ StorageOK /\ CachedOK /\ DoneOK /\ HeldBy(r) /\ r \in Searchers
      /\ r # SessionWriter /\ at[r] = "idle" /\ IsValid(rs[r]) /\ IsValid(recent)
  BY SearchersAre DEF StorageInv, Informed, HeldInv, NextSession, CachedOK
<1>1. /\ log \in Seq(Nat) /\ rs[r].last \in Nat /\ recent.id \in Nat /\ ws.id \in Nat
      /\ disk \in [Numbers -> Headers] /\ InSessions(log) /\ TailOn(disk, log)
      /\ RefsOn(disk, log)
  BY <1>0, RingNumbers DEF StorageOK, Sessions, LogInv
<1>2. p \in Numbers
  BY <1>1, NumberBehind
<1>3. /\ UNCHANGED <<disk, recent, rs, log, ws>> /\ at'[SessionWriter] = at[SessionWriter]
      /\ disk[p].magic /\ at'[r] = "next"
      /\ scan' = [scan EXCEPT ![r] = [NoScan EXCEPT !.l = p, !.left = disk[p]]]
  BY <1>0 DEF NextSession, ReaderUnchanged, Go, StorageOK
<1>4. scan'[r].l = p /\ scan'[r].left = disk[p]
  BY <1>0, <1>1, <1>2, <1>3, PositionOK DEF StorageOK
<1> HIDE DEF p
<1>5. PICK j \in 1..Len(log) : Holds(log, p, j) /\ disk[p].sid = log[j]
                               /\ disk[p].first = PlaceOf(Min(SidBlocks(log, log[j])))
  BY <1>1, <1>2, <1>3 DEF TailOn
<1>6. ASSUME disk[p].next # INVALID
      PROVE  /\ p = FirstOf(log[j])
             /\ \E m \in 1..Len(log) :
                  Ended(m) /\ log[m] = log[j] /\ disk[p].next = PlaceOf(m + 1)
  <2> DEFINE m == Max(SidBlocks(log, log[j]))
  <2>1. disk[p].first = p /\ disk[p].next = PlaceOf(m + 1)
    BY <1>1, <1>2, <1>3, <1>5, <1>6 DEF RefsOn
  <2>2. LastIn(log, m) /\ log[m] = log[j]
    BY <1>1, LastIsMax
  <2> HIDE DEF m
  <2>3. m \in 1..Len(log)
    BY <2>2 DEF LastIn
  <2>4. GoingOn => log[m] < ws.id
    <3>1. at[SessionWriter] = "publish" => log[m] < ws.id
      BY <2>3 DEF LogInv, WriterOK, NewOne
    <3>2. at[SessionWriter] \in {"notify", "open", "written"} => recent.id = ws.id /\ NoRef
      BY DEF LogInv, WriterOK, CacheIsSession
    <3>3. NoRef => log[m] # ws.id
      BY <1>2, <1>3, <1>5, <1>6, <2>2 DEF NoRef, NoRefOf
    <3>4. log[m] <= recent.id /\ log[m] \in Nat
      BY <1>0, <1>1, <2>3, CacheGoesOn
    <3> QED  BY <1>1, <3>1, <3>2, <3>3, <3>4 DEF GoingOn
  <2> QED  BY <1>5, <2>1, <2>2, <2>3, <2>4 DEF Ended, FirstOf
<1>7. \A m : Ended(m) => Ended(m)'
  BY <1>3 DEF Ended, GoingOn
<1>8. PlaceOf(j) = p
  BY <1>5 DEF Holds
<1>9. NextOK(r)'
  BY <1>3, <1>4, <1>5, <1>6, <1>7, <1>8 DEF NextOK, FirstOf
<1>10. HeldBy(r)'
  BY <1>0, <1>3, <1>9 DEF HeldBy, BeforeOK, CopyOK, IsValid
<1> QED  BY <1>3, <1>10 DEF Opens

\* With a reference it is a complete session.
LEMMA ReadNextFirst ==
  ASSUME StorageInv, LogInv, HeldInv, NEW r \in Readers, NextFirst(r)
  PROVE  HeldBy(r)' /\ Opens(r)
<1> DEFINE h == scan[r].left
           p == scan[r].l
<1>0. /\ StorageOK /\ CachedOK /\ DoneOK /\ HeldBy(r) /\ r \in Searchers
      /\ at[r] = "next" /\ IsValid(rs[r]) /\ IsValid(recent)
  BY SearchersAre DEF StorageInv, Informed, HeldInv, NextFirst, CachedOK, InSession
<1>1. /\ log \in Seq(Nat) /\ InSessions(log) /\ scan[r] \in Scans
      /\ UNCHANGED <<recent, log>> /\ recent.id \in Nat
  BY <1>0 DEF StorageOK, LogInv, NextFirst, ReaderUnchanged, Sessions
<1>2. PICK j \in 1..Len(log) :
        /\ log[j] = h.sid /\ PlaceOf(j) = p
        /\ h.next # INVALID =>
             /\ p = FirstOf(log[j])
             /\ \E m \in 1..Len(log) : Ended(m) /\ log[m] = log[j] /\ h.next = PlaceOf(m + 1)
  BY <1>0 DEF HeldBy, NextOK
<1>3. GoesOn(log, p, h.sid) /\ h.sid <= recent.id
  BY <1>0, <1>1, <1>2, FirstGoesOn, CacheGoesOn
<1>4. ASSUME NEW s, s.id = h.sid, s.first = p, rs'[r] = s, at'[r] = "idle"
      PROVE  HeldBy(r)'
  BY <1>1, <1>3, <1>4 DEF HeldBy, BeforeOK, NextOK, CopyOK, IsValid
<1>5. CASE /\ h.next # INVALID
           /\ rs' = [rs EXCEPT ![r] = Extent(h.sid, p, CircularNumber(h.next, -1), h.next)]
           /\ Goto(r, "idle")
  <2> DEFINE s == Extent(h.sid, p, CircularNumber(h.next, -1), h.next)
             b == BlocksOf(s.id)
  <2>1. rs'[r] = s /\ at'[r] = "idle"
    BY <1>0, <1>5 DEF Goto, Go, StorageOK
  <2>2. s.id = h.sid /\ s.first = p /\ s.last = CircularNumber(h.next, -1)
    BY DEF Extent
  <2> HIDE DEF s
  <2>3. PICK m \in 1..Len(log) : Ended(m) /\ log[m] = log[j] /\ h.next = PlaceOf(m + 1)
    BY <1>2, <1>5
  <2>4. b = SidBlocks(log, log[j]) /\ m \in b
    BY <1>2, <2>2, <2>3 DEF BlocksOf, SidBlocks
  <2>5. s.last = PlaceOf(m)
    <3>1. m + 1 \in Int /\ (m + 1) - 1 = m
      OBVIOUS
    <3>2. CircularNumber(PlaceOf(m + 1), -1) = PlaceOf((m + 1) - 1)
      BY <3>1, PlaceBefore
    <3> QED  BY <2>2, <2>3, <3>1, <3>2
  <2>6. Max(b) = m
    BY <1>1, <2>3, <2>4, LastIsMax DEF Ended
  <2>7. s.first = PlaceOf(Min(b))
    BY <1>2, <1>5, <2>2, <2>4 DEF FirstOf
  <2>8. b # {} /\ s.last \in {PlaceOf(i) : i \in b} /\ s.last = PlaceOf(Max(b))
    BY <2>4, <2>5, <2>6
  <2> HIDE DEF b
  <2>9. Opens(r)
    BY <1>0, <2>1, <2>7, <2>8 DEF Opens, b
  <2> QED  BY <1>4, <2>1, <2>2, <2>9
<1>6. CASE /\ scan' = [scan EXCEPT ![r] = [NoScan EXCEPT !.l = 1]]
           /\ Go(r, "copyNext") /\ UNCHANGED <<rs, req>>
  <2>1. scan'[r].l = 1 /\ at'[r] = "copyNext" /\ rs'[r] = rs[r]
    <3>1. 1 \in 0..StorageSize + 6
      BY RingNumbers
    <3> QED  BY <1>0, <1>6, <3>1, PositionOK DEF Go, StorageOK
  <2>2. GoesOn(log, rs[r].first, rs[r].id) /\ rs[r].id <= recent.id
    BY <1>0 DEF HeldBy
  <2> QED  BY <1>1, <2>1, <2>2 DEF HeldBy, BeforeOK, NextOK, CopyOK, Opens
<1>7. CASE /\ rs' = [rs EXCEPT ![r] = NewSession(h.sid, p)] /\ Goto(r, "idle")
  <2> DEFINE s == NewSession(h.sid, p)
  <2>1. rs'[r] = s /\ at'[r] = "idle"
    BY <1>0, <1>7 DEF Goto, Go, StorageOK
  <2>2. s.id = h.sid /\ s.first = p /\ ~s.done
    BY DEF NewSession, NoSession
  <2> HIDE DEF s
  <2> QED  BY <1>4, <2>1, <2>2 DEF Opens
<1> QED  BY <1>5, <1>6, <1>7 DEF NextFirst

\* The copy without the lock.
LEMMA ReadCopyNext ==
  ASSUME StorageInv, LogInv, HeldInv, NEW r \in Readers, CopyNext(r)
  PROVE  HeldBy(r)' /\ Opens(r)
<1> DEFINE k == scan[r].l
           s == [rs[r] EXCEPT ![Fields[k]] = recent[Fields[k]]]
<1>0. /\ StorageOK /\ ScanOK /\ CachedOK /\ DoneOK /\ HeldBy(r) /\ r \in Searchers
      /\ at[r] = "copyNext" /\ IsValid(rs[r]) /\ IsValid(recent)
  BY SearchersAre DEF StorageInv, Informed, HeldInv, CopyNext, CachedOK, InSession
<1>1. /\ UNCHANGED <<recent, log>> /\ rs' = [rs EXCEPT ![r] = s] /\ k \in 1..6
      /\ rs[r] \in Sessions /\ recent \in Sessions /\ scan[r] \in Scans
  BY <1>0 DEF CopyNext, ReaderUnchanged, ScanOK, StorageOK
<1>2. rs'[r] = s
  <2> HIDE DEF s
  <2> QED  BY <1>0, <1>1 DEF StorageOK
<1>3. /\ k = 1 => s = [rs[r] EXCEPT !.id = recent.id]
      /\ k = 2 => s = [rs[r] EXCEPT !.first = recent.first]
      /\ k = 3 => s = [rs[r] EXCEPT !.last = recent.last]
      /\ k = 4 => s = [rs[r] EXCEPT !.len = recent.len]
      /\ k = 5 => s = [rs[r] EXCEPT !.next = recent.next]
      /\ k = 6 => s = [rs[r] EXCEPT !.done = recent.done]
  BY DEF Fields
<1>4. /\ s.id = IF k = 1 THEN recent.id ELSE rs[r].id
      /\ s.first = IF k = 2 THEN recent.first ELSE rs[r].first
      /\ s.last = IF k = 3 THEN recent.last ELSE rs[r].last
      /\ k = 6 => s.done = recent.done
  <2>1. k = 1 \/ k = 2 \/ k = 3 \/ k = 4 \/ k = 5 \/ k = 6
    BY <1>1
  <2> HIDE DEF s, k
  <2> QED  BY <1>1, <1>3, <2>1 DEF Sessions
<1>5. /\ k # 6 => at'[r] = "copyNext" /\ scan'[r].l = k + 1
      /\ k = 6 => at'[r] = "idle"
  <2>1. Len(Fields) = 6
    BY DEF Fields
  <2>2. CASE k = 6
    BY <1>0, <2>1, <2>2 DEF CopyNext, Goto, Go, StorageOK
  <2>3. CASE k # 6
    <3>1. scan' = [scan EXCEPT ![r].l = k + 1] /\ at' = at
      BY <2>1, <2>3 DEF CopyNext
    <3>2. scan'[r].l = k + 1
      BY <1>0, <1>1, <3>1 DEF StorageOK, Scans
    <3> QED  BY <1>0, <2>3, <3>1, <3>2
  <2> QED  BY <2>2, <2>3
<1>6. /\ rs[r].id <= recent.id /\ (k = 2 \/ GoesOn(log, rs[r].first, rs[r].id))
      /\ recent.done => /\ k > 1 => rs[r].id = recent.id
                        /\ k > 2 => rs[r].first = recent.first
                        /\ k > 3 => rs[r].last = recent.last
  BY <1>0 DEF HeldBy, CopyOK
<1>7. /\ log \in Seq(Nat) /\ recent.id \in Nat /\ rs[r].id \in Nat
      /\ GoesOn(log, recent.first, recent.id)
  BY <1>0, <1>1, CacheGoesOn DEF StorageOK, Sessions
<1>8. k = 2 => GoesOn(log, recent.first, rs[r].id)
  <2>1. PICK i \in 1..Len(log) + 1 :
          PlaceOf(i) = recent.first /\ \A n \in i..Len(log) : log[n] >= recent.id
    BY <1>7 DEF GoesOn
  <2>2. \A n \in i..Len(log) : log[n] >= rs[r].id
    <3>1. TAKE n \in i..Len(log)
    <3>2. n \in 1..Len(log) /\ log[n] \in Nat
      BY <1>7
    <3> QED  BY <1>6, <1>7, <2>1, <3>2
  <2> QED  BY <2>1, <2>2 DEF GoesOn
<1> HIDE DEF s
<1>9. s.id <= recent.id /\ (k = 1 \/ GoesOn(log, s.first, s.id))
  BY <1>1, <1>4, <1>6, <1>7, <1>8
<1>10. BeforeOK(r)' /\ NextOK(r)'
  BY <1>5 DEF BeforeOK, NextOK
<1>11. CASE k = 6
  <2>1. HeldBy(r)'
    BY <1>1, <1>2, <1>5, <1>9, <1>10, <1>11 DEF HeldBy, CopyOK, IsValid
  <2>2. s.done => s.id = recent.id /\ s.first = recent.first /\ s.last = recent.last /\ recent.done
    <3>1. k > 1 /\ k > 2 /\ k > 3 /\ k # 1 /\ k # 2 /\ k # 3
      BY <1>11
    <3> HIDE DEF k
    <3> QED  BY <1>4, <1>6, <1>11, <3>1, Zenon
  <2>3. Opens(r)
    BY <1>0, <1>2, <1>5, <1>11, <2>2, DoneIsLast DEF Opens
  <2> QED  BY <2>1, <2>3
<1>12. CASE k # 6
  <2>1. /\ at'[r] = "copyNext" /\ scan'[r].l = k + 1 /\ (k + 1 = 2 <=> k = 1)
        /\ (k + 1 > 2 <=> k > 1) /\ (k + 1 > 3 <=> k > 2) /\ k + 1 > 1
    BY <1>1, <1>5, <1>12
  <2>2. recent.done => /\ s.id = recent.id
                       /\ k > 1 => s.first = recent.first
                       /\ k > 2 => s.last = recent.last
    <3>1. /\ k = 1 \/ (k > 1 /\ k # 1)
          /\ k > 1 => k = 2 \/ (k > 2 /\ k # 2)
          /\ k > 2 => k = 3 \/ (k > 3 /\ k # 3)
          /\ k > 2 => k > 1
      BY <1>1
    <3> HIDE DEF k
    <3> QED  BY <1>4, <1>6, <3>1, Zenon
  <2>3. CopyOK(r)'
    BY <1>1, <1>2, <2>1, <2>2 DEF CopyOK
  <2>4. HeldBy(r)'
    BY <1>1, <1>2, <1>9, <1>10, <2>1, <2>3 DEF HeldBy, IsValid
  <2> QED  BY <2>1, <2>4 DEF Opens
<1> QED  BY <1>11, <1>12

\* The steps of a reader.
LEMMA ReadOpens ==
  ASSUME StorageInv, LogInv, HeldInv, NEW r \in Readers, SessionReaderStep(r)
  PROVE  HeldBy(r)' /\ Opens(r)
<1>0. /\ StorageOK /\ ScanOK /\ CachedOK /\ r \in Searchers
      /\ UNCHANGED <<log, ws, at[SessionWriter]>> /\ (IsValid(recent) => recent' = recent)
  BY SearchersAre, ReadOthers DEF StorageInv, Informed
<1>1. \A x : /\ Go(r, x) => at'[r] = x
             /\ Goto(r, x) => at'[r] = x
  BY <1>0 DEF Goto, Go, StorageOK
<1>2. ASSUME rs' = rs, at[r] \notin Away, at'[r] \notin Away
      PROVE  HeldBy(r)' /\ Opens(r)
  BY <1>0, <1>2, ReadSame
<1>3. ASSUME rs' = [rs EXCEPT ![r] = recent], UNCHANGED recent, IsValid(recent),
             at[r] \notin Away, at'[r] \notin Away
      PROVE  HeldBy(r)' /\ Opens(r)
  <2>1. rs'[r] = recent
    BY <1>0, <1>3 DEF StorageOK
  <2> QED  BY <1>0, <1>3, <2>1, ReadCache
<1>4. CASE OpenSession(r) \/ Previous(r) \/ ReadBlock(r)
  <2>1. /\ at[r] = "idle" /\ rs' = rs
        /\ \E x \in {"prepareOpen", "back", "prepareRead"} : Go(r, x)
    BY <1>4 DEF OpenSession, Previous, ReadBlock, Ask
  <2> QED  BY <1>1, <1>2, <2>1 DEF Away
<1>5. CASE Install(r)
  BY <1>1, <1>2, <1>5 DEF Install, Away
<1>6. CASE PrepareOpen(r)
  <2>1. \E x \in {"scan", "idle", "openCopy"} : Goto(r, x)
    BY <1>6 DEF PrepareOpen
  <2> QED  BY <1>1, <1>2, <1>6, <2>1 DEF PrepareOpen, Away
<1>7. CASE SyncOpen(r)
  <2>1. \E x \in {"openCopy", "waitOpen", "idle"} : Goto(r, x)
    BY <1>7 DEF SyncOpen
  <2> QED  BY <1>1, <1>2, <1>7, <2>1 DEF SyncOpen, Away
<1>8. CASE PrepareRead(r)
  <2>1. \E x \in {"idle", "fetch", "syncRead"} : Goto(r, x)
    BY <1>8 DEF PrepareRead
  <2> QED  BY <1>1, <1>2, <1>8, <2>1 DEF PrepareRead, Away
<1>9. CASE Fetch(r)
  BY <1>1, <1>2, <1>9 DEF Fetch, Away
<1>10. CASE OpenCopy(r)
  <2>1. \E x \in {"idle", "back"} : Goto(r, x)
    BY <1>10 DEF OpenCopy
  <2>2. IsValid(recent)
    BY <1>0, <1>10 DEF ScanOK, OpenCopy
  <2> QED  BY <1>1, <1>3, <1>10, <2>1, <2>2 DEF OpenCopy, Away
<1>11. CASE SyncRead(r)
  <2>1. CASE Goto(r, "prepareRead") /\ UNCHANGED rs
    BY <1>1, <1>2, <1>11, <2>1 DEF SyncRead, Away
  <2>2. CASE rs' = [rs EXCEPT ![r] = recent] /\ \E x \in {"fetch", "waitRead", "idle"} : Goto(r, x)
    <3>1. IsValid(recent)
      BY <1>0, <1>11 DEF CachedOK, InSession, SyncRead
    <3> QED  BY <1>1, <1>3, <1>11, <2>2, <3>1 DEF SyncRead, Away
  <2> QED  BY <1>11, <2>1, <2>2 DEF SyncRead
<1> QED  BY <1>4, <1>5, <1>6, <1>7, <1>8, <1>9, <1>10, <1>11, ReadBack, ReadBackFirst, ReadNext,
            ReadNextFirst, ReadCopyNext DEF SessionReaderStep

\* All of it, for one step of a reader and for any step.
LEMMA ReadByReader ==
  ASSUME StorageInv, LogInv, HeldInv, NEW r \in Readers, SessionReaderStep(r)
  PROVE  HeldInv' /\ OpensReal
<1>1. /\ DoneOK' /\ HeldBy(r)' /\ Opens(r)
      /\ \A q \in Readers \ {r} : HeldBy(q)' /\ rs'[q] = rs[q]
  BY ReadOthers, ReadOpens
<1>2. \A q \in Readers : HeldBy(q)' /\ Opens(q)
  <2>1. TAKE q \in Readers
  <2>2. CASE q = r
    BY <1>1, <2>2
  <2>3. CASE q # r
    BY <1>1, <2>3 DEF Opens
  <2> QED  BY <2>2, <2>3
<1> QED  BY <1>1, <1>2 DEF HeldInv, OpensReal, Opens

LEMMA ReadStep ==
  ASSUME ~EmptySessions, StorageInv, StorageInv', LogInv, LogInv', HeldInv, [StorageNext]_storageVars
  PROVE  HeldInv' /\ [OpensReal]_storageVars
<1>1. rs' = rs => OpensReal
  BY DEF OpensReal
<1>2. CASE Restart
  <2>1. /\ at'[SessionWriter] = "closed" /\ ~recent'.done
        /\ \A r \in Readers : at'[r] = "idle" /\ rs'[r] = NoSession /\ ~rs'[r].done
    BY <1>2, SearchersAre DEF Restart, NoSession
  <2>2. HeldInv'
    BY <2>1, NothingOK DEF HeldInv, DoneOK, HeldBy, BeforeOK, NextOK, CopyOK, Resting, InWriter, IsValid
  <2> QED  BY <2>1, <2>2 DEF OpensReal
<1>3. CASE UNCHANGED storageVars
  <2>1. HeldInv'
    BY <1>3 DEF storageVars, HeldInv, DoneOK, HeldBy, BeforeOK, NextOK, CopyOK, IsValid, CachedLast,
       FirstOf, Ended, GoingOn
  <2> QED  BY <1>3, <2>1
<1>4. CASE SessionWriterStep
  BY <1>1, <1>4, ReadByWriter
<1>5. CASE \E t \in Searchers : Scan(t)
  BY <1>1, <1>5, ReadByScan
<1>6. CASE \E r \in Readers : SessionReaderStep(r)
  BY <1>6, ReadByReader
<1> QED  BY <1>2, <1>3, <1>4, <1>5, <1>6 DEF StorageNext

\* A complete session that a reader gets from openSession, openPreviousSession,
\* openNextSession or a read is one that was written.  Its first block is on the
\* device (unless a forward reference was followed), its last one is a block of it,
\* and the very last one if the reader came from a later session or over a
\* reference, whatever the writer does between two steps of the reader (the copy of
\* the cache without the lock included).
THEOREM SessionsAreReal ==
  ASSUME ~EmptySessions
  PROVE  StorageSpec => OpenedIsReal
<1>1. StorageInit => HeldInv
  BY ReadInit
<1>2. /\ StorageInv /\ LogInv /\ (StorageInv /\ LogInv)' /\ HeldInv /\ [StorageNext]_storageVars
      => HeldInv' /\ [OpensReal]_storageVars
  BY ReadStep
<1> QED  BY <1>1, <1>2, LogInvariant, PTL DEF StorageSpec, OpenedIsReal

(***************************************************************************)
(* The types, of the storage and then of the four parts together.          *)
(***************************************************************************)

\* The numbers that the storage computes stay on its ring, for rings of every size
\* from two blocks on, for every modulus of the identifiers from four on, for every
\* number of readers, and whatever restarts happen (sessions without a block
\* included).
THEOREM StorageTypesCorrect == StorageSpec => []StorageTypeOK
<1>1. ASSUME StorageOK PROVE StorageTypeOK
  <2>1. Len(Fields) = 6
    BY DEF Fields
  <2>2. \A t \in Searchers : scan[t] \in Scans
    BY <1>1 DEF StorageOK
  <2>3. \A t \in Searchers : scan[t].l \in 0..StorageSize + Len(Fields) /\ scan[t].r \in Numbers
    BY <2>1, <2>2 DEF Scans
  <2>4. {recent, ws} \cup {rs[r] : r \in Readers} \subseteq Sessions
    BY <1>1 DEF StorageOK
  <2> QED  BY <1>1, <2>3, <2>4 DEF StorageOK, StorageTypeOK
<1>2. StorageInv => StorageTypeOK
  BY <1>1 DEF StorageInv
<1> QED  BY <1>2, StorageInvariant, PTL

\* The character device, the storage, the sensor and its values side by side keep
\* their types, each for all its constants.
THEOREM PartsTypesCorrect == DevicesSide => []PartsTypeOK
<1>1. DeviceTypeOK /\ StorageTypeOK /\ SensorTypeOK /\ ValuesTypeOK => PartsTypeOK
  BY DEF PartsTypeOK
<1> QED
  BY <1>1, DeviceTypesCorrect, StorageTypesCorrect, SensorTypesCorrect, ValuesTypesCorrect, PTL
     DEF DevicesSide
=============================================================================
