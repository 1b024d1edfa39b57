-------------------------- MODULE OSDeviceCharacter --------------------------
(***************************************************************************)
(* class OSDeviceCharacter with OSDeviceCharacterBuffered                  *)
(* (devices/character/src), in the build with                              *)
(* OS_INCLUDE_OSDEVICECHARACTER_TIMEOUTS and without READMATCH: one thread *)
(* opens the device, reads from it and closes it, another one writes to it *)
(* and cancels the reads of the first; the port's interrupts fill the      *)
(* receive buffer and drain the transmit buffer; a timer ends the waits.   *)
(*                                                                         *)
(* A step is one critical section or an interrupt.  The wait is the        *)
(* kernel's (module OSKernel), seen from outside: eventWaitPrepare in the  *)
(* same critical section as the check, then a yield that ends when the     *)
(* thread is notified.  A call that is refused changes nothing and is left *)
(* out, and so are: threads that are interrupted, a device that is not     *)
(* connected (the buffered devices always are), and the flow control       *)
(* m_isReceiving, which nothing here switches off.                         *)
(***************************************************************************)
EXTENDS CircularByteBuffer

CONSTANTS
  Reader, Writer,   \* the two threads
  Reads,            \* the sizes given to readBytes(), ByteRead for readByte()
  Writes,           \* the bytes given to writeBytes()
  Arriving,         \* the bytes that arrive
  Limits,           \* the timeouts that are set
  Zero              \* what the arrays hold at first

ASSUME DeviceAssumption ==
  /\ Reader # Writer
  /\ Reads \subseteq Nat
  /\ Writes \subseteq Seq(Bytes) \ {<<>>}
  /\ Arriving \subseteq Bytes /\ Zero \in Bytes
  /\ Limits \subseteq {"never", "immediately", "ticks"}

VARIABLES
  isOpened,       \* m_isOpened
  doCancelRead,   \* m_doCancelRead
  rxBuf, txBuf,   \* m_rxBuf, m_txBuf
  rxOn, txOn,     \* the interrupts of the port are enabled
  callAt,         \* per thread: where it is in a call
  todo,           \* the size the reader wants; the bytes the writer has left
  timeout,        \* per thread: m_readTimeout, m_writeTimeout
  waiting,        \* per thread: it waits for its event
  ret,            \* per thread: m_eventWaitReturn
  alarms,         \* the threads for whose event the timer has an entry
  received,       \* the byte in the receive register of the port
  got,            \* the bytes a read is about to return
  sent            \* the byte in the transmit register of the port

bufferVars == <<rxBuf, txBuf, received, got, sent>>
portVars == <<isOpened, doCancelRead, rxOn, txOn>>
callVars == <<callAt, todo, timeout>>
waitVars == <<waiting, ret, alarms>>
deviceVars == <<bufferVars, portVars, callVars, waitVars>>

Threads == {Reader, Writer}
ByteRead == 0   \* the size that stands for readByte()
Idle(t) == callAt[t] = "idle"

GoOn(t, l) == callAt' = [callAt EXCEPT ![t] = l]

NoTodo == [size |-> ByteRead, data |-> <<>>]

\* A step of a call that leaves its arguments alone, or ends it.
GoOnTo(t, l) ==
  /\ GoOn(t, l)
  /\ IF l # "idle" THEN UNCHANGED <<todo, timeout>>
     ELSE /\ timeout' = [timeout EXCEPT ![t] = "never"]
          /\ todo' = IF t = Reader THEN [todo EXCEPT !.size = ByteRead]
                     ELSE [todo EXCEPT !.data = <<>>]

\* eventNotify for the event of t.
Notified(t, r) ==
  /\ waiting' = [waiting EXCEPT ![t] = FALSE]
  /\ ret' = IF waiting[t] THEN [ret EXCEPT ![t] = r] ELSE ret

NewBuffer == [mem |-> [o \in Offsets |-> Zero], put |-> 0, get |-> 0, len |-> 0]

DeviceInit ==
  /\ isOpened = FALSE /\ doCancelRead = FALSE
  /\ rxBuf = NewBuffer /\ txBuf = NewBuffer
  /\ rxOn = FALSE /\ txOn = FALSE
  /\ callAt = [t \in Threads |-> "idle"]
  /\ todo = NoTodo
  /\ timeout = [t \in Threads |-> "never"]
  /\ waiting = [t \in Threads |-> FALSE]
  /\ ret = [t \in Threads |-> "none"]
  /\ alarms = {}
  /\ received = <<>> /\ got = <<>> /\ sent = <<>>

-----------------------------------------------------------------------------
(***************************************************************************)
(* open and close, while no other call is in progress                      *)
(***************************************************************************)

Open ==
  /\ Idle(Reader) /\ Idle(Writer)
  /\ doCancelRead' = FALSE
  /\ GoOn(Reader, IF isOpened THEN "idle" ELSE "clear")
  /\ UNCHANGED <<bufferVars, waitVars, isOpened, rxOn, txOn, todo, timeout>>

\* implOpen: the buffers are cleared without a critical section ...
Clear ==
  /\ callAt[Reader] = "clear"
  /\ rxBuf' = ClearPointers(rxBuf)
  /\ GoOn(Reader, "clear length")
  /\ UNCHANGED <<txBuf, received, got, sent, portVars, waitVars, todo, timeout>>

\* ... and the port is initialised.
PortInit ==
  /\ callAt[Reader] = "clear length"
  /\ rxBuf' = ClearLength(rxBuf)
  /\ txBuf' = ClearLength(ClearPointers(txBuf))
  /\ rxOn' = TRUE /\ txOn' = FALSE
  /\ isOpened' = TRUE
  /\ GoOn(Reader, "idle")
  /\ UNCHANGED <<received, got, sent, doCancelRead, waitVars, todo, timeout>>

\* Variant: the port is not disabled, as in the AVR8 port.
Close_PortStays ==
  /\ Idle(Reader) /\ Idle(Writer)
  /\ doCancelRead' = FALSE
  /\ isOpened' = FALSE
  /\ UNCHANGED <<bufferVars, callVars, waitVars, rxOn, txOn>>

\* implClose: the port is disabled, and what its receiver holds is gone.
Close ==
  /\ Idle(Reader) /\ Idle(Writer)
  /\ doCancelRead' = FALSE
  /\ isOpened' = FALSE
  /\ rxOn' = IF isOpened THEN FALSE ELSE rxOn
  /\ txOn' = IF isOpened THEN FALSE ELSE txOn
  /\ received' = IF isOpened THEN <<>> ELSE received
  /\ UNCHANGED <<rxBuf, txBuf, got, sent, callVars, waitVars>>

-----------------------------------------------------------------------------
(***************************************************************************)
(* The wait of readByte, readBytes, writeByte and writeBytes               *)
(***************************************************************************)

\* eventWaitPrepare, in the critical section that has found nothing to do.
Prepare(t) ==
  /\ waiting' = [waiting EXCEPT ![t] = TRUE]
  /\ GoOn(t, "prepared")
  /\ UNCHANGED <<ret, alarms>>

\* Where a call goes that gives up: readBytes() returns what has come.
GiveUp(t) ==
  IF t = Reader /\ todo.size # ByteRead /\ ~IsEmpty(rxBuf) THEN "take" ELSE "idle"

\* With the timeout OS_IMMEDIATELY the wait is taken back, with another one
\* but OS_NEVER the timer is asked to notify the event.
Arm(t) ==
  /\ callAt[t] = "prepared"
  /\ \/ /\ timeout[t] = "immediately"
        /\ waiting' = [waiting EXCEPT ![t] = FALSE]
        /\ GoOnTo(t, GiveUp(t))
        /\ UNCHANGED alarms
     \/ /\ timeout[t] # "immediately"
        /\ alarms' = IF timeout[t] = "ticks" THEN alarms \cup {t} ELSE alarms
        /\ GoOnTo(t, "perform")
        /\ UNCHANGED waiting
  /\ UNCHANGED <<bufferVars, portVars, ret>>

\* eventWaitPerform has returned, or was not called: the timer forgets the
\* event only if the call goes on.
Performed(t) ==
  /\ callAt[t] = "perform" /\ ~waiting[t]
  /\ \/ /\ ret[t] \in {"timeout", "cancelled"}
        /\ GoOnTo(t, GiveUp(t))
        /\ UNCHANGED alarms
     \/ /\ ret[t] \notin {"timeout", "cancelled"}
        /\ alarms' = IF timeout[t] = "ticks" THEN alarms \ {t} ELSE alarms
        /\ GoOnTo(t, "check")
  /\ UNCHANGED <<bufferVars, portVars, waiting, ret>>

-----------------------------------------------------------------------------
(***************************************************************************)
(* Reads                                                                   *)
(***************************************************************************)

\* readByte() returns at once if the reads are cancelled; readBytes() does not
\* look at that.
Read(size, limit) ==
  /\ Idle(Reader) /\ isOpened
  /\ size = ByteRead => ~doCancelRead
  /\ todo' = [todo EXCEPT !.size = size]
  /\ timeout' = [timeout EXCEPT ![Reader] = limit]
  /\ GoOn(Reader, IF size # ByteRead /\ ~IsEmpty(rxBuf) THEN "take" ELSE "check")
  /\ UNCHANGED <<bufferVars, portVars, waitVars>>

\* Variant: whether there is a byte was looked at before the critical section.
ReadCheck_Stale ==
  /\ callAt[Reader] = "check"
  /\ Prepare(Reader)
  /\ UNCHANGED <<bufferVars, portVars, todo, timeout>>

ReadCheck ==
  /\ callAt[Reader] = "check"
  /\ \/ ~IsEmpty(rxBuf) /\ GoOn(Reader, "take") /\ UNCHANGED waitVars
     \/ IsEmpty(rxBuf) /\ Prepare(Reader)
  /\ UNCHANGED <<bufferVars, portVars, todo, timeout>>

\* implReadByte and implReadBytes
TakeBytes ==
  /\ callAt[Reader] = "take"
  /\ LET wanted == IF todo.size = ByteRead THEN 1 ELSE todo.size
         n == IF wanted > rxBuf.len THEN rxBuf.len ELSE wanted
     IN got' = Got(rxBuf, n) /\ rxBuf' = Left(rxBuf, n)
  /\ GoOn(Reader, "return")
  /\ UNCHANGED <<txBuf, received, sent, portVars, waitVars, todo, timeout>>

\* The caller has the bytes.
Return ==
  /\ callAt[Reader] = "return"
  /\ got' = <<>>
  /\ GoOnTo(Reader, "idle")
  /\ UNCHANGED <<rxBuf, txBuf, received, sent, portVars, waitVars>>

-----------------------------------------------------------------------------
(***************************************************************************)
(* Writes and cancellation                                                 *)
(***************************************************************************)

\* A write of one byte is writeByte(), which does the same.
Write(bytes, limit) ==
  /\ Idle(Writer) /\ isOpened
  /\ todo' = [todo EXCEPT !.data = bytes]
  /\ timeout' = [timeout EXCEPT ![Writer] = limit]
  /\ GoOn(Writer, "check")
  /\ UNCHANGED <<bufferVars, portVars, waitVars>>

WriteCheck ==
  /\ callAt[Writer] = "check"
  /\ \/ ~IsFull(txBuf) /\ GoOn(Writer, "put") /\ UNCHANGED waitVars
     \/ IsFull(txBuf) /\ Prepare(Writer)
  /\ UNCHANGED <<bufferVars, portVars, todo, timeout>>

\* implWriteByte and implWriteBytes; if not all bytes fit, writeBytes() goes on
\* as if it had waited.
PutAll ==
  /\ callAt[Writer] = "put"
  /\ LET n == Room(txBuf, Len(todo.data))
         b == PutBytes(txBuf, todo.data)
     IN /\ txBuf' = b
        /\ txOn' = (txOn \/ IsAboveHighWM(b))
        /\ IF n = Len(todo.data) THEN GoOnTo(Writer, "idle")
           ELSE /\ todo' = [todo EXCEPT !.data = SubSeq(@, n + 1, Len(@))]
                /\ GoOn(Writer, "prepared")
                /\ UNCHANGED timeout
  /\ UNCHANGED <<rxBuf, received, got, sent, isOpened, doCancelRead, rxOn, waitVars>>

Flush ==
  /\ Idle(Writer) /\ isOpened
  /\ txOn' = (txOn \/ ~IsEmpty(txBuf))
  /\ UNCHANGED <<bufferVars, callVars, waitVars, isOpened, doCancelRead, rxOn>>

\* cancelRead() sets the flag, then notifies the read event.
CancelRead ==
  /\ Idle(Writer)
  /\ doCancelRead' = TRUE
  /\ GoOn(Writer, "cancel")
  /\ UNCHANGED <<bufferVars, waitVars, isOpened, rxOn, txOn, todo, timeout>>

CancelNotify ==
  /\ callAt[Writer] = "cancel"
  /\ Notified(Reader, "cancelled")
  /\ GoOnTo(Writer, "idle")
  /\ UNCHANGED <<bufferVars, portVars, alarms>>

-----------------------------------------------------------------------------
(***************************************************************************)
(* Interrupts                                                              *)
(***************************************************************************)

\* A byte comes over the line (the overruns of the port itself are left out).
Arrive(c) ==
  /\ rxOn /\ received = <<>>
  /\ received' = <<c>>
  /\ UNCHANGED <<rxBuf, txBuf, got, sent, portVars, callVars, waitVars>>

\* Variant: a byte is put in a full buffer.
InterruptRx_NoTest ==
  /\ received # <<>>
  /\ rxBuf' = Put(rxBuf, received[1])
  /\ received' = <<>>
  /\ Notified(Reader, "event")
  /\ UNCHANGED <<txBuf, got, sent, portVars, callVars, alarms>>

\* interruptRxServiceRoutine: in a full buffer the byte is lost.
InterruptRx ==
  /\ received # <<>>
  /\ rxBuf' = IF IsFull(rxBuf) THEN rxBuf ELSE Put(rxBuf, received[1])
  /\ received' = <<>>
  /\ Notified(Reader, "event")
  /\ UNCHANGED <<txBuf, got, sent, portVars, callVars, alarms>>

\* interruptTxServiceRoutine, with the transmit register of the port empty.
InterruptTx ==
  /\ txOn /\ sent = <<>>
  /\ \/ /\ IsEmpty(txBuf)
        /\ txOn' = FALSE
        /\ UNCHANGED <<txBuf, sent, waiting, ret>>
     \/ /\ ~IsEmpty(txBuf)
        /\ sent' = Got(txBuf, 1) /\ txBuf' = Left(txBuf, 1)
        /\ IF IsBelowLowWM(txBuf') THEN Notified(Writer, "event")
           ELSE UNCHANGED <<waiting, ret>>
        /\ UNCHANGED txOn
  /\ UNCHANGED <<rxBuf, received, got, isOpened, doCancelRead, rxOn, callVars, alarms>>

\* The byte in the transmit register is on the line.
Shifted ==
  /\ sent # <<>>
  /\ sent' = <<>>
  /\ UNCHANGED <<rxBuf, txBuf, received, got, portVars, callVars, waitVars>>

\* The timer notifies the event of t.
Alarm(t) ==
  /\ t \in alarms
  /\ alarms' = alarms \ {t}
  /\ Notified(t, "timeout")
  /\ UNCHANGED <<bufferVars, portVars, callVars>>

-----------------------------------------------------------------------------

ReaderStep ==
  \/ Open \/ Clear \/ PortInit \/ Close
  \/ \E size \in Reads, limit \in Limits : Read(size, limit)
  \/ ReadCheck \/ TakeBytes \/ Return

WriterStep ==
  \/ \E bytes \in Writes, limit \in Limits : Write(bytes, limit)
  \/ WriteCheck \/ PutAll \/ Flush \/ CancelRead \/ CancelNotify

DeviceNext ==
  \/ ReaderStep
  \/ WriterStep
  \/ \E t \in Threads : Arm(t) \/ Performed(t) \/ Alarm(t)
  \/ \E c \in Arriving : Arrive(c)
  \/ InterruptRx \/ InterruptTx \/ Shifted

DeviceSpec == DeviceInit /\ [][DeviceNext]_deviceVars

-----------------------------------------------------------------------------
\* The buffers never hold more than there is room for.
DeviceTypeOK ==
  /\ {rxBuf, txBuf} \subseteq Buffers
  /\ todo.size \in Reads \cup {ByteRead}
  /\ alarms \subseteq Threads

\* Outside of open() the pointers of both buffers agree with their lengths,
\* also after a close() and an open() while the line was busy.
BuffersConsistent ==
  isOpened => Consistent(rxBuf) /\ Consistent(txBuf)

\* A reader waits only while nothing has come, and a writer only while the
\* transmission that will wake it goes on: the byte that comes between the
\* check and the wait, or the last one that leaves, is not missed.
NoMissedByte ==
  /\ waiting[Reader] => IsEmpty(rxBuf)
  /\ waiting[Writer] => txOn /\ ~IsBelowLowWM(txBuf)

\* What the two buffers promise: the receive buffer may drop a byte when it is
\* full, the transmit buffer may be left by a writer that gives up.
RxQueue == INSTANCE ByteQueue
  WITH in <- received, queue <- IF isOpened THEN Contents(rxBuf) ELSE <<>>, out <- got,
       Capacity <- Size, MayWithdraw <- FALSE
TxQueue == INSTANCE ByteQueue
  WITH in <- todo.data, queue <- IF isOpened THEN Contents(txBuf) ELSE <<>>, out <- sent,
       Capacity <- Size, MayWithdraw <- TRUE

\* While the device is open, the bytes that are read are those that arrived and
\* the bytes that are sent those that were written, in their order, each once;
\* only a byte that meets a full buffer is lost, and only a write that gives up
\* leaves bytes out, its last ones.
BuffersAreQueues == RxQueue!QueueSpec /\ TxQueue!QueueSpec

=============================================================================
