------------------------------- MODULE Serial -------------------------------
(***************************************************************************)
(* The serial driver (Kernel/Drivers/Output/Serial.c) on one UART: kernel  *)
(* code that sends and receives, the interrupt handler, and the device,    *)
(* which transmits and receives on its own.  Interrupts are disabled while *)
(* the handler runs and between IRQ_disableSave and IRQ_restore; the       *)
(* device never waits.  The external buffers are the queues Ringbuffer     *)
(* implements.  Bytes to be sent are numbered in the order they are put    *)
(* into the write buffer.                                                  *)
(***************************************************************************)
EXTENDS Integers, Sequences, SequencesExt

CONSTANTS
    BuffSize,           \* UARTDEVICE_EXT_BUFF_SIZE
    InternalBufferSize, \* dev->internalBufferSize
    FifoSize,           \* bytes the device's transmit FIFO holds
    StringLengths,      \* lengths of the strings kernel code sends
    LogLengths,         \* lengths of the messages the handler logs
    DiscardPeriod,      \* refusals of the read buffer per message (256)
    RxValues,           \* bytes the line may bring
    MaxSends,           \* bound on the strings sent, by kernel code and by the handler
    MaxRx               \* bound on the bytes the line brings

NUL == 0

ASSUME SerialAssumption ==
    /\ {BuffSize, InternalBufferSize, FifoSize, DiscardPeriod} \subseteq Nat \ {0}
    /\ InternalBufferSize <= FifoSize
    /\ StringLengths \subseteq Nat
    /\ LogLengths \subseteq Nat \ {0}
    /\ RxValues \subseteq Nat

VARIABLES
    writeBuff,      \* dev->externalWriteBuff
    readBuff,       \* dev->externalReadBuff
    ierTHRE,        \* the THRE bit of the interrupt enable register
    thr,            \* the device's transmit FIFO
    shift,          \* the byte the transmitter is sending, if any
    threPending,    \* the device reports an empty transmit FIFO
    rx,             \* the device's receive FIFO
    dataReady,      \* the device reports received data
    kernel,         \* the kernel code's call: where it is, and its locals
    handler,        \* where the interrupt handler is, and the strings it has yet to send
    accepted,       \* number of bytes ever put into the write buffer
    sent,           \* number of bytes that left on the wire
    rxTaken,        \* bytes ever read from the device
    delivered,      \* bytes ever returned to kernel code
    counter,        \* times a push to the read buffer found it full
    sends,          \* number of strings so far
    arrived         \* number of bytes that came in so far

device == <<thr, shift, threPending, rx, dataReady, sent, arrived>>
reading == <<readBuff, rxTaken, delivered, counter>>
vars == <<writeBuff, ierTHRE, kernel, handler, accepted, sends, device, reading>>

Idle == [at |-> "idle"]

\* The handler with the lengths of the strings it has yet to send: the messages
\* it logs and the bytes it sends back.
NotRunning == [at |-> "no", todo |-> <<>>]

Serving(todo) == [at |-> IF todo = <<>> THEN "serve" ELSE "push", todo |-> todo]

Init ==
    /\ writeBuff = <<>> /\ readBuff = <<>>
    /\ ierTHRE = FALSE
    /\ thr = <<>> /\ shift = <<>> /\ rx = <<>>
    /\ threPending = FALSE /\ dataReady = FALSE
    /\ kernel = Idle
    /\ handler = NotRunning
    /\ accepted = 0 /\ sent = 0 /\ sends = 0 /\ arrived = 0
    /\ rxTaken = <<>> /\ delivered = <<>>
    /\ counter = 0

InterruptsEnabled == kernel.at # "kick" /\ handler.at = "no"

-----------------------------------------------------------------------------
(***************************************************************************)
(* The device.                                                             *)
(***************************************************************************)
\* The transmitter takes the next byte; an empty FIFO is reported.
StartByte ==
    /\ shift = <<>> /\ thr # <<>>
    /\ shift' = <<Head(thr)>>
    /\ thr' = Tail(thr)
    /\ threPending' = (Tail(thr) = <<>>)
    /\ UNCHANGED <<writeBuff, ierTHRE, kernel, handler, accepted, sends, rx, dataReady, sent,
                   arrived, reading>>

FinishByte ==
    /\ shift # <<>>
    /\ shift' = <<>>
    /\ sent' = sent + 1
    /\ UNCHANGED <<writeBuff, ierTHRE, kernel, handler, accepted, sends, thr, threPending, rx,
                   dataReady, arrived, reading>>

ReceiveByte ==
    /\ arrived < MaxRx
    /\ arrived' = arrived + 1
    /\ \E b \in RxValues : rx' = Append(rx, b)
    /\ UNCHANGED <<writeBuff, ierTHRE, kernel, handler, accepted, sends, thr, shift, threPending,
                   dataReady, sent, reading>>

\* Received data is reported when it reaches the trigger level, or some time after
\* the last byte.
ReportData ==
    /\ rx # <<>> /\ ~dataReady
    /\ dataReady' = TRUE
    /\ UNCHANGED <<writeBuff, ierTHRE, kernel, handler, accepted, sends, thr, shift, threPending,
                   rx, sent, arrived, reading>>

TEMT == thr = <<>> /\ shift = <<>>

-----------------------------------------------------------------------------
(***************************************************************************)
(* Parts of the driver that run with interrupts disabled.                  *)
(***************************************************************************)
Least(m, n) == IF m < n THEN m ELSE n

\* processTHRE moves bytes to the device's FIFO, where those past FifoSize are
\* lost, and disables the THRE interrupt once the buffer is empty.  A write to the
\* FIFO withdraws the device's report that it is empty.
processTHRE(reported) ==
    LET n == Least(Len(writeBuff), InternalBufferSize)
        filled == thr \o SubSeq(writeBuff, 1, n)
        left == SubSeq(writeBuff, n + 1, Len(writeBuff))
    IN  /\ thr' = SubSeq(filled, 1, Least(Len(filled), FifoSize))
        /\ writeBuff' = left
        /\ ierTHRE' = (ierTHRE /\ left # <<>>)
        /\ threPending' = (reported /\ n = 0)
        /\ UNCHANGED <<shift, rx, dataReady, sent, arrived>>

\* Mutant: a full buffer is not noticed.
Fitting_Unchecked(n) == n

\* The bytes of a string of n that fit into the write buffer.
Fitting(n) == Least(n, BuffSize - Len(writeBuff))

\* Mutant: the THRE interrupt is not enabled.
PushBytes_NotArmed(n, shouldTriggerTHRE) ==
    /\ writeBuff' = writeBuff \o [i \in 1 .. Fitting(n) |-> accepted + i]
    /\ accepted' = accepted + Fitting(n)
    /\ UNCHANGED <<ierTHRE, device>>

\* The loop of pushBackWriteBuffer, which returns when the buffer is full, and the
\* write to IER after it, on which a device with an empty FIFO reports it again.
PushBytes(n, shouldTriggerTHRE) ==
    LET k == Fitting(n)
        trigger == k = n /\ shouldTriggerTHRE
    IN  /\ writeBuff' = writeBuff \o [i \in 1 .. k |-> accepted + i]
        /\ accepted' = accepted + k
        /\ ierTHRE' = (ierTHRE \/ trigger)
        /\ threPending' = (threPending \/ (trigger /\ ~ierTHRE /\ thr = <<>>))
        /\ UNCHANGED <<thr, shift, rx, dataReady, sent, arrived>>

\* Mutant: the state of the transmitter is not looked at.
Kick_Always ==
    \/ writeBuff # <<>> /\ processTHRE(threPending)
    \/ writeBuff = <<>> /\ UNCHANGED <<writeBuff, ierTHRE, device>>

\* The end of pushBackWriteBuffer: send by hand if the transmitter is idle.
Kick ==
    \/ TEMT /\ writeBuff # <<>> /\ processTHRE(threPending)
    \/ ~(TEMT /\ writeBuff # <<>>) /\ UNCHANGED <<writeBuff, ierTHRE, device>>

-----------------------------------------------------------------------------
(***************************************************************************)
(* Kernel code: pushBackWriteBuffer looks at the buffer before it disables *)
(* interrupts.                                                             *)
(***************************************************************************)
sendString(n) ==
    /\ kernel.at = "idle" /\ handler.at = "no"
    /\ sends < MaxSends
    /\ sends' = sends + 1
    /\ kernel' = IF n = 0 THEN Idle
                 ELSE [at |-> "lock", n |-> n, shouldTriggerTHRE |-> writeBuff = <<>>]
    /\ UNCHANGED <<writeBuff, ierTHRE, handler, accepted, device, reading>>

KernelPush ==
    /\ kernel.at = "lock" /\ handler.at = "no"
    /\ PushBytes(kernel.n, kernel.shouldTriggerTHRE)
    /\ kernel' = IF Fitting(kernel.n) = kernel.n THEN [at |-> "kick"] ELSE Idle
    /\ UNCHANGED <<handler, sends, reading>>

KernelKick ==
    /\ kernel.at = "kick"
    /\ Kick
    /\ kernel' = Idle
    /\ UNCHANGED <<handler, accepted, sends, reading>>

\* popFrontReadBuffer; no one else takes from the read buffer.
receiveByte ==
    /\ kernel.at = "idle" /\ handler.at = "no"
    /\ readBuff # <<>>
    /\ readBuff' = Tail(readBuff)
    /\ delivered' = Append(delivered, Head(readBuff))
    /\ UNCHANGED <<writeBuff, ierTHRE, kernel, handler, accepted, sends, device, rxTaken, counter>>

-----------------------------------------------------------------------------
(***************************************************************************)
(* The interrupt handler: it serves the device until it reports nothing.   *)
(***************************************************************************)
TransmitPending == ierTHRE /\ threPending

IrqEnter ==
    /\ InterruptsEnabled
    /\ dataReady \/ TransmitPending
    /\ handler' = Serving(<<>>)
    /\ UNCHANGED <<writeBuff, ierTHRE, kernel, accepted, sends, device, reading>>

\* processUpdatedLSR logs an error on the line; the log goes to the serial port too.
\* The error may be what the device interrupts for.
ServeLine(n) ==
    /\ InterruptsEnabled \/ handler.at = "serve"
    /\ sends < MaxSends
    /\ sends' = sends + 1
    /\ handler' = Serving(<<n>>)
    /\ UNCHANGED <<writeBuff, ierTHRE, kernel, accepted, device, reading>>

\* Mutant: the last byte of what was read is dropped.
UpToNul_DropsLast(bytes) == SubSeq(bytes, 1, Len(bytes) - 1)

\* strlen ends a string at its first NUL.
UpToNul(bytes) ==
    IF \E i \in DOMAIN bytes : bytes[i] = NUL
    THEN SubSeq(bytes, 1, SelectInSeq(bytes, LAMBDA b : b = NUL) - 1)
    ELSE bytes

\* Mutant: the device is read only when there is room for what it received.
processAvailableData_IfRoom(logLength) ==
    /\ Len(readBuff) + Len(rx) <= BuffSize
    /\ rx' = <<>>
    /\ dataReady' = FALSE
    /\ rxTaken' = rxTaken \o rx
    /\ readBuff' = readBuff \o rx
    /\ handler' = Serving(<<Len(rx)>>)
    /\ UNCHANGED <<writeBuff, ierTHRE, kernel, accepted, sends, thr, shift, threPending, sent,
                   arrived, delivered, counter>>

\* processAvailableData: what was read is stored for kernel code as far as there is
\* room, a message is logged every DiscardPeriod times there is none, and what was
\* read is sent back.
processAvailableData(logLength) ==
    LET n == Least(Len(rx), InternalBufferSize)
        temp == UpToNul(SubSeq(rx, 1, n))
        k == Least(Len(temp), BuffSize - Len(readBuff))
        full == k < Len(temp)
        message == IF full /\ (counter + 1) % DiscardPeriod = 0 THEN <<logLength>> ELSE <<>>
    IN  /\ rx' = SubSeq(rx, n + 1, Len(rx))
        /\ dataReady' = FALSE
        /\ rxTaken' = rxTaken \o SubSeq(rx, 1, n)
        /\ readBuff' = readBuff \o SubSeq(temp, 1, k)
        /\ counter' = IF full THEN counter + 1 ELSE counter
        /\ handler' = Serving(message \o (IF temp = <<>> THEN <<>> ELSE <<Len(temp)>>))
        /\ UNCHANGED <<writeBuff, ierTHRE, kernel, accepted, sends, thr, shift, threPending, sent,
                       arrived, delivered>>

ServeData ==
    /\ handler.at = "serve" /\ dataReady
    /\ \E n \in LogLengths : processAvailableData(n)

\* pushBackWriteBuffer in the handler, where nothing comes between the look at the
\* buffer and the loop.
HandlerPush ==
    LET n == Head(handler.todo)
    IN  /\ handler.at = "push"
        /\ PushBytes(n, writeBuff = <<>>)
        /\ handler' = IF Fitting(n) = n THEN [at |-> "kick", todo |-> Tail(handler.todo)]
                      ELSE Serving(Tail(handler.todo))
        /\ UNCHANGED <<kernel, sends, reading>>

HandlerKick ==
    /\ handler.at = "kick"
    /\ Kick
    /\ handler' = Serving(handler.todo)
    /\ UNCHANGED <<kernel, accepted, sends, reading>>

\* Received data comes before an empty FIFO; to read IIR withdraws the report.
ServeTHRE ==
    /\ handler.at = "serve"
    /\ ~dataReady /\ TransmitPending
    /\ processTHRE(FALSE)
    /\ UNCHANGED <<kernel, handler, accepted, sends, reading>>

IrqExit ==
    /\ handler.at = "serve"
    /\ ~dataReady /\ ~TransmitPending
    /\ handler' = NotRunning
    /\ UNCHANGED <<writeBuff, ierTHRE, kernel, accepted, sends, device, reading>>

Device == StartByte \/ FinishByte \/ ReportData
Handler == IrqEnter \/ ServeData \/ HandlerPush \/ HandlerKick \/ ServeTHRE \/ IrqExit
Kernel == KernelPush \/ KernelKick

Next ==
    \/ Device
    \/ ReceiveByte
    \/ Handler
    \/ \E n \in LogLengths : ServeLine(n)
    \/ \E n \in StringLengths : sendString(n)
    \/ Kernel
    \/ receiveByte

\* The device transmits what it holds and reports what it received, interrupts are
\* taken once they are enabled, and calls in progress are finished; that is all
\* that is assumed.
Spec == Init /\ [][Next]_vars /\ WF_vars(Device) /\ WF_vars(Handler) /\ WF_vars(Kernel)

-----------------------------------------------------------------------------
Numbered(s) == \A i \in DOMAIN s : s[i] = sent + i

\* Types of the buffers, of the device's registers and of the calls in progress.
TypeOK ==
    /\ writeBuff \in Seq(Nat) /\ Len(writeBuff) <= BuffSize
    /\ readBuff \in Seq(RxValues) /\ Len(readBuff) <= BuffSize
    /\ thr \in Seq(Nat) /\ Len(thr) <= FifoSize
    /\ Len(shift) <= 1
    /\ {ierTHRE, threPending, dataReady} \subseteq BOOLEAN
    /\ kernel.at \in {"idle", "lock", "kick"}
    /\ handler.at \in {"no", "serve", "push", "kick"}

\* Every byte put into the write buffer goes out once and in order, whoever put it
\* there and however the handler and pushBackWriteBuffer share processTHRE: what is
\* in the transmitter, in its FIFO and in the buffer are the next bytes, up to the
\* last one accepted.  (processTHRE writes up to 14 bytes without looking at the
\* FIFO: none is lost only if the FIFO is empty whenever it runs.)
TransmitInOrder ==
    LET inFlight == shift \o thr \o writeBuff
    IN  Numbered(inFlight) /\ sent + Len(inFlight) = accepted

\* Unless the read buffer was full, kernel code gets the bytes the device received,
\* all of them and in order (processAvailableData, popFrontReadBuffer).
ReadPathExact == counter = 0 => delivered \o readBuff = rxTaken

\* The handler's do-while loop ends once the line is quiet.
HandlerReturns == (handler.at # "no") ~> (handler.at = "no")

\* What kernel code saw of the write buffer is out of date when it takes the lock:
\* it was not empty then, and is now.
StaleCheck == kernel.at = "lock" /\ ~kernel.shouldTriggerTHRE /\ writeBuff = <<>>

\* The call will return for want of room, without telling the device.
CutShort == kernel.at = "lock" /\ kernel.shouldTriggerTHRE /\ Fitting(kernel.n) < kernel.n

\* Every byte put into the write buffer is eventually on the wire, unless kernel code
\* acted on a stale check or sent more than an idle driver's buffer holds.
OutputDrains == [](~StaleCheck /\ ~CutShort) => []<>(sent = accepted)

\* "we need to trigger the THRE again so that we actually send what we put in the
\* buffer" (pushBackWriteBuffer): every byte is eventually on the wire.
PutIsSent == []<>(sent = accepted)
=============================================================================
