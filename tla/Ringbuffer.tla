----------------------------- MODULE Ringbuffer -----------------------------
(***************************************************************************)
(* Stdlib/mugOS/Ringbuffer.c, used by kernel code and by an interrupt      *)
(* handler.  lock() disables interrupts, so that the locked part of a call *)
(* is one step; Ringbuffer_pop and Ringbuffer_pushBack look at             *)
(* inReadBuffer before they lock, and an interrupt can come in between.    *)
(* In the handler, or under a caller that disabled interrupts, the whole   *)
(* call is one step.                                                       *)
(***************************************************************************)
EXTENDS Integers, Sequences

CONSTANTS
    Size,       \* this->size
    Value,      \* the values pushed
    SizeMod,    \* size_t is unsigned: counters wrap at this value
    Usages      \* who calls what (see SafeUsage)

ASSUME SizeAssumption ==
    /\ Size \in Nat \ {0}
    /\ SizeMod \in Nat
    /\ SizeMod > 2 * Size
    /\ Value # {}

VARIABLES
    usage,              \* the calls this buffer's users make
    buffer,             \* this->buffer
    readBeginIndex,     \* this->readBeginIndex
    inReadBuffer,       \* this->inReadBuffer
    pc,                 \* where the kernel code is: idle, or between check and lock
    arg,                \* the value the kernel code pushes
    ret                 \* what the last call that returned gave

vars == <<usage, buffer, readBeginIndex, inReadBuffer, pc, arg, ret>>

ring == <<buffer, readBeginIndex, inReadBuffer>>

Ops == {"pop", "push", "overwrite"}

\* kernel: the calls made with interrupts enabled; protected: those the kernel
\* makes with interrupts disabled by the caller; irq: those of the handler.
Usage == [kernel : SUBSET Ops, protected : SUBSET Ops, irq : SUBSET Ops]

\* The check before the lock stays true if no handler can undo it.
SafeUsage(u) ==
    /\ u \in Usage
    /\ "pop" \in u.kernel => "pop" \notin u.irq
    /\ "push" \in u.kernel => u.irq \cap {"push", "overwrite"} = {}

Init ==
    /\ usage \in Usages
    /\ buffer \in [0 .. Size - 1 -> Value]
    /\ readBeginIndex = 0
    /\ inReadBuffer = 0
    /\ pc = "idle"
    /\ arg \in Value
    /\ ret = [op |-> "none"]

\* Mutant: one value too many.
isBufferFull_OffByOne == inReadBuffer > Size

isBufferFull == inReadBuffer >= Size

WriteIndex == ((readBeginIndex + inReadBuffer) % SizeMod) % Size

\* Mutant: the index of the oldest value is not wrapped to the size of the buffer.
PopLocked_NoWrap ==
    /\ ret' = [op |-> "pop", ok |-> TRUE, value |-> buffer[readBeginIndex]]
    /\ inReadBuffer' = (inReadBuffer - 1) % SizeMod
    /\ readBeginIndex' = (readBeginIndex + 1) % SizeMod
    /\ UNCHANGED buffer

\* The locked parts.
PopLocked ==
    /\ ret' = [op |-> "pop", ok |-> TRUE, value |-> buffer[readBeginIndex]]
    /\ inReadBuffer' = (inReadBuffer - 1) % SizeMod
    /\ readBeginIndex' = (readBeginIndex + 1) % Size
    /\ UNCHANGED buffer

\* Mutant: the write index does not start from the oldest value.
PushLocked_FromZero(op, v) ==
    /\ buffer' = [buffer EXCEPT ![inReadBuffer % Size] = v]
    /\ inReadBuffer' = (inReadBuffer + 1) % SizeMod
    /\ ret' = [op |-> op, ok |-> TRUE]
    /\ UNCHANGED readBeginIndex

PushLocked(op, v) ==
    /\ buffer' = [buffer EXCEPT ![WriteIndex] = v]
    /\ inReadBuffer' = (inReadBuffer + 1) % SizeMod
    /\ ret' = [op |-> op, ok |-> TRUE]
    /\ UNCHANGED readBeginIndex

OverwriteLocked(v) ==
    /\ buffer' = [buffer EXCEPT ![readBeginIndex] = v]
    /\ readBeginIndex' = (readBeginIndex + 1) % Size
    /\ ret' = [op |-> "overwrite", ok |-> FALSE]
    /\ UNCHANGED inReadBuffer

Refuse(op) == ret' = [op |-> op, ok |-> FALSE] /\ UNCHANGED ring

\* Whole calls, when no interrupt can come in between.
Ringbuffer_pop ==
    \/ inReadBuffer = 0 /\ Refuse("pop")
    \/ inReadBuffer # 0 /\ PopLocked

Ringbuffer_pushBack(v) ==
    \/ isBufferFull /\ Refuse("push")
    \/ ~isBufferFull /\ PushLocked("push", v)

Ringbuffer_pushBackOverwrite(v) ==
    \/ isBufferFull /\ OverwriteLocked(v)
    \/ ~isBufferFull /\ PushLocked("overwrite", v)

\* Any of the calls of ops, as one step.
AtomicCall(ops) ==
    \/ "pop" \in ops /\ Ringbuffer_pop
    \/ "push" \in ops /\ \E v \in Value : Ringbuffer_pushBack(v)
    \/ "overwrite" \in ops /\ \E v \in Value : Ringbuffer_pushBackOverwrite(v)

-----------------------------------------------------------------------------
\* The handler may run whenever the kernel code is not in a locked part.
Irq == AtomicCall(usage.irq) /\ UNCHANGED <<usage, pc, arg>>

Protected ==
    /\ pc = "idle"
    /\ AtomicCall(usage.protected)
    /\ UNCHANGED <<usage, pc, arg>>

\* Kernel code with interrupts enabled: the check, then the locked part.
PopCheck ==
    /\ pc = "idle"
    /\ "pop" \in usage.kernel
    /\ \/ inReadBuffer = 0 /\ Refuse("pop") /\ UNCHANGED pc
       \/ inReadBuffer # 0 /\ pc' = "pop" /\ UNCHANGED <<buffer, readBeginIndex, inReadBuffer, ret>>
    /\ UNCHANGED <<usage, arg>>

PopFinish ==
    /\ pc = "pop"
    /\ PopLocked
    /\ pc' = "idle"
    /\ UNCHANGED <<usage, arg>>

PushCheck(v) ==
    /\ pc = "idle"
    /\ "push" \in usage.kernel
    /\ \/ isBufferFull /\ Refuse("push") /\ UNCHANGED <<pc, arg>>
       \/ /\ ~isBufferFull
          /\ pc' = "push"
          /\ arg' = v
          /\ UNCHANGED <<buffer, readBeginIndex, inReadBuffer, ret>>
    /\ UNCHANGED usage

PushFinish ==
    /\ pc = "push"
    /\ PushLocked("push", arg)
    /\ pc' = "idle"
    /\ UNCHANGED <<usage, arg>>

\* pushBackOverwrite checks under the lock.
Overwrite(v) ==
    /\ pc = "idle"
    /\ "overwrite" \in usage.kernel
    /\ Ringbuffer_pushBackOverwrite(v)
    /\ UNCHANGED <<usage, pc, arg>>

Next ==
    \/ Irq
    \/ Protected
    \/ PopCheck
    \/ PopFinish
    \/ PushFinish
    \/ \E v \in Value : PushCheck(v) \/ Overwrite(v)

Spec == Init /\ [][Next]_vars

-----------------------------------------------------------------------------
Return ==
    [op : {"none"}] \cup [op : Ops, ok : BOOLEAN]
      \cup [op : {"pop"}, ok : {TRUE}, value : Value]

\* The types of the ring buffer's fields and of the interrupted call.
TypeOK ==
    /\ usage \in Usage
    /\ buffer \in [0 .. Size - 1 -> Value]
    /\ readBeginIndex \in 0 .. Size - 1
    /\ inReadBuffer \in 0 .. SizeMod - 1
    /\ pc \in {"idle", "pop", "push"}
    /\ arg \in Value
    /\ ret \in Return

\* The number of values is within the buffer, and what the kernel code saw
\* before it locked is still true when it does.
CheckStillTrue ==
    /\ inReadBuffer <= Size
    /\ pc = "pop" => inReadBuffer > 0
    /\ pc = "push" => inReadBuffer < Size

\* The n values of a buffer from an index on, and those in this one, oldest first.
Contents(buf, from, n) == [i \in 1 .. n |-> buf[(from + i - 1) % Size]]

queue == Contents(buffer, readBeginIndex, inReadBuffer)

Fifo == INSTANCE BoundedFifo WITH Size <- Size, Value <- Value, queue <- queue, ret <- ret

\* Interrupts or not, the ring buffer is the queue Ringbuffer.h describes: no value
\* lost, doubled or out of order, and a true result for every call.
ImplementsFifo == Fifo!Spec
=============================================================================
