----------------------------- MODULE BoundedFifo -----------------------------
(***************************************************************************)
(* What Ringbuffer.h promises: a first-in first-out queue of Size values.  *)
(* Every call takes effect at once and its result tells the truth.         *)
(***************************************************************************)
EXTENDS Integers, Sequences

CONSTANTS Size, Value

VARIABLES queue, ret

vars == <<queue, ret>>

Init == queue = <<>> /\ ret = [op |-> "none"]

\* "@return Whether it could pop a value (ring buffer wasn't empty)"
Pop ==
    \/ /\ queue # <<>>
       /\ queue' = Tail(queue)
       /\ ret' = [op |-> "pop", ok |-> TRUE, value |-> Head(queue)]
    \/ /\ queue = <<>>
       /\ ret' = [op |-> "pop", ok |-> FALSE]
       /\ UNCHANGED queue

\* "discard if buffer is full"
PushBack(v) ==
    \/ /\ Len(queue) < Size
       /\ queue' = Append(queue, v)
       /\ ret' = [op |-> "push", ok |-> TRUE]
    \/ /\ Len(queue) = Size
       /\ ret' = [op |-> "push", ok |-> FALSE]
       /\ UNCHANGED queue

\* "overwrittes first value if buffer is full"
PushBackOverwrite(v) ==
    \/ /\ Len(queue) < Size
       /\ queue' = Append(queue, v)
       /\ ret' = [op |-> "overwrite", ok |-> TRUE]
    \/ /\ Len(queue) = Size
       /\ queue' = Append(Tail(queue), v)
       /\ ret' = [op |-> "overwrite", ok |-> FALSE]

Next == Pop \/ \E v \in Value : PushBack(v) \/ PushBackOverwrite(v)

Spec == Init /\ [][Next]_vars
=============================================================================
