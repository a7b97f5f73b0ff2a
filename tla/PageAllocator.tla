---------------------------- MODULE PageAllocator ----------------------------
(***************************************************************************)
(* What the physical memory manager promises its callers (PMM.h): a call   *)
(* of PMM_allocatePages hands out contiguous pages nobody else holds, or    *)
(* NULL when there is no such run of pages; PMM_freePages takes back what  *)
(* was handed out, and reports anything else without effect.  Which free   *)
(* run is chosen is left open.                                             *)
(***************************************************************************)
EXTENDS Integers

CONSTANTS
    NBlocks,    \* number of managed pages, numbered from 0
    Start,      \* address, in pages, of managed page 0; 0 is NULL
    Usable,     \* the managed pages that may be handed out
    MaxPages    \* largest request

VARIABLES
    blocks,     \* the blocks callers hold: [addr |-> address, n |-> length]
    ret         \* what the last call returned

vars == <<blocks, ret>>

NULL == 0

Pages(b) == b.addr - Start .. b.addr - Start + b.n - 1

\* Pages s .. s+n-1 are usable and in nobody's hands.
FreeRun(held, s, n) ==
    \A p \in s .. s + n - 1 : p \in Usable /\ \A b \in held : p \notin Pages(b)

Init == blocks = {} /\ ret = [op |-> "none"]

Allocate(n) ==
    \E s \in 0 .. NBlocks - n :
        /\ n > 0
        /\ FreeRun(blocks, s, n)
        /\ blocks' = blocks \cup {[addr |-> Start + s, n |-> n]}
        /\ ret' = [op |-> "alloc", n |-> n, addr |-> Start + s]

OutOfMemory(n) ==
    /\ n = 0 \/ \A s \in 0 .. NBlocks - n : ~FreeRun(blocks, s, n)
    /\ ret' = [op |-> "alloc", n |-> n, addr |-> NULL]
    /\ UNCHANGED blocks

Release(b) ==
    /\ blocks' = blocks \ {b}
    /\ ret' = [op |-> "free", ok |-> TRUE]

\* A free of what is not allocated.
Reject ==
    /\ ret' = [op |-> "free", ok |-> FALSE]
    /\ UNCHANGED blocks

Next ==
    \/ \E n \in 0 .. MaxPages : Allocate(n) \/ OutOfMemory(n)
    \/ \E b \in blocks : Release(b)
    \/ Reject

Spec == Init /\ [][Next]_vars
=============================================================================
