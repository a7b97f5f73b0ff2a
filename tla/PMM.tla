--------------------------------- MODULE PMM ---------------------------------
(***************************************************************************)
(* The physical memory manager once initialized (Kernel/Memory/PMM.c):     *)
(* PMM_allocatePages and PMM_freePages over the bitmap.  Addresses count   *)
(* in pages.  The kernel runs these functions on the bootstrap processor,  *)
(* outside interrupt handlers, so that a call is one step.                 *)
(***************************************************************************)
EXTENDS Bitmap

CONSTANTS
    NBlocks,            \* m_bitmapAllocator.nBlocks
    Start,              \* m_bitmapAllocator.start, in pages
    AllocatableBlocks,  \* m_bitmapAllocator.allocatableBlocks
    Usable,             \* the managed pages that initBitmap leaves free
    MaxPages,           \* bound on n_pages
    MisusePages,        \* bound on n_pages of a bogus free
    AddrMod             \* page numbers of 64-bit addresses wrap at this value

ASSUME SizeAssumption ==
    /\ NBlocks \in Nat \ {0}
    /\ Start \in Nat \ {0}
    /\ Usable \subseteq 0 .. NBlocks - 1
    /\ MaxPages \in Nat
    /\ MisusePages \in Nat
    /\ AddrMod \in Nat
    /\ AddrMod > Start + NBlocks

\* initBitmap: allocatedBlocks starts at allocatableBlocks, less what it frees
ASSUME CountAssumption ==
    /\ AllocatableBlocks \in Nat
    /\ AllocatableBlocks < CounterMod
    /\ Cardinality(Usable) <= AllocatableBlocks

VARIABLES
    bitmap,             \* m_bitmapAllocator.bitmap
    allocatedBlocks,    \* m_bitmapAllocator.allocatedBlocks
    blocks,             \* what callers hold: [addr |-> address, n |-> length]
    ret                 \* what the last call returned

vars == <<bitmap, allocatedBlocks, blocks, ret>>

NULL == 0

\* The page numbers of a block, relative to the start of the managed memory.
Pages(b) == b.addr - Start .. b.addr - Start + b.n - 1

Init ==
    /\ bitmap = [i \in 0 .. bitmapLength(NBlocks) - 1 |->
                   {b \in FullWord : i * WordBits + b \notin Usable}]
    /\ allocatedBlocks = AllocatableBlocks - Cardinality(Usable)
    /\ blocks = {}
    /\ ret = [op |-> "none"]

\* Mutant: the start address is subtracted rather than added.
AllocateFound_SubtractsStart(n_pages) ==
    \E s \in allocate_firstFit(NBlocks, bitmap, n_pages) :
        /\ bitmap' = setBits(NBlocks, bitmap, s, s + n_pages)
        /\ allocatedBlocks' = CountAfterSet(NBlocks, allocatedBlocks, s, s + n_pages)
        /\ blocks' = blocks \cup {[addr |-> s - Start, n |-> n_pages]}
        /\ ret' = [op |-> "alloc", n |-> n_pages, addr |-> s - Start]

\* A call that finds a run of n_pages free pages.
AllocateFound(n_pages) ==
    \E s \in allocate_firstFit(NBlocks, bitmap, n_pages) :
        /\ bitmap' = setBits(NBlocks, bitmap, s, s + n_pages)
        /\ allocatedBlocks' = CountAfterSet(NBlocks, allocatedBlocks, s, s + n_pages)
        /\ blocks' = blocks \cup {[addr |-> Start + s, n |-> n_pages]}
        /\ ret' = [op |-> "alloc", n |-> n_pages, addr |-> Start + s]

\* A call that finds none.
AllocateNull(n_pages) ==
    /\ RunEnds(NBlocks, bitmap, n_pages) = {}
    /\ ret' = [op |-> "alloc", n |-> n_pages, addr |-> NULL]
    /\ UNCHANGED <<bitmap, allocatedBlocks, blocks>>

PMM_allocatePages(n_pages) == AllocateFound(n_pages) \/ AllocateNull(n_pages)

\* (addr - start) / PAGE_SIZE on unsigned 64-bit integers
StartBit(addr) == (addr - Start) % AddrMod

\* Mutant: the check on what is freed is dropped.
PMM_freePages_Unchecked(addr, n_pages) ==
    LET start_bit == StartBit(addr)
        end_bit == start_bit + n_pages
    IN  /\ bitmap' = clearBits(NBlocks, bitmap, start_bit, end_bit)
        /\ allocatedBlocks' =
             CountAfterClear(NBlocks, allocatedBlocks, start_bit, end_bit)
        /\ ret' = [op |-> "free", ok |-> TRUE]
        /\ blocks' = blocks \ {[addr |-> addr, n |-> n_pages]}

PMM_freePages(addr, n_pages) ==
    LET start_bit == StartBit(addr)
        end_bit == start_bit + n_pages
    IN  /\ IF isFullyAllocated(NBlocks, bitmap, start_bit, end_bit)
             THEN /\ bitmap' = clearBits(NBlocks, bitmap, start_bit, end_bit)
                  /\ allocatedBlocks' =
                       CountAfterClear(NBlocks, allocatedBlocks, start_bit, end_bit)
                  /\ ret' = [op |-> "free", ok |-> TRUE]
             ELSE /\ ret' = [op |-> "free", ok |-> FALSE]
                  /\ UNCHANGED <<bitmap, allocatedBlocks>>
        /\ blocks' = blocks \ {[addr |-> addr, n |-> n_pages]}

Next ==
    \/ \E n \in 0 .. MaxPages : PMM_allocatePages(n)
    \/ \E b \in blocks : PMM_freePages(b.addr, b.n)

Spec == Init /\ [][Next]_vars

-----------------------------------------------------------------------------
(***************************************************************************)
(* Callers that go wrong: a free of a range with a page that is not        *)
(* allocated, be it free already or outside the managed memory.            *)
(***************************************************************************)
Allocated(p) == p \in 0 .. NBlocks - 1 /\ IsSet(bitmap, p)

BogusFree(addr, n_pages) ==
    /\ n_pages = 0 \/ \E p \in addr .. addr + n_pages - 1 : ~Allocated(p - Start)
    /\ [addr |-> addr, n |-> n_pages] \notin blocks
    /\ PMM_freePages(addr, n_pages)

NextMisuse ==
    \/ Next
    \/ \E addr \in 0 .. Start + NBlocks, n \in 0 .. MisusePages : BogusFree(addr, n)

SpecMisuse == Init /\ [][NextMisuse]_vars

-----------------------------------------------------------------------------
Block == [addr : Nat, n : Nat]

Return ==
    [op : {"none"}] \cup [op : {"alloc"}, n : Nat, addr : Nat]
      \cup [op : {"free"}, ok : BOOLEAN]

\* The types of the allocator's state, with the lengths of a bitmap.
TypeOK ==
    /\ bitmap \in [0 .. bitmapLength(NBlocks) - 1 -> Word]
    /\ allocatedBlocks \in 0 .. CounterMod - 1
    /\ blocks \subseteq Block
    /\ ret \in Return

Held(p) == \E b \in blocks : p \in Pages(b)

\* The word-level masks of setBits and clearBits never touch a page of another
\* caller: a managed page is set in the bitmap exactly when it is reserved or
\* in some caller's hands.
OwnershipExact ==
    \A p \in 0 .. NBlocks - 1 : IsSet(bitmap, p) <=> p \notin Usable \/ Held(p)

\* PMM_allocatePages never hands out a page twice, nor one that is reserved or
\* outside the managed memory.
NoOverlap ==
    /\ \A b \in blocks : b.n > 0 /\ Pages(b) \subseteq Usable
    /\ \A b, c \in blocks : b # c => Pages(b) \cap Pages(c) = {}

\* allocatedBlocks, which setBits and clearBits update apart from the bitmap,
\* never drifts from it, and never wraps around.
AccountingExact ==
    allocatedBlocks = AllocatableBlocks - countFreeBlocks(NBlocks, bitmap)

\* "double free or bogus pointer detected": a free of a range that is not wholly
\* allocated is reported and leaves the allocator as it was.
BogusFreeDetected ==
    [][\A addr \in 0 .. Start + NBlocks, n \in 0 .. MisusePages :
         BogusFree(addr, n) =>
           /\ ret' = [op |-> "free", ok |-> FALSE]
           /\ UNCHANGED <<bitmap, allocatedBlocks, blocks>>]_vars

PA == INSTANCE PageAllocator
        WITH NBlocks <- NBlocks, Start <- Start, Usable <- Usable, MaxPages <- MaxPages,
             blocks <- blocks, ret <- ret

\* The bitmap allocator implements the promise of PMM.h: no page handed out
\* twice, NULL only without a free run, every correct free accepted, any other one
\* reported and ignored.
ImplementsPageAllocator == PA!Spec
=============================================================================
