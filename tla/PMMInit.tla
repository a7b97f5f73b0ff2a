------------------------------- MODULE PMMInit -------------------------------
(***************************************************************************)
(* The boot of the memory manager: kmain calls MMap_init, then PMM_init    *)
(* (Kernel/Memory/PMM.c), which sizes the bitmap, takes pages for it from  *)
(* Limine's map and frees the usable memory in it.  A failed assert, as    *)
(* well as a panic, stops the machine.                                     *)
(***************************************************************************)
EXTENDS MemoryMap, Bitmap

CONSTANTS
    LimineMaps,     \* the maps the bootloader may pass
    BitsPerPage     \* pages described by one page of bitmap (32768 in the code)

ASSUME BitsPerPageAssumption ==
    BitsPerPage \in Nat \ {0} /\ BitsPerPage \in {k * WordBits : k \in 1 .. BitsPerPage}

\* What the Limine protocol promises: entries sorted by address, and a usable one does
\* not overlap any other.  The counts of pages fit in a uint64_t.
LimineMap(lm) ==
    /\ lm \in Seq([type : STRING, base : Nat, length : Nat \ {0}]) /\ lm # << >>
    /\ \A i, j \in DOMAIN lm : i < j =>
         /\ lm[i].base <= lm[j].base
         /\ "usable" \in {lm[i].type, lm[j].type} => lm[i].base + lm[i].length <= lm[j].base
    /\ \A i \in DOMAIN lm : MMAP_MAX_ENTRIES * (lm[i].base + lm[i].length) < CounterMod

ASSUME LimineAssumption ==
    MMAP_MAX_ENTRIES \in Nat /\ \A lm \in LimineMaps : LimineMap(lm)

VARIABLES
    pc,             \* what kmain does next
    given,          \* the map the bootloader passed
    limine,         \* that map, as MMap_init modifies it in place
    mmap,           \* g_memoryMap
    allocator,      \* m_bitmapAllocator
    bitmapPages     \* the pages earlyAllocate took for the bitmap

vars == <<pc, given, limine, mmap, allocator, bitmapPages>>

Init ==
    /\ pc = "MMap_init"
    /\ given \in LimineMaps
    /\ limine = given
    /\ mmap = [size |-> 0, entries |-> <<>>]
    /\ allocator = [nBlocks |-> 0]
    /\ bitmapPages = {}

Panic(why) ==
    /\ pc' = why
    /\ UNCHANGED <<given, limine, mmap, allocator, bitmapPages>>

MMap_init ==
    LET parsed == parseLimineMemoryMap(limine)
        size == ProcessedCount(limine)
    IN  /\ pc = "MMap_init"
        /\ \/ /\ IndicesOf(limine, KnownTypes) # DOMAIN limine
              /\ Panic("panic_unsupported_type")
           \/ /\ IndicesOf(limine, KnownTypes) = DOMAIN limine
              /\ parsed.totalUsableMemory = 0
              /\ Panic("panic_no_usable_memory")
           \/ /\ IndicesOf(limine, KnownTypes) = DOMAIN limine
              /\ parsed.totalUsableMemory # 0
              /\ size >= MMAP_MAX_ENTRIES
              /\ Panic("panic_map_too_big")
           \/ /\ IndicesOf(limine, KnownTypes) = DOMAIN limine
              /\ parsed.totalUsableMemory # 0
              /\ size < MMAP_MAX_ENTRIES
              /\ mmap' = [lastUsablePage |-> parsed.lastUsablePage,
                          size           |-> size,
                          entries        |-> copyIntoMemoryMap(SquashedMap(limine))]
              /\ limine' = WithoutFirstPage(SquashedMap(limine))
              /\ pc' = "PMM_init"
              /\ UNCHANGED <<given, allocator, bitmapPages>>

-----------------------------------------------------------------------------
\* The entries the loops over g_memoryMap see.
Entries == SubSeq(mmap.entries, 1, mmap.size)

\* The regions getBitmapStart may return: none holds only the page 0.
StartCandidates ==
    {i \in DOMAIN Entries : /\ Entries[i].type = "usable"
                            /\ Entries[i].address # 0 \/ Entries[i].length > 1}

getBitmapStart ==
    LET e == Entries[Min(StartCandidates)]
    IN  IF e.address # 0 THEN e.address ELSE e.address + 1

\* Of each entry, the pages that may become free, and those that do at boot.
AllocatableLengths ==
    [i \in DOMAIN Entries |->
       IF Entries[i].type \in Allocatable
         THEN Entries[i].length - (IF Entries[i].address = 0 THEN 1 ELSE 0) ELSE 0]

UsableLengths ==
    [i \in DOMAIN Entries |-> IF Entries[i].type = "usable" THEN Entries[i].length ELSE 0]

getAllocatableBlocks == Total(AllocatableLengths)

\* Limine's entries that earlyAllocate may use for n_pages pages.
EarlyCandidates(n_pages) ==
    {i \in DOMAIN limine : /\ limine[i].type = "usable"
                           /\ limine[i].length >= n_pages
                           /\ limine[i].base = 0 => limine[i].length > n_pages}

earlyAllocate(n_pages) ==
    LET e == limine[Min(EarlyCandidates(n_pages))]
    IN  IF e.base = 0 THEN e.base + 1 ELSE e.base

\* Mutant: the last, partly used page of the bitmap is forgotten.
getSizeAsPages_RoundedDown(nBlocks) == nBlocks \div BitsPerPage

getSizeAsPages(nBlocks) == (nBlocks + BitsPerPage - 1) \div BitsPerPage

\* The allocator after each round of initBitmap's loop, which frees the usable
\* entries in map order.
Clearings(nBlocks, start, allocatableBlocks) ==
    LET full == [nBlocks           |-> nBlocks,
                 start             |-> start,
                 allocatableBlocks |-> allocatableBlocks,
                 allocatedBlocks   |-> allocatableBlocks,
                 bitmap            |-> [i \in 0 .. bitmapLength(nBlocks) - 1 |-> FullWord]]
        freed(a, start_bit, end_bit) ==
          [a EXCEPT !.bitmap = clearBits(nBlocks, @, start_bit, end_bit),
                    !.allocatedBlocks = CountAfterClear(nBlocks, @, start_bit, end_bit)]
        after[i \in 0 .. Len(Entries)] ==
          IF i = 0 THEN full
            ELSE IF Entries[i].type # "usable" THEN after[i - 1]
            ELSE freed(after[i - 1], Entries[i].address - start,
                       Entries[i].address - start + Entries[i].length)
    IN  after

ClearedAllocator(nBlocks, start, allocatableBlocks) ==
    Clearings(nBlocks, start, allocatableBlocks)[Len(Entries)]

\* The asserts of initBitmap on the cleared bitmap, and on the final one.
ClearedAsserts(a) ==
    LET freeBlocks == countFreeBlocks(a.nBlocks, a.bitmap)
        freeMemory == Total(UsableLengths)
    IN  /\ a.allocatedBlocks = (a.allocatableBlocks - freeBlocks) % CounterMod
        /\ freeMemory = freeBlocks

FinalAssert(a, final, n_pages) ==
    (countFreeBlocks(a.nBlocks, a.bitmap) - n_pages) % CounterMod
        = countFreeBlocks(final.nBlocks, final.bitmap)

\* Mutant: the pages of the bitmap stay free.
TakenAllocator_NotTaken(a, from, n_pages) == a

TakenAllocator(a, from, n_pages) ==
    [a EXCEPT !.bitmap = setBits(a.nBlocks, @, from, from + n_pages),
              !.allocatedBlocks = CountAfterSet(a.nBlocks, @, from, from + n_pages)]

InitializedFrom(start) ==
    LET nBlocks == mmap.lastUsablePage - start + 1
        n_pages == getSizeAsPages(nBlocks)
    IN  \/ /\ EarlyCandidates(n_pages) = {}
           /\ Panic("panic_no_room_for_the_bitmap")
        \/ /\ EarlyCandidates(n_pages) # {}
           /\ LET addr == earlyAllocate(n_pages)
                  cleared == ClearedAllocator(nBlocks, start, getAllocatableBlocks)
                  final == TakenAllocator(cleared, addr - start, n_pages)
              IN  /\ allocator' = final
                  /\ bitmapPages' = addr .. addr + n_pages - 1
                  /\ pc' = IF ClearedAsserts(cleared) /\ FinalAssert(cleared, final, n_pages)
                             THEN "ready" ELSE "assert_failed"
                  /\ UNCHANGED <<given, limine, mmap>>

PMM_init ==
    /\ pc = "PMM_init"
    /\ \/ StartCandidates = {} /\ Panic("panic_nothing_to_manage")
       \/ StartCandidates # {} /\ InitializedFrom(getBitmapStart)

Next == MMap_init \/ PMM_init

Spec == Init /\ [][Next]_vars

-----------------------------------------------------------------------------
PagesOfType(lm, types) ==
    UNION {lm[i].base .. lm[i].base + lm[i].length - 1 : i \in IndicesOf(lm, types)}

\* The pages that may ever be handed out: usable, and not the page at address 0.
UsableMemory == PagesOfType(given, {"usable"}) \ {0}

\* No map makes the asserts of initBitmap fail.
AssertsHold == pc # "assert_failed"

\* Once booted, the free pages are exactly the usable ones that do not hold the
\* bitmap, and the counter agrees: the state PMM starts from.
PagesHandedOver ==
    pc = "ready" =>
      LET free == FreeBits(allocator.nBlocks, allocator.bitmap)
      IN  /\ {allocator.start + p : p \in free} = UsableMemory \ bitmapPages
          /\ allocator.allocatedBlocks = allocator.allocatableBlocks - Cardinality(free)

\* The bitmap is stored in usable memory, never at address 0, and the words that
\* initBitmap and the scans touch all lie in the pages taken for it.
BitmapStorageSafe ==
    pc = "ready" =>
      /\ bitmapPages \subseteq UsableMemory
      /\ bitmapLength(allocator.nBlocks) * WordBits <= Cardinality(bitmapPages) * BitsPerPage

\* Merging and splitting entries loses and invents no page of any type, the
\* page 0 apart, which is reserved.
PagesConserved ==
    pc \in {"PMM_init", "ready"} =>
      \A type \in KnownTypes \ {"bad", "reserved"} :
        UNION {e.address .. e.address + e.length - 1 :
                 e \in {Entries[i] : i \in {j \in DOMAIN Entries : Entries[j].type = type}}}
          = PagesOfType(given, {type}) \ (IF type = "usable" THEN {0} ELSE {})

=============================================================================
