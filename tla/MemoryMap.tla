------------------------------ MODULE MemoryMap ------------------------------
(***************************************************************************)
(* The boot-time memory map (Kernel/Memory/MemoryMap.c): MMap_init turns   *)
(* Limine's map into the kernel's.  Addresses and lengths count in pages.  *)
(* A Limine entry is [type, base, length]; processing marks entries of     *)
(* Limine's own map as removed, and earlyAllocate later reads that map.    *)
(***************************************************************************)
EXTENDS Integers, Sequences, FiniteSetsExt

CONSTANT MMAP_MAX_ENTRIES

KnownTypes == {"usable", "reserved", "acpi_reclaimable", "acpi_nvs", "bad",
               "bootloader_reclaimable", "kernel", "framebuffer"}

Allocatable == {"usable", "acpi_reclaimable", "bootloader_reclaimable"}

REMOVED == "removed"

-----------------------------------------------------------------------------
\* What the loops over a map add up, after each round.
Sums(f) ==
    LET sum[i \in 0 .. Len(f)] == IF i = 0 THEN 0 ELSE sum[i - 1] + f[i]
    IN  sum

Total(f) == Sums(f)[Len(f)]

\* Indices of the entries of the given types.
IndicesOf(lm, types) == {i \in DOMAIN lm : lm[i].type \in types}

\* What an entry adds to totalUsableMemory; ACPI memory is cut at the next entry.
UsablePages(lm, i) ==
    CASE lm[i].type = "usable" ->
           IF lm[i].base = 0 THEN lm[i].length - 1 ELSE lm[i].length
      [] lm[i].type = "acpi_reclaimable" ->
           IF i < Len(lm) /\ lm[i].base + lm[i].length >= lm[i + 1].base
             THEN lm[i + 1].base - lm[i].base
             ELSE lm[i].length
      [] lm[i].type = "bootloader_reclaimable" -> lm[i].length

parseLimineMemoryMap(lm) ==
    LET alloc == IndicesOf(lm, Allocatable)
        first == lm[Min(alloc)]
        last == lm[Max(alloc)]
        usable == [i \in DOMAIN lm |-> IF i \in alloc THEN UsablePages(lm, i) ELSE 0]
    IN  [totalUsableMemory |-> Total(usable),
         firstUsablePage   |-> IF alloc = {} THEN 0
                               ELSE IF first.type = "usable" /\ first.base = 0 THEN 1
                               ELSE first.base,
         lastUsablePage    |-> IF alloc = {} THEN 0 ELSE last.base + last.length - 1]

-----------------------------------------------------------------------------
Juxtaposed(cur, next) == cur.type = next.type /\ cur.base + cur.length = next.base

\* The loop marks the entry i + 1 removed when it continues the entry i, unless
\* that one was itself removed: its type is then REMOVED.
Marks(lm) ==
    LET removed[i \in DOMAIN lm] ==
          i > 1 /\ ~removed[i - 1] /\ Juxtaposed(lm[i - 1], lm[i])
    IN  removed

Removed(lm) == {i \in DOMAIN lm : Marks(lm)[i]}

SquashedMap(lm) ==
    [i \in DOMAIN lm |->
       IF i \in Removed(lm) THEN [lm[i] EXCEPT !.type = REMOVED]
       ELSE IF i + 1 \in Removed(lm) THEN [lm[i] EXCEPT !.length = @ + lm[i + 1].length]
       ELSE lm[i]]

\* Mutant: the entry made for the first physical page is not counted.
ProcessedCount_NoFirstPage(lm) == Len(lm) - Cardinality(Removed(lm))

\* What processLimineMemoryMap returns.
ProcessedCount(lm) ==
    LET splitsFirst == lm[1].type = "usable" /\ lm[1].base = 0 /\ lm[1].length > 1
    IN  (IF splitsFirst THEN Len(lm) + 1 ELSE Len(lm)) - Cardinality(Removed(lm))

-----------------------------------------------------------------------------
getMemoryType(t) == IF t = "bad" THEN "reserved" ELSE t

\* copyIntoMemoryMap moves the first physical page out of Limine's first entry.
FirstPageIsUsable(lm) == lm[1].type = "usable" /\ lm[1].base = 0

WithoutFirstPage(lm) ==
    [i \in DOMAIN lm |->
       IF i = 1 /\ FirstPageIsUsable(lm)
         THEN [lm[1] EXCEPT !.base = 1, !.length = @ - 1]
         ELSE lm[i]]

EntryOf(e) == [address |-> e.base, length |-> e.length, type |-> getMemoryType(e.type)]

\* The kernel's map after each round of copyIntoMemoryMap's loop.
Copies(lm) ==
    LET from == WithoutFirstPage(lm)
        copied[i \in 0 .. Len(lm)] ==
          CASE i = 0 /\ FirstPageIsUsable(lm) ->
                 << [address |-> 0, length |-> 1, type |-> "reserved"] >>
            [] i = 0 /\ ~FirstPageIsUsable(lm) -> << >>
            [] i > 0 /\ from[i].type = REMOVED -> copied[i - 1]
            [] OTHER -> Append(copied[i - 1], EntryOf(from[i]))
    IN  copied

copyIntoMemoryMap(lm) == Copies(lm)[Len(lm)]
=============================================================================
