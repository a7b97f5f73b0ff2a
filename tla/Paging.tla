-------------------------------- MODULE Paging --------------------------------
(***************************************************************************)
(* Page tables of four levels (Arch/x86_64/Memory/Paging.c) under the      *)
(* virtual memory manager (Memory/VMM.c).  Addresses are page numbers.  A  *)
(* page of level 0, 1 or 2 is one of 4 KB, 2 MB or 1 GB: an entry of a     *)
(* page table, a page directory or a page directory pointer table.         *)
(***************************************************************************)
EXTENDS Integers, Sequences, FiniteSets, FiniteSetsExt, TLC

CONSTANTS
    TABLE_SIZE,
    Frames,             \* the pages the PMM has for tables
    has1GBPages,
    Sections,           \* sequence of mappings of the kernel, then of the memory map
    hsdmOffset, hsdmSize,
    MAX_PREMAPPINGS,
    Requests,           \* the mappings that clients ask of VMM_map
    HeapRequests,       \* those they ask of VMM_mapInHeap: a set of [phys, n]
    MaxMaps             \* bound on the mappings they have

ASSUME PagingAssumption ==
    /\ TABLE_SIZE \in Nat /\ TABLE_SIZE >= 4
    /\ Frames \subseteq Nat \ {0}
    /\ has1GBPages \in BOOLEAN

VARIABLES
    p,          \* the paging state
    maps,       \* the mappings that clients have
    premaps,    \* m_premappings
    up          \* m_pagingInitialized

vars == <<p, maps, premaps, up>>

Mapping(phys, virt, n, flags) == [phys |-> phys, virt |-> virt, n |-> n, flags |-> flags]

\* Pages behind an entry of a table of this level; 3 is the PML4.
Span(level) == TABLE_SIZE ^ level

Index(virt, level) == (virt \div Span(level)) % TABLE_SIZE

Clear == [present |-> FALSE, large |-> FALSE, addr |-> 0, flags |-> {}]

EmptyTable == [i \in 0 .. TABLE_SIZE - 1 |-> Clear]

\* m_pml4 is the table of number 0.
PML4 == 0

-----------------------------------------------------------------------------
(***************************************************************************)
(* What the processor makes of the tables.                                 *)
(***************************************************************************)
\* The entry that maps a page and its level, or one that is not present.
Lookup(q, virt) ==
    LET at[l \in 0 .. 3] ==
          IF l = 3 THEN [level |-> 3, entry |-> q.tables[PML4][Index(virt, 3)]]
            ELSE LET above == at[l + 1]
                 IN  IF ~above.entry.present \/ above.entry.large THEN above
                       ELSE [level |-> l, entry |-> q.tables[above.entry.addr][Index(virt, l)]]
    IN  at[0]

Mapped(q, virt) == Lookup(q, virt).entry.present

Translate(q, virt) ==
    LET r == Lookup(q, virt) IN r.entry.addr + (virt % Span(r.level))

-----------------------------------------------------------------------------
(***************************************************************************)
(* Tables: the three get functions, which differ in their level.           *)
(***************************************************************************)
\* The last four pages: the table that maps them, and the windows to the tables
\* of level 2, 1 and 0.
Top == TABLE_SIZE ^ 4

dynamicTablesHost == Top - 4

Window(level) == Top - 1 - level

\* What is done with the result of a call.
With(result, do(_)) == CHOOSE r \in {do(v) : v \in {result}} : TRUE

\* The window shows the table; the entry of the window is in the host table.
mapDynamic(q, level, frame) ==
    IF ~q.enabled THEN [q EXCEPT !.view[level] = frame]
      ELSE With([q EXCEPT !.tables[Translate(q, dynamicTablesHost)][Index(Window(level), 0)].addr
                            = frame],
                LAMBDA r : [r EXCEPT !.view[level] = Translate(r, Window(level))])

\* Below entry i of table t, the table of this level: shown, or made if it may be.
\* An entry of a large page would be taken for one of a table (wild).
getTable(q, t, i, level, alloc) ==
    LET entry == q.tables[t][i]
        frame == Min(q.free)
        made == [q EXCEPT !.free = @ \ {frame}, !.tables = [f \in DOMAIN @ \cup {frame} |->
                   IF f = frame THEN EmptyTable ELSE @[f]]]
        linked == [made EXCEPT !.tables[t][i] =
                     [present |-> TRUE, large |-> FALSE, addr |-> frame, flags |-> {"W", "X", "U"}]]
    IN  IF q.panic \/ q.wild THEN q
          ELSE IF entry.present /\ entry.large THEN [q EXCEPT !.wild = TRUE]
          ELSE IF entry.present THEN mapDynamic(q, level, entry.addr)
          ELSE IF ~alloc \/ q.free = {} THEN [q EXCEPT !.panic = TRUE]
          ELSE mapDynamic(linked, level, frame)

Stopped(q) == q.panic \/ q.wild \/ q.hang

\* The tables on the way to a page, down to the one of this level.
Descend(q, virt, level, alloc) ==
    LET down[l \in level .. 2] ==
          IF l = 2 THEN getTable(q, PML4, Index(virt, 3), 2, alloc)
            ELSE With(down[l + 1], LAMBDA r :
                   IF Stopped(r) THEN r
                     ELSE getTable(r, r.view[l + 1], Index(virt, l + 1), l, alloc))
    IN  down[level]

-----------------------------------------------------------------------------
(***************************************************************************)
(* Paging_map: as many pages of one size as the table in view has room for *)
(* in each round of the loop.                                              *)
(***************************************************************************)
\* Mutant: the address does not advance from one entry to the next.
setPages_Same(q, level, i, n, phys, flags) ==
    [q EXCEPT !.tables[q.view[level]] = [j \in DOMAIN @ |->
       IF j \in i .. i + n - 1
         THEN [present |-> TRUE, large |-> level > 0, flags |-> flags, addr |-> phys] ELSE @[j]]]

setPages(q, level, i, n, phys, flags) ==
    LET t == q.view[level]
        set == [j \in 0 .. TABLE_SIZE - 1 |->
                  IF j \in i .. i + n - 1
                    THEN [present |-> TRUE, large |-> level > 0, flags |-> flags,
                          addr |-> phys + (j - i) * Span(level)]
                    ELSE q.tables[t][j]]
    IN  IF \E j \in i .. i + n - 1 : q.tables[t][j].present THEN [q EXCEPT !.panic = TRUE]
          ELSE [q EXCEPT !.tables[t] = set]

\* The size of the next pages: the physical address is aligned and enough is left.
LevelFor(phys, left) ==
    Max({l \in IF has1GBPages THEN 0 .. 2 ELSE 0 .. 1 :
           l = 0 \/ (phys % Span(l) = 0 /\ left >= Span(l))})

\* The virtual address is not looked at: if it is not aligned as the physical one is,
\* the page is not where it was asked for (crooked).
MapRound(s, flags) ==
    LET mapped(q, level, n) ==
          [q |-> [setPages(q, level, Index(s.virt, level), n, s.phys, flags)
                  EXCEPT !.crooked = @ \/ s.virt % Span(level) # 0],
           phys |-> s.phys + n * Span(level),
           virt |-> s.virt + n * Span(level),
           left |-> s.left - n * Span(level)]
        mappable(level) == Min({TABLE_SIZE - Index(s.virt, level), s.left \div Span(level)})
    IN  With(LevelFor(s.phys, s.left), LAMBDA level :
          With(Descend(s.q, s.virt, level, TRUE), LAMBDA q :
            IF Stopped(q) THEN [s EXCEPT !.q = q] ELSE mapped(q, level, mappable(level))))

RECURSIVE MapRounds(_, _)
MapRounds(s, flags) ==
    IF Stopped(s.q) \/ s.left = 0 THEN s.q ELSE MapRounds(MapRound(s, flags), flags)

Paging_map(q, m) == MapRounds([q |-> q, phys |-> m.phys, virt |-> m.virt, left |-> m.n], m.flags)

-----------------------------------------------------------------------------
(***************************************************************************)
(* Paging_unmap.                                                           *)
(***************************************************************************)
\* Only the present bit changes; of the others the code reads the size again.
Cleared(entry) == [Clear EXCEPT !.large = entry.large]

tableIsEmpty(q, t) == \A i \in 0 .. TABLE_SIZE - 1 : ~q.tables[t][i].present

\* The entry and the table it leads to.
freeTable(q, t, i) ==
    LET frame == q.tables[t][i].addr
        r == [q EXCEPT !.tables[t][i] = Cleared(@), !.free = @ \cup {frame}]
    IN  [r EXCEPT !.tables = [f \in DOMAIN @ \ {frame} |-> @[f]]]

\* Mutant: only the table that has become empty is freed, not those above it.
freeTables_Lowest(q, virt, level) ==
    LET above == IF level = 2 THEN PML4 ELSE q.view[level + 1]
    IN  IF tableIsEmpty(q, q.view[level]) THEN freeTable(q, above, Index(virt, level + 1)) ELSE q

\* From the table of this level upward, as long as they are empty.
freeTables(q, virt, level) ==
    LET at[l \in level .. 3] ==
          IF l = level THEN q
            ELSE With(at[l - 1], LAMBDA r :
                   IF tableIsEmpty(r, q.view[l - 1])
                     THEN freeTable(r, IF l = 3 THEN PML4 ELSE q.view[l], Index(virt, l)) ELSE r)
    IN  at[3]

removePages(q, level, i, n) ==
    LET t == q.view[level]
    IN  IF \E j \in i .. i + n - 1 : ~q.tables[t][j].present THEN [q EXCEPT !.panic = TRUE]
          ELSE [q EXCEPT !.tables[t] = [j \in DOMAIN @ |->
                  IF j \in i .. i + n - 1 THEN Cleared(@[j]) ELSE @[j]]]

\* The size of the next pages is that of the first entry of their table, in use or not.
UnmapLevel(q, virt) ==
    LET large(r, level) == Stopped(r) \/ r.tables[r.view[level]][0].large
    IN  CASE large(Descend(q, virt, 2, FALSE), 2) -> 2
          [] ~large(Descend(q, virt, 2, FALSE), 2) /\ large(Descend(q, virt, 1, FALSE), 1) -> 1
          [] OTHER -> 0

\* A round that removes nothing is repeated for ever.
UnmapRound(s) ==
    LET misread(level) == Mapped(s.q, s.virt) /\ Lookup(s.q, s.virt).level # level
        removable(level) == Min({TABLE_SIZE - Index(s.virt, level), s.left \div Span(level)})
        seen(r, level) == [s EXCEPT !.q = [r EXCEPT !.misread = @ \/ misread(level)]]
        after(r, level, n) ==
          IF r.panic THEN seen(r, level)
            ELSE [seen(freeTables(r, s.virt, level), level)
                  EXCEPT !.virt = @ + n * Span(level), !.left = @ - n * Span(level)]
        from(q, level, n) ==
          IF n = 0 THEN seen([q EXCEPT !.hang = TRUE], level)
            ELSE after(removePages(q, level, Index(s.virt, level), n), level, n)
    IN  With(UnmapLevel(s.q, s.virt), LAMBDA level :
          With(Descend(s.q, s.virt, level, FALSE), LAMBDA q :
            IF Stopped(q) THEN seen(q, level) ELSE from(q, level, removable(level))))

RECURSIVE UnmapRounds(_)
UnmapRounds(s) == IF Stopped(s.q) \/ s.left = 0 THEN s.q ELSE UnmapRounds(UnmapRound(s))

Paging_unmap(q, virt, n) == UnmapRounds([q |-> q, virt |-> virt, left |-> n])

-----------------------------------------------------------------------------
(***************************************************************************)
(* The virtual memory manager and its clients.                             *)
(***************************************************************************)
MapAll(q, seq) ==
    LET at[k \in 0 .. Len(seq)] == IF k = 0 THEN q ELSE Paging_map(at[k - 1], seq[k])
    IN  at[Len(seq)]

\* What the windows map at first, of no use.
blank == Top * TABLE_SIZE - 1

BlankWindows == [k \in 1 .. 3 |-> Mapping(blank, Window(3 - k), 1, {"W"})]

\* Mutant: one level too few is followed.
mapDynamicTables_Short(q) ==
    LET pdpt(r) == r.tables[PML4][Index(Window(2), 3)].addr
        pd(r) == r.tables[pdpt(r)][Index(Window(2), 2)].addr
    IN  With(MapAll(q, BlankWindows), LAMBDA r :
          Paging_map(r, Mapping(pd(r), dynamicTablesHost, 1, {"W"})))

\* The windows map nothing of use yet; the page before them maps their own table.
mapDynamicTables(q) ==
    LET pdpt(r) == r.tables[PML4][Index(Window(2), 3)].addr
        pd(r) == r.tables[pdpt(r)][Index(Window(2), 2)].addr
        pt(r) == r.tables[pd(r)][Index(Window(2), 1)].addr
    IN  With(MapAll(q, BlankWindows), LAMBDA r :
          Paging_map(r, Mapping(pt(r), dynamicTablesHost, 1, {"W"})))

Kernel == 3

\* The kernel's three sections, the windows, then the regions of the memory map.
Paging_initTables(q) ==
    MapAll(mapDynamicTables(MapAll(q, SubSeq(Sections, 1, Kernel))),
           SubSeq(Sections, Kernel + 1, Len(Sections)))

NoView == [l \in 0 .. 2 |-> PML4]

\* What a call has in view is not looked at after it; nor are the windows before they
\* are set again.
Done(q) ==
    LET host == Translate(q, dynamicTablesHost)
    IN  IF ~q.enabled \/ Stopped(q) THEN [q EXCEPT !.view = NoView]
          ELSE [q EXCEPT !.view = NoView,
                         !.tables[host] = [i \in DOMAIN @ |->
                           IF i = 0 THEN @[i] ELSE [@[i] EXCEPT !.addr = blank]]]

Paging_enable(q) == [q EXCEPT !.enabled = TRUE]

VMM_toPhysical(virt) == virt % hsdmSize

VMM_toHeap(phys) == phys + hsdmOffset

Pages(m) == m.virt .. m.virt + m.n - 1

Permanent == {Sections[k] : k \in DOMAIN Sections}

Windows == dynamicTablesHost .. Top - 1

InUse == UNION {Pages(m) : m \in maps \cup {premaps[k] : k \in DOMAIN premaps} \cup Permanent}
           \cup Windows

Running == ~Stopped(p) /\ ~p.crooked /\ ~p.misread

Init ==
    /\ p = [tables |-> PML4 :> EmptyTable, free |-> Frames, view |-> NoView, enabled |-> FALSE,
            panic |-> FALSE, wild |-> FALSE, hang |-> FALSE, crooked |-> FALSE, misread |-> FALSE]
    /\ maps = {} /\ premaps = << >> /\ up = FALSE

VMM_premap(m) ==
    /\ ~up /\ Pages(m) \cap InUse = {}
    /\ IF Len(premaps) >= MAX_PREMAPPINGS
         THEN p' = [p EXCEPT !.panic = TRUE] /\ UNCHANGED premaps
         ELSE premaps' = Append(premaps, m) /\ UNCHANGED p
    /\ UNCHANGED <<maps, up>>

VMM_init ==
    /\ ~up
    /\ p' = Paging_enable(Done(MapAll(Paging_initTables(p), premaps)))
    /\ up' = TRUE
    /\ maps' = {premaps[k] : k \in DOMAIN premaps} /\ premaps' = << >>

\* Clients map what is not mapped.
VMM_map(m) ==
    /\ up /\ Cardinality(maps) < MaxMaps /\ Pages(m) \cap InUse = {}
    /\ p' = Done(Paging_map(p, m))
    /\ maps' = maps \cup {m}
    /\ UNCHANGED <<premaps, up>>

VMM_mapInHeap(r) ==
    /\ up
    /\ IF r.phys >= hsdmSize THEN p' = [p EXCEPT !.panic = TRUE] /\ UNCHANGED <<maps, premaps, up>>
         ELSE VMM_map(Mapping(r.phys, VMM_toHeap(r.phys), r.n, {"W"}))

\* They unmap what they mapped, as they mapped it.
VMM_unmap(m) ==
    /\ up
    /\ p' = Done(Paging_unmap(p, m.virt, m.n))
    /\ maps' = maps \ {m}
    /\ UNCHANGED <<premaps, up>>

Next ==
    /\ Running
    /\ \/ \E m \in Requests : VMM_premap(m) \/ VMM_map(m)
       \/ VMM_init
       \/ \E r \in HeapRequests : VMM_mapInHeap(r)
       \/ \E m \in maps : VMM_unmap(m)

Spec == Init /\ [][Next]_vars

-----------------------------------------------------------------------------
Asked == maps \cup Permanent

Exactly(q, asked) ==
    /\ \A m \in asked : \A k \in 0 .. m.n - 1 :
         /\ Mapped(q, m.virt + k)
         /\ Translate(q, m.virt + k) = m.phys + k
         /\ Lookup(q, m.virt + k).entry.flags = m.flags
    /\ \A v \in (0 .. Top - 1) \ (Windows \cup UNION {Pages(m) : m \in asked}) : ~Mapped(q, v)

\* After any calls, with pages of three sizes side by side and tables freed between
\* them, the processor finds exactly the pages that Paging_map was asked for and
\* Paging_unmap was not, with their flags; every call returns.  Excepted are requests
\* aligned in one address only and tables with pages of two sizes.
TranslationExact ==
    up /\ ~p.panic =>
      \/ p.crooked \/ p.misread
      \/ ~Stopped(p) /\ Exactly(p, Asked)

\* A table is in use once, by one entry, is not empty unless it is the PML4, and is not
\* in the PMM's hands; no table is lost (getPDP, getPD, getPT, freeTable).
TablesConserved ==
    Running =>
      LET entries(t) == {i \in 0 .. TABLE_SIZE - 1 : p.tables[t][i].present /\ ~p.tables[t][i].large}
          below(ts) == UNION {{p.tables[t][i].addr : i \in entries(t)} : t \in ts}
          pdpts == below({PML4})
          pds == below(pdpts)
          pts == below(pds)
      IN  /\ DOMAIN p.tables = {PML4} \cup pdpts \cup pds \cup pts
          /\ \A t \in DOMAIN p.tables \ {PML4} : ~tableIsEmpty(p, t)
          /\ Cardinality(pdpts \cup pds \cup pts) =
               FoldSet(LAMBDA t, n : n + Cardinality(entries(t)), 0, {PML4} \cup pdpts \cup pds)
          /\ Frames = p.free \cup (DOMAIN p.tables \ {PML4})
          /\ p.free \cap DOMAIN p.tables = {}

\* The page before the windows maps the table that maps the windows, so that tables can
\* be shown at all; what the heap mapped is found again from its address.
WindowsIntact ==
    /\ p.enabled /\ ~Stopped(p) =>
         LET host == Translate(p, dynamicTablesHost)
         IN  /\ host \in DOMAIN p.tables
             /\ \A l \in 0 .. 2 : p.tables[host][Index(Window(l), 0)].addr = Translate(p, Window(l))
    /\ \A m \in maps : m.virt \in hsdmOffset .. hsdmOffset + hsdmSize - 1 =>
         VMM_toPhysical(m.virt) = m.phys

=============================================================================
