---------------------------- MODULE PMMInitProofs ----------------------------
(***************************************************************************)
(* The boot of the memory manager hands over exactly the usable pages, for *)
(* every map that the Limine protocol allows, every width of the words of  *)
(* the bitmap and every size of its pages.                                 *)
(***************************************************************************)
EXTENDS MemoryMapProofs, BitmapProofs

USE SMTT(30)

-----------------------------------------------------------------------------
\* What initBitmap's loop frees: entries within the n pages from start on, the usable
\* ones one after the other.
ManagedEntries(T, n, start) ==
    /\ Entries \in Seq(T)
    /\ \A i \in DOMAIN Entries :
         /\ Entries[i].address \in Nat /\ Entries[i].length \in Nat \ {0}
         /\ Entries[i].type = "usable" =>
              start <= Entries[i].address /\ Entries[i].address + Entries[i].length <= start + n
    /\ \A j, k \in DOMAIN Entries :
         j < k /\ Entries[j].type = "usable" /\ Entries[k].type = "usable" =>
           Entries[j].address + Entries[j].length <= Entries[k].address

\* The allocator while initBitmap clears bits.
Clearing(n, start, total) ==
    [nBlocks : {n}, start : {start}, allocatableBlocks : {total},
     allocatedBlocks : Int, bitmap : BitmapOf(n)]

\* What a round of initBitmap's loop does.
ClearsUsable(n, start, total, after) ==
    /\ \A i \in 0 .. Len(Entries) : after[i] \in Clearing(n, start, total)
    /\ after[0].bitmap = [i \in 0 .. bitmapLength(n) - 1 |-> FullWord]
    /\ after[0].allocatedBlocks = total
    /\ \A i \in 1 .. Len(Entries) :
         IF Entries[i].type # "usable" THEN after[i] = after[i - 1]
         ELSE LET s == Entries[i].address - start
                  e == Entries[i].address - start + Entries[i].length
              IN  /\ after[i].bitmap = clearBits(n, after[i - 1].bitmap, s, e)
                  /\ after[i].allocatedBlocks =
                       CountAfterClear(n, after[i - 1].allocatedBlocks, s, e)

\* The loop of initBitmap clears the bits of the usable entries, one by one.
LEMMA ClearingsRound ==
    ASSUME NEW T, NEW n \in Nat \ {0}, NEW start \in Nat, NEW total \in Nat,
           ManagedEntries(T, n, start), NEW after, after = Clearings(n, start, total)
    PROVE  ClearsUsable(n, start, total, after)
<1> DEFINE N == Len(Entries)  V == Clearing(n, start, total)
           full == [nBlocks           |-> n,
                    start             |-> start,
                    allocatableBlocks |-> total,
                    allocatedBlocks   |-> total,
                    bitmap            |-> [i \in 0 .. bitmapLength(n) - 1 |-> FullWord]]
           s(i) == Entries[i].address - start
           e(i) == Entries[i].address - start + Entries[i].length
           freed(a, i) == [a EXCEPT !.bitmap = clearBits(n, @, s(i), e(i)),
                                    !.allocatedBlocks = CountAfterClear(n, @, s(i), e(i))]
           round == [x \in (1 .. N) \X V |->
                       IF Entries[x[1]].type # "usable" THEN x[2] ELSE freed(x[2], x[1])]
<1>1. N \in Nat /\ DOMAIN Entries = 1 .. N
  BY DEF ManagedEntries
<1>2. full \in V
  BY DEF Clearing, BitmapOf, Word
<1>3. ASSUME NEW i \in 1 .. N, NEW a \in V, Entries[i].type = "usable"
      PROVE  /\ freed(a, i) \in V
             /\ freed(a, i).bitmap = clearBits(n, a.bitmap, s(i), e(i))
             /\ freed(a, i).allocatedBlocks = CountAfterClear(n, a.allocatedBlocks, s(i), e(i))
  <2>1. s(i) \in Nat /\ e(i) \in Nat
    BY <1>1, <1>3 DEF ManagedEntries
  <2> HIDE DEF s, e
  <2>2. a.bitmap \in BitmapOf(n) /\ a.allocatedBlocks \in Int
    BY DEF Clearing
  <2>3. clearBits(n, a.bitmap, s(i), e(i)) \in BitmapOf(n)
    BY <2>1, <2>2, ClearBitsType
  <2>4. CountAfterClear(n, a.allocatedBlocks, s(i), e(i)) \in Int
    BY <2>1, <2>2, CounterModAssumption DEF CountAfterClear, ClampedEnd
  <2> DEFINE b == clearBits(n, a.bitmap, s(i), e(i))
             c == CountAfterClear(n, a.allocatedBlocks, s(i), e(i))
  <2>5. freed(a, i) = [a EXCEPT !.bitmap = b, !.allocatedBlocks = c]
    BY Zenon
  <2>6. b \in BitmapOf(n) /\ c \in Int
    BY <2>3, <2>4
  <2> HIDE DEF b, c
  <2>7. [a EXCEPT !.bitmap = b, !.allocatedBlocks = c] \in V
    BY <2>6, Zenon DEF Clearing
  <2>8. /\ [a EXCEPT !.bitmap = b, !.allocatedBlocks = c].bitmap = b
        /\ [a EXCEPT !.bitmap = b, !.allocatedBlocks = c].allocatedBlocks = c
    BY <2>6 DEF Clearing
  <2> HIDE DEF freed, V
  <2> QED BY <2>5, <2>7, <2>8 DEF b, c
<1>4. round \in [(1 .. N) \X V -> V]
  <2> HIDE DEF V, freed, N
  <2> QED BY <1>3
<1> DEFINE After(g) == [i \in 0 .. Len(Entries) |->
                          IF i = 0 THEN full
                            ELSE IF Entries[i].type # "usable" THEN g[i - 1]
                            ELSE freed(g[i - 1], i)]
<1>5. after = CHOOSE g : g = After(g)
  BY Zenon DEF Clearings
<1> HIDE DEF N, V, full, freed, round
<1>6. Rounds(N, V, full, round) # {}
  <2>1. N \in Nat
    BY <1>1
  <2> QED BY <2>1, <1>2, <1>4, LoopExists, ZenonT(30)
<1>7. PICK g \in Rounds(N, V, full, round) : TRUE
  BY <1>6, Zenon
<1>8. g = After(g)
  <2>1. g \in [0 .. N -> V] /\ g[0] = full /\ \A i \in 1 .. N : g[i] = round[<<i, g[i - 1]>>]
    BY <1>7 DEF Rounds
  <2>2. ASSUME NEW i \in 1 .. N
        PROVE  g[i] = IF Entries[i].type # "usable" THEN g[i - 1] ELSE freed(g[i - 1], i)
    <3>1. g[i - 1] \in V
      BY <1>1, <2>1
    <3>2. ASSUME NEW v \in V
          PROVE  round[<<i, v>>] = IF Entries[i].type # "usable" THEN v ELSE freed(v, i)
      BY DEF round
    <3> QED BY <2>1, <3>1, <3>2, Zenon
  <2>3. ASSUME NEW i \in 0 .. N
        PROVE  g[i] = After(g)[i]
    <3>1. i = 0 \/ i \in 1 .. N
      BY <1>1
    <3>2. 0 \notin 1 .. N
      OBVIOUS
    <3> QED BY <2>1, <2>2, <3>1, <3>2, Zenon DEF N
  <2>4. g = [i \in 0 .. N |-> g[i]] /\ After(g) = [i \in 0 .. N |-> After(g)[i]]
    BY <2>1, Zenon DEF N
  <2> HIDE DEF After
  <2> QED BY <2>3, <2>4, Zenon
<1>9. after = After(after)
  <2> HIDE DEF After
  <2> QED BY <1>5, <1>8, Zenon
<1>10. /\ after[0] = full
       /\ \A i \in 1 .. N : after[i] = IF Entries[i].type # "usable" THEN after[i - 1]
                                       ELSE freed(after[i - 1], i)
  <2>1. 0 \in 0 .. N /\ 0 \notin 1 .. N /\ 1 .. N \subseteq 0 .. N
    BY <1>1
  <2>2. ASSUME NEW i \in 0 .. N
        PROVE  after[i] = IF i = 0 THEN full
                          ELSE IF Entries[i].type # "usable" THEN after[i - 1]
                          ELSE freed(after[i - 1], i)
    BY <1>9, Zenon DEF N
  <2> QED BY <2>1, <2>2, Zenon
<1> DEFINE S == {i \in 0 .. N : after[i] \in V}
<1>11. 0 \in S
  BY <1>1, <1>2, <1>10
<1>12. ASSUME NEW i \in 1 .. N, i - 1 \in S
       PROVE  i \in S
  <2>1. after[i - 1] \in V
    BY <1>12, Zenon
  <2>2. after[i] \in V
    BY <1>3, <1>10, <2>1, Zenon
  <2>3. i \in 0 .. N
    OBVIOUS
  <2> QED BY <2>2, <2>3, Zenon
<1>13. 0 .. N \subseteq S
  <2>1. N \in Nat
    BY <1>1
  <2> HIDE DEF S
  <2> QED BY <1>11, <1>12, <2>1, SetInduction, ZenonT(30)
<1>14. \A i \in 0 .. N : after[i] \in V
  BY <1>13, Zenon
<1>15. /\ after[0].bitmap = [i \in 0 .. bitmapLength(n) - 1 |-> FullWord]
       /\ after[0].allocatedBlocks = total
  BY <1>10 DEF full
<1>16. ASSUME NEW i \in 1 .. N
       PROVE  IF Entries[i].type # "usable" THEN after[i] = after[i - 1]
              ELSE /\ after[i].bitmap = clearBits(n, after[i - 1].bitmap, s(i), e(i))
                   /\ after[i].allocatedBlocks =
                        CountAfterClear(n, after[i - 1].allocatedBlocks, s(i), e(i))
  <2>1. i - 1 \in 0 .. N
    BY <1>1
  <2>2. after[i - 1] \in V
    BY <1>14, <2>1, Zenon
  <2> HIDE DEF s, e
  <2> QED BY <1>3, <1>10, <2>2, Zenon
<1> QED BY <1>14, <1>15, <1>16, Zenon DEF N, V, ClearsUsable

\* The lengths initBitmap adds up.
LEMMA LengthsTypes ==
    ASSUME NEW T, NEW n, NEW start \in Nat \ {0}, ManagedEntries(T, n, start)
    PROVE  /\ UsableLengths \in Seq(Nat) /\ Len(UsableLengths) = Len(Entries)
           /\ AllocatableLengths \in Seq(Nat) /\ Len(AllocatableLengths) = Len(Entries)
           /\ \A i \in 1 .. Len(Entries) : UsableLengths[i] <= AllocatableLengths[i]
           /\ \A i \in 1 .. Len(Entries) : AllocatableLengths[i] <= Entries[i].length
<1> DEFINE N == Len(Entries)
<1>1. N \in Nat /\ DOMAIN Entries = 1 .. N
  BY DEF ManagedEntries
<1>2. \A i \in 1 .. N : Entries[i].length \in Nat \ {0}
  BY <1>1 DEF ManagedEntries
<1>3. UsableLengths \in [1 .. N -> Nat]
  BY <1>1, <1>2 DEF UsableLengths
<1>4. AllocatableLengths \in [1 .. N -> Nat]
  BY <1>1, <1>2 DEF AllocatableLengths
<1>5. UsableLengths \in Seq(Nat) /\ AllocatableLengths \in Seq(Nat)
  BY <1>1, <1>3, <1>4, IsASeq
<1>6. Len(UsableLengths) = N /\ Len(AllocatableLengths) = N
  <2>1. DOMAIN UsableLengths = 1 .. N /\ DOMAIN AllocatableLengths = 1 .. N
    BY <1>3, <1>4
  <2> QED BY <1>1, <1>5, <2>1, LenProperties
<1>7. ASSUME NEW i \in 1 .. N
      PROVE  /\ UsableLengths[i] <= AllocatableLengths[i]
             /\ AllocatableLengths[i] <= Entries[i].length
  <2>1. Entries[i].type = "usable" => Entries[i].address # 0
    BY <1>1 DEF ManagedEntries
  <2> QED BY <1>1, <1>2, <2>1 DEF UsableLengths, AllocatableLengths, Allocatable
<1> QED BY <1>5, <1>6, <1>7

\* The bits that are free after i rounds are those of the usable entries up to i, and
\* the counter has followed.
ClearedSoFar(n, start, total, a, i) ==
    /\ \A p \in 0 .. n - 1 :
         ~IsSet(a.bitmap, p) <=>
           \E j \in 1 .. i : /\ Entries[j].type = "usable"
                             /\ Entries[j].address <= start + p
                             /\ start + p < Entries[j].address + Entries[j].length
    /\ countFreeBlocks(n, a.bitmap) = Sums(UsableLengths)[i]
    /\ a.allocatedBlocks = total - Sums(UsableLengths)[i]

\* That holds after each round of initBitmap's loop.
LEMMA ClearedUpTo ==
    ASSUME NEW T, NEW n \in Nat \ {0}, NEW start \in Nat \ {0}, NEW total \in Nat,
           ManagedEntries(T, n, start), total < CounterMod,
           \A i \in 0 .. Len(Entries) : Sums(UsableLengths)[i] <= total,
           NEW after, after = Clearings(n, start, total)
    PROVE  \A i \in 0 .. Len(Entries) : ClearedSoFar(n, start, total, after[i], i)
<1> DEFINE N == Len(Entries)  U == Sums(UsableLengths)
           Holds(j, p) == /\ Entries[j].type = "usable"
                          /\ Entries[j].address <= start + p
                          /\ start + p < Entries[j].address + Entries[j].length
           Freed(i) == \A p \in 0 .. n - 1 :
                         ~IsSet(after[i].bitmap, p) <=> \E j \in 1 .. i : Holds(j, p)
           Counted(i) == /\ countFreeBlocks(n, after[i].bitmap) = U[i]
                         /\ after[i].allocatedBlocks = total - U[i]
           S == {i \in 0 .. N : Freed(i) /\ Counted(i)}
<1>1. N \in Nat /\ DOMAIN Entries = 1 .. N
  BY DEF ManagedEntries
<1>2. /\ \A i \in 0 .. N : after[i] \in Clearing(n, start, total)
      /\ after[0].bitmap = [i \in 0 .. bitmapLength(n) - 1 |-> FullWord]
      /\ after[0].allocatedBlocks = total
      /\ \A i \in 1 .. N :
           IF Entries[i].type # "usable" THEN after[i] = after[i - 1]
           ELSE LET s == Entries[i].address - start
                    e == Entries[i].address - start + Entries[i].length
                IN  /\ after[i].bitmap = clearBits(n, after[i - 1].bitmap, s, e)
                    /\ after[i].allocatedBlocks =
                         CountAfterClear(n, after[i - 1].allocatedBlocks, s, e)
  <2>1. start \in Nat
    OBVIOUS
  <2>2. ClearsUsable(n, start, total, after)
    BY <2>1, ClearingsRound, Zenon
  <2> QED BY <2>2, Zenon DEF ClearsUsable
<1>3. \A i \in 0 .. N : after[i].bitmap \in BitmapOf(n)
  <2>1. \A a \in Clearing(n, start, total) : a.bitmap \in BitmapOf(n)
    BY DEF Clearing
  <2> QED BY <1>2, <2>1, Zenon
<1>4. /\ U[0] = 0 /\ \A i \in 1 .. N : U[i] = U[i - 1] + UsableLengths[i]
      /\ \A i \in 0 .. N : U[i] \in Nat /\ U[i] <= total
  <2>1. UsableLengths \in Seq(Nat) /\ UsableLengths \in Seq(Int) /\ Len(UsableLengths) = N
    BY LengthsTypes
  <2> QED BY <2>1, SumsRound, SumsOfPages
<1>5. \A i \in 1 .. N : /\ Entries[i].address \in Nat /\ Entries[i].length \in Nat \ {0}
                        /\ UsableLengths[i] = IF Entries[i].type = "usable"
                                                THEN Entries[i].length ELSE 0
  BY <1>1 DEF ManagedEntries, UsableLengths
<1> HIDE DEF N, U
<1>6. 0 \in S
  <2>1. \A p \in 0 .. n - 1 : IsSet(after[0].bitmap, p)
    BY <1>2, DivMod, WordInBitmap DEF IsSet
  <2>2. Freed(0)
    BY <2>1
  <2>3. FreeBits(n, after[0].bitmap) = {}
    BY <2>1 DEF FreeBits
  <2>4. countFreeBlocks(n, after[0].bitmap) = 0
    BY <2>3, FS_EmptySet DEF countFreeBlocks
  <2>5. Counted(0)
    BY <1>2, <1>4, <2>4
  <2>6. 0 \in 0 .. N
    BY <1>1
  <2> HIDE DEF Freed, Counted
  <2> QED BY <2>2, <2>5, <2>6
<1>7. ASSUME NEW i \in 1 .. N, i - 1 \in S
      PROVE  i \in S
  <2>1. i - 1 \in 0 .. N /\ i \in 0 .. N
    BY <1>1
  <2>2. Freed(i - 1) /\ Counted(i - 1)
    BY <1>7, Zenon
  <2>3. CASE Entries[i].type # "usable"
    <3>1. after[i] = after[i - 1]
      BY <1>2, <2>3, Zenon
    <3>2. U[i] = U[i - 1]
      BY <1>4, <1>5, <2>1, <2>3
    <3>3. Counted(i)
      BY <2>2, <3>1, <3>2
    <3>4. ASSUME NEW p \in 0 .. n - 1
          PROVE  (\E j \in 1 .. i : Holds(j, p)) <=> \E j \in 1 .. i - 1 : Holds(j, p)
      <4>1. ~Holds(i, p)
        BY <2>3
      <4> HIDE DEF Holds
      <4> QED BY <1>1, <4>1
    <3>5. Freed(i)
      <4> HIDE DEF Holds
      <4> QED BY <2>2, <3>1, <3>4, Zenon
    <3> HIDE DEF Freed, Counted
    <3> QED BY <2>1, <3>3, <3>5
  <2>4. CASE Entries[i].type = "usable"
    <3> DEFINE bm == after[i - 1].bitmap  c == after[i - 1].allocatedBlocks
               len == Entries[i].length
               s == Entries[i].address - start  e == Entries[i].address - start + len
    <3>1. /\ after[i].bitmap = clearBits(n, bm, s, e)
          /\ after[i].allocatedBlocks = CountAfterClear(n, c, s, e)
      BY <1>2, <2>4, Zenon
    <3>2. s \in Nat /\ e \in Nat /\ s < e /\ e <= n /\ e = s + len /\ len \in Nat
      BY <1>1, <1>5, <2>4 DEF ManagedEntries
    <3>3. bm \in BitmapOf(n)
      BY <1>3, <2>1, Zenon
    <3>4. U[i] = U[i - 1] + len /\ U[i - 1] \in Nat /\ U[i] \in Nat /\ U[i] <= total
      BY <1>4, <1>5, <2>1, <2>4
    <3>5. c = total - U[i - 1] /\ countFreeBlocks(n, bm) = U[i - 1]
      BY <2>2
    <3>6. ASSUME NEW p \in 0 .. n - 1
          PROVE  Holds(i, p) <=> p \in s .. e - 1
      <4>1. Entries[i].address \in Nat /\ len \in Nat /\ start \in Nat /\ p \in Nat
        BY <1>5
      <4> HIDE DEF len
      <4>2. Holds(i, p) <=> Entries[i].address <= start + p /\ start + p < Entries[i].address + len
        BY <2>4 DEF len
      <4> HIDE DEF Holds
      <4> QED BY <4>1, <4>2
    <3>7. ASSUME NEW p \in s .. e - 1
          PROVE  IsSet(bm, p)
      <4>1. p \in 0 .. n - 1
        BY <3>2
      <4>2. ASSUME NEW j \in 1 .. i - 1, Holds(j, p)
            PROVE  FALSE
        <5>1. j \in DOMAIN Entries /\ i \in DOMAIN Entries /\ j < i
          BY <1>1
        <5>2. Entries[j].address + Entries[j].length <= Entries[i].address
          BY <2>4, <4>2, <5>1 DEF ManagedEntries
        <5>3. Entries[j].address \in Nat /\ Entries[j].length \in Nat
          BY <1>1, <1>5, <5>1
        <5>4. Holds(i, p)
          BY <3>6, <4>1
        <5> QED BY <1>5, <4>1, <4>2, <5>2, <5>3, <5>4
      <4> HIDE DEF Holds
      <4> QED BY <2>2, <4>1, <4>2, Zenon
    <3> HIDE DEF bm, c, len, s, e
    <3>8. countFreeBlocks(n, after[i].bitmap) = U[i]
      <4>1. countFreeBlocks(n, clearBits(n, bm, s, e)) = countFreeBlocks(n, bm) + (e - s)
        BY <3>2, <3>3, <3>7, CountAfterClearing
      <4> QED BY <3>1, <3>2, <3>4, <3>5, <4>1
    <3>9. after[i].allocatedBlocks = total - U[i]
      <4>1. CountAfterClear(n, c, s, e) = (c - (e - s)) % CounterMod
        BY <3>2 DEF CountAfterClear, HasBits, ClampedEnd
      <4>2. c - (e - s) = total - U[i] /\ total - U[i] \in Nat /\ total - U[i] < CounterMod
        BY <3>2, <3>4, <3>5, CounterModAssumption
      <4>3. (total - U[i]) % CounterMod = total - U[i]
        BY <4>2, CounterModAssumption
      <4> QED BY <3>1, <4>1, <4>2, <4>3
    <3>10. ASSUME NEW p \in 0 .. n - 1
           PROVE  ~IsSet(after[i].bitmap, p) <=> \E j \in 1 .. i : Holds(j, p)
      <4>1. IsSet(after[i].bitmap, p) <=> IsSet(bm, p) /\ p \notin s .. e - 1
        BY <3>1, <3>2, <3>3, ClearBitsExact
      <4>2. ~IsSet(bm, p) <=> \E j \in 1 .. i - 1 : Holds(j, p)
        BY <2>2, Zenon DEF bm
      <4>3. (\E j \in 1 .. i : Holds(j, p)) <=> Holds(i, p) \/ \E j \in 1 .. i - 1 : Holds(j, p)
        <5> HIDE DEF Holds
        <5> QED BY <1>1
      <4> HIDE DEF Holds
      <4> QED BY <3>6, <4>1, <4>2, <4>3, Zenon
    <3>11. Freed(i) /\ Counted(i)
      BY <3>8, <3>9, <3>10, Zenon
    <3> HIDE DEF Freed, Counted
    <3> QED BY <2>1, <3>11
  <2> QED BY <2>3, <2>4
<1>8. 0 .. N \subseteq S
  <2>1. N \in Nat
    BY <1>1
  <2> HIDE DEF S
  <2> QED BY <1>6, <1>7, <2>1, SetInduction, ZenonT(30)
<1>9. \A i \in 0 .. N : Freed(i) /\ Counted(i)
  <2> HIDE DEF Freed, Counted
  <2> QED BY <1>8, Zenon
<1> QED BY <1>9, Zenon DEF N, U, ClearedSoFar

-----------------------------------------------------------------------------
\* What MMap_init leaves to PMM_init.
MapDone ==
    /\ AcceptedMap(given)
    /\ ProcessedCount(given) < MMAP_MAX_ENTRIES
    /\ mmap = [lastUsablePage |-> parseLimineMemoryMap(given).lastUsablePage,
               size           |-> ProcessedCount(given),
               entries        |-> copyIntoMemoryMap(SquashedMap(given))]
    /\ limine = Processed(given)

\* The loops over g_memoryMap see all the entries that were copied, and no more.
LEMMA EntriesDone ==
    ASSUME MapDone
    PROVE  /\ Entries = copyIntoMemoryMap(SquashedMap(given))
           /\ Entries \in Seq(CopiedEntries(given))
           /\ Len(Entries) < MMAP_MAX_ENTRIES
<1> DEFINE M == copyIntoMemoryMap(SquashedMap(given))
<1>1. M \in Seq(CopiedEntries(given))
  BY KernelMap DEF MapDone
<1>2. mmap.entries = M /\ mmap.size = Len(M) /\ Len(M) < MMAP_MAX_ENTRIES
  BY CopiesLength DEF MapDone
<1> HIDE DEF M
<1>3. SubSeq(M, 1, Len(M)) = M
  BY <1>1
<1> QED BY <1>1, <1>2, <1>3 DEF Entries, M

\* The bitmap starts at the first usable page: it covers all the usable ones.
LEMMA StartManages ==
    ASSUME MapDone, StartCandidates # {}
    PROVE  /\ getBitmapStart \in Nat \ {0}
           /\ mmap.lastUsablePage - getBitmapStart + 1 \in Nat \ {0}
           /\ ManagedEntries(CopiedEntries(given), mmap.lastUsablePage - getBitmapStart + 1,
                             getBitmapStart)
<1> DEFINE M == Entries  C == StartCandidates  last == mmap.lastUsablePage
           start == getBitmapStart  m == Min(C)
<1>1. AcceptedMap(given) /\ M = copyIntoMemoryMap(SquashedMap(given)) /\ M \in Seq(CopiedEntries(given))
  BY EntriesDone DEF MapDone
<1>2. Len(M) \in Nat /\ DOMAIN M = 1 .. Len(M)
  BY <1>1
<1> HIDE DEF M
<1>3. \A i \in DOMAIN M : /\ M[i].address \in Nat /\ M[i].length \in Nat \ {0}
                          /\ M[i].type = "usable" => M[i].address >= 1
  BY <1>1, KernelEntry
<1>4. \A j, k \in DOMAIN M : j < k /\ M[j].type = "usable" /\ M[k].type = "usable" =>
                               M[j].address + M[j].length <= M[k].address
  BY <1>1, KernelMap
<1>5. C = {i \in DOMAIN M : M[i].type = "usable"}
  BY <1>3 DEF StartCandidates, M
<1>6. m \in C /\ \A y \in C : m <= y
  <2>1. C \subseteq 1 .. Len(M)
    BY <1>2, <1>5
  <2>2. C # {}
    OBVIOUS
  <2> HIDE DEF C
  <2> QED BY <1>2, <2>1, <2>2, Extremes, ZenonT(30)
<1>7. start = M[m].address /\ start \in Nat \ {0}
  <2>1. m \in DOMAIN M /\ M[m].type = "usable"
    BY <1>5, <1>6
  <2>2. M[m].address \in Nat \ {0}
    BY <1>3, <2>1
  <2> QED BY <2>2 DEF getBitmapStart, M
<1>8. ASSUME NEW i \in DOMAIN M, M[i].type = "usable"
      PROVE  last \in Int /\ M[i].address + M[i].length - 1 <= last
  <2>1. M[i] # FirstEntry
    BY <1>8 DEF FirstEntry
  <2>2. PICK k \in Kept(given) : M[i] = EntryOf(Processed(given)[k])
    BY <1>1, <2>1, KernelMap
  <2>3. given[k].type = "usable"
    BY <1>1, <1>8, <2>2, EntryFields DEF getMemoryType
  <2>4. M[i].address = Processed(given)[k].base /\ M[i].length = Processed(given)[k].length
    BY <1>1, <2>2, EntryFields
  <2>5. last = parseLimineMemoryMap(given).lastUsablePage
    BY DEF MapDone
  <2> QED BY <1>1, <2>3, <2>4, <2>5, LastUsable
<1>9. ASSUME NEW i \in DOMAIN M, M[i].type = "usable"
      PROVE  start <= M[i].address
  <2>1. i \in C /\ m \in DOMAIN M /\ M[m].type = "usable" /\ m \in Nat /\ i \in Nat
    BY <1>2, <1>5, <1>6, <1>9
  <2>2. CASE i = m
    BY <1>7, <2>2
  <2>3. CASE i # m
    <3>1. m < i
      BY <1>6, <2>1, <2>3
    <3>2. M[m].address + M[m].length <= M[i].address
      BY <1>4, <1>9, <2>1, <3>1
    <3> QED BY <1>3, <1>7, <2>1, <3>2
  <2> QED BY <2>2, <2>3
<1>10. last - start + 1 \in Nat \ {0}
  <2>1. m \in DOMAIN M /\ M[m].type = "usable"
    BY <1>5, <1>6
  <2>2. last \in Int /\ M[m].address + M[m].length - 1 <= last
    BY <1>8, <2>1
  <2>3. M[m].address \in Nat /\ M[m].length \in Nat \ {0}
    BY <1>3, <2>1
  <2> HIDE DEF start, last
  <2> QED BY <1>7, <2>2, <2>3
<1>11. ManagedEntries(CopiedEntries(given), last - start + 1, start)
  <2>1. ASSUME NEW i \in DOMAIN M, M[i].type = "usable"
        PROVE  start <= M[i].address /\ M[i].address + M[i].length <= start + (last - start + 1)
    <3>1. start \in Int /\ last \in Int /\ start <= M[i].address
           /\ M[i].address + M[i].length - 1 <= last
      BY <1>7, <1>8, <1>9, <2>1
    <3>2. M[i].address \in Nat /\ M[i].length \in Nat
      BY <1>3
    <3> HIDE DEF start, last
    <3> QED BY <3>1, <3>2
  <2> HIDE DEF start, last
  <2> QED BY <1>1, <1>3, <1>4, <2>1, Zenon DEF ManagedEntries, M
<1> QED BY <1>7, <1>10, <1>11

\* The counters fit in a uint64_t, and more may ever be allocated than is free now.
LEMMA TotalsFit ==
    ASSUME MapDone, StartCandidates # {}
    PROVE  /\ getAllocatableBlocks \in Nat /\ getAllocatableBlocks < CounterMod
           /\ \A i \in 0 .. Len(Entries) :
                Sums(UsableLengths)[i] \in Nat /\ Sums(UsableLengths)[i] <= getAllocatableBlocks
<1> DEFINE A == AllocatableLengths  U == UsableLengths  N == Len(Entries)
<1>1. /\ U \in Seq(Nat) /\ Len(U) = N /\ A \in Seq(Nat) /\ Len(A) = N
      /\ \A i \in 1 .. N : U[i] <= A[i] /\ A[i] <= Entries[i].length
  BY StartManages, LengthsTypes
<1>2. getAllocatableBlocks = Total(A)
  BY DEF getAllocatableBlocks
<1>3. N \in Nat /\ DOMAIN Entries = 1 .. N /\ N < MMAP_MAX_ENTRIES
  BY EntriesDone
<1>4. MMAP_MAX_ENTRIES \in Nat /\ CounterMod \in Nat \ {0}
  BY LimineAssumption, CounterModAssumption
<1> HIDE DEF A, U, N
<1>5. ASSUME NEW i \in 1 .. N
      PROVE  MMAP_MAX_ENTRIES * A[i] < CounterMod
  <2> DEFINE len == Entries[i].length
  <2>1. len \in Nat /\ MMAP_MAX_ENTRIES * len < CounterMod
    BY <1>3, KernelEntry, EntriesDone DEF MapDone
  <2>2. A[i] \in Nat /\ A[i] <= len
    BY <1>1
  <2> HIDE DEF len
  <2>3. ASSUME NEW a \in Nat, NEW b \in Nat, a <= b
        PROVE  MMAP_MAX_ENTRIES * a <= MMAP_MAX_ENTRIES * b
    BY <1>4, <2>3, Z3
  <2>4. MMAP_MAX_ENTRIES * A[i] <= MMAP_MAX_ENTRIES * len
    BY <2>1, <2>2, <2>3
  <2>5. MMAP_MAX_ENTRIES * A[i] \in Nat /\ MMAP_MAX_ENTRIES * len \in Nat
    BY <1>4, <2>1, <2>2
  <2> QED BY <1>4, <2>1, <2>4, <2>5
<1>6. Total(A) < CounterMod
  <2>1. Len(A) < MMAP_MAX_ENTRIES /\ \A i \in 1 .. Len(A) : MMAP_MAX_ENTRIES * A[i] < CounterMod
    BY <1>1, <1>3, <1>5
  <2> QED BY <1>1, <1>4, <2>1, TotalBounded, ZenonT(30)
<1>7. Total(A) \in Nat /\ \A i \in 0 .. N : Sums(A)[i] \in Nat /\ Sums(A)[i] <= Total(A)
  BY <1>1, SumsOfPages
<1>8. \A i \in 0 .. N : Sums(U)[i] \in Nat /\ Sums(U)[i] <= Sums(A)[i]
  BY <1>1, SumsOfPages, SumsCompared
<1>9. \A i \in 0 .. N : Sums(U)[i] <= Total(A)
  BY <1>7, <1>8
<1> QED BY <1>2, <1>6, <1>7, <1>8, <1>9 DEF U, N

\* Once initBitmap has freed the usable entries, its asserts hold, and the free bits
\* are those of the usable pages.
LEMMA ClearedRight ==
    ASSUME MapDone, StartCandidates # {},
           NEW start, start = getBitmapStart,
           NEW n, n = mmap.lastUsablePage - start + 1,
           NEW a, a = ClearedAllocator(n, start, getAllocatableBlocks)
    PROVE  /\ a \in Clearing(n, start, getAllocatableBlocks)
           /\ ClearedAsserts(a)
           /\ a.allocatedBlocks = a.allocatableBlocks - countFreeBlocks(n, a.bitmap)
           /\ countFreeBlocks(n, a.bitmap) <= getAllocatableBlocks
           /\ \A p \in 0 .. n - 1 : ~IsSet(a.bitmap, p) <=> start + p \in UsableMemory
           /\ UsableMemory \subseteq start .. start + n - 1
<1> DEFINE N == Len(Entries)  total == getAllocatableBlocks  T == CopiedEntries(given)
           after == Clearings(n, start, total)  U == Sums(UsableLengths)
<1>1. start \in Nat \ {0} /\ n \in Nat \ {0} /\ ManagedEntries(T, n, start)
  BY StartManages
<1>2. /\ total \in Nat /\ total < CounterMod
      /\ \A i \in 0 .. N : U[i] \in Nat /\ U[i] <= total
  BY TotalsFit
<1>3. N \in Nat /\ N \in 0 .. N /\ DOMAIN Entries = 1 .. N
  BY EntriesDone
<1>4. a = after[N]
  BY DEF ClearedAllocator
<1>5. Total(UsableLengths) = U[N]
  <2>1. Len(UsableLengths) = N
    BY <1>1, LengthsTypes
  <2> QED BY <2>1 DEF Total
<1> HIDE DEF N, total, T, after, U
<1>6. a \in Clearing(n, start, total)
  <2>1. start \in Nat
    BY <1>1
  <2>2. ClearsUsable(n, start, total, after)
    BY <1>1, <1>2, <2>1, ClearingsRound, Zenon DEF after
  <2> QED BY <1>3, <1>4, <2>2, Zenon DEF ClearsUsable, N
<1>7. /\ \A p \in 0 .. n - 1 :
           ~IsSet(a.bitmap, p) <=>
             \E j \in 1 .. N : /\ Entries[j].type = "usable"
                               /\ Entries[j].address <= start + p
                               /\ start + p < Entries[j].address + Entries[j].length
      /\ countFreeBlocks(n, a.bitmap) = U[N]
      /\ a.allocatedBlocks = total - U[N]
  <2>1. \A i \in 0 .. N : U[i] <= total
    BY <1>2
  <2>2. \A i \in 0 .. N : ClearedSoFar(n, start, total, after[i], i)
    BY <1>1, <1>2, <2>1, ClearedUpTo, ZenonT(30) DEF N, U, after
  <2>3. ClearedSoFar(n, start, total, a, N)
    BY <1>3, <1>4, <2>2, Zenon
  <2> QED BY <2>3, Zenon DEF ClearedSoFar, U
<1>8. /\ a.nBlocks = n /\ a.allocatableBlocks = total /\ a.bitmap \in BitmapOf(n)
  BY <1>6 DEF Clearing
<1>9. U[N] \in Nat /\ U[N] <= total
  BY <1>2, <1>3
<1>10. (total - U[N]) % CounterMod = total - U[N]
  BY <1>2, <1>9, CounterModAssumption
<1>11. ClearedAsserts(a)
  BY <1>5, <1>7, <1>8, <1>10 DEF ClearedAsserts
<1>12. ASSUME NEW p \in Int
       PROVE  p \in UsableMemory <=>
                \E j \in 1 .. N : /\ Entries[j].type = "usable" /\ Entries[j].address <= p
                                  /\ p < Entries[j].address + Entries[j].length
  <2>1. AcceptedMap(given) /\ Entries = copyIntoMemoryMap(SquashedMap(given))
    BY EntriesDone DEF MapDone
  <2>2. "usable" \in KnownTypes \ {"bad", "reserved"}
    BY DEF KnownTypes
  <2>3. (\E i \in DOMAIN Entries : /\ Entries[i].type = "usable" /\ Entries[i].address <= p
                                   /\ p < Entries[i].address + Entries[i].length)
        <=> p \in PagesOfType(given, {"usable"}) \ {0}
    BY <2>1, <2>2, KernelPages
  <2> QED BY <1>3, <2>3, Zenon DEF UsableMemory
<1>13. ASSUME NEW p \in UsableMemory
       PROVE  p \in start .. start + n - 1
  <2>1. p \in Int
    BY InPagesOfType, Zenon DEF UsableMemory, MapDone
  <2>2. PICK j \in 1 .. N : /\ Entries[j].type = "usable" /\ Entries[j].address <= p
                            /\ p < Entries[j].address + Entries[j].length
    BY <1>12, <2>1
  <2>3. /\ Entries[j].address \in Nat /\ Entries[j].length \in Nat
        /\ start <= Entries[j].address /\ Entries[j].address + Entries[j].length <= start + n
    BY <1>1, <1>3, <2>2 DEF ManagedEntries
  <2> QED BY <1>1, <2>1, <2>2, <2>3
<1>14. ASSUME NEW p \in 0 .. n - 1
       PROVE  ~IsSet(a.bitmap, p) <=> start + p \in UsableMemory
  <2>1. start + p \in Int
    BY <1>1
  <2> QED BY <1>7, <1>12, <2>1, Zenon
<1>15. a.allocatedBlocks = a.allocatableBlocks - countFreeBlocks(n, a.bitmap)
  BY <1>7, <1>8
<1> QED BY <1>6, <1>7, <1>9, <1>11, <1>13, <1>14, <1>15 DEF total

\* The pages taken for the bitmap hold all of its words.
LEMMA StorageFits ==
    ASSUME NEW n \in Nat \ {0}
    PROVE  /\ getSizeAsPages(n) \in Nat \ {0}
           /\ bitmapLength(n) * WordBits <= getSizeAsPages(n) * BitsPerPage
<1> DEFINE W == WordBits  B == BitsPerPage
           q == bitmapLength(n)  qr == (n + W - 1) % W
           r == getSizeAsPages(n)  rr == (n + B - 1) % B
<1>1. W \in Nat \ {0} /\ B \in Nat \ {0}
  BY WordBitsAssumption, BitsPerPageAssumption
<1>2. PICK k \in 1 .. B : B = k * W
  BY BitsPerPageAssumption
<1>3. ASSUME NEW m \in Nat, NEW d \in Nat \ {0}
      PROVE  m \div d \in Nat /\ m % d \in 0 .. d - 1 /\ m = (m \div d) * d + (m % d)
  OBVIOUS
<1>4. /\ q \in Nat /\ qr \in 0 .. W - 1 /\ n + W - 1 = q * W + qr
  <2> DEFINE x == n + W - 1
  <2>1. x \in Nat
    BY <1>1
  <2>2. q = x \div W /\ qr = x % W
    BY DEF bitmapLength
  <2> HIDE DEF x, W, q, qr
  <2>3. q \in Nat /\ qr \in 0 .. W - 1 /\ x = q * W + qr
    BY <1>1, <1>3, <2>1, <2>2, Zenon
  <2> QED BY <2>3 DEF x
<1>5. /\ r \in Nat /\ rr \in 0 .. B - 1 /\ n + B - 1 = r * B + rr
  <2> DEFINE x == n + B - 1
  <2>1. x \in Nat
    BY <1>1
  <2>2. r = x \div B /\ rr = x % B
    BY DEF getSizeAsPages
  <2> HIDE DEF x, B, r, rr
  <2>3. r \in Nat /\ rr \in 0 .. B - 1 /\ x = r * B + rr
    BY <1>1, <1>3, <2>1, <2>2, Zenon
  <2> QED BY <2>3 DEF x
<1> HIDE DEF W, B, q, qr, r, rr
<1>6. r * B \in Nat /\ q * W \in Nat /\ k \in Nat /\ r * k \in Nat
  BY <1>1, <1>2, <1>4, <1>5
<1>7. n <= r * B /\ q * W <= n + W - 1
  BY <1>1, <1>4, <1>5, <1>6
<1>8. r # 0
  BY <1>1, <1>5, <1>7
<1>9. r * B = (r * k) * W
  BY <1>1, <1>2, <1>5, <1>6
<1>10. q <= r * k
  <2> DEFINE x == r * k
  <2>1. x \in Nat /\ q * W <= x * W + W - 1
    BY <1>1, <1>6, <1>7, <1>9
  <2> HIDE DEF x
  <2>2. ASSUME x < q
        PROVE  FALSE
    <3>1. x * W + W <= q * W
      BY <1>4, <2>1, <2>2, MulMono DEF W
    <3> QED BY <1>1, <1>6, <2>1, <3>1
  <2> QED BY <1>4, <2>1, <2>2 DEF x
<1>11. q * W <= (r * k) * W
  BY <1>1, <1>4, <1>6, <1>10
<1> QED BY <1>5, <1>8, <1>9, <1>11 DEF W, B, q, r

\* earlyAllocate takes usable pages of one entry, never the page at address 0.
LEMMA EarlyAllocated ==
    ASSUME MapDone, NEW n_pages \in Nat \ {0}, EarlyCandidates(n_pages) # {}
    PROVE  /\ earlyAllocate(n_pages) \in Nat
           /\ \A p \in earlyAllocate(n_pages) .. earlyAllocate(n_pages) + n_pages - 1 :
                p \in UsableMemory
<1> DEFINE C == EarlyCandidates(n_pages)  m == Min(C)  addr == earlyAllocate(n_pages)
           P == Processed(given)
<1>1. AcceptedMap(given) /\ limine = P
  BY DEF MapDone
<1>2. Len(given) \in Nat /\ DOMAIN given = 1 .. Len(given)
  BY <1>1, AcceptedEntries
<1>3. DOMAIN P = DOMAIN given
  <2>1. 1 \in DOMAIN given
    BY <1>1, AcceptedEntries
  <2> QED BY <1>1, <2>1, ProcessedEntry
<1> HIDE DEF P
<1>4. C = {i \in DOMAIN P : /\ P[i].type = "usable" /\ P[i].length >= n_pages
                            /\ P[i].base = 0 => P[i].length > n_pages}
  BY <1>1 DEF EarlyCandidates
<1>5. m \in C
  <2>1. C \subseteq 1 .. Len(given) /\ C # {}
    BY <1>2, <1>3, <1>4
  <2> HIDE DEF C
  <2> QED BY <1>2, <2>1, Extremes, ZenonT(30)
<1>6. m \in DOMAIN given /\ P[m].type = "usable" /\ P[m].length >= n_pages
  BY <1>3, <1>4, <1>5
<1>7. m \in Kept(given)
  BY <1>1, <1>6, ProcessedEntry DEF Kept, P, REMOVED
<1> HIDE DEF m, C
<1>8. /\ given[m].type = "usable" /\ P[m].base \in Nat \ {0} /\ P[m].length \in Nat
  BY <1>1, <1>6, <1>7, ProcessedEntry, AcceptedEntries DEF P
<1>9. addr = P[m].base
  BY <1>1, <1>8 DEF earlyAllocate, m, C
<1> HIDE DEF addr
<1>10. ASSUME NEW p \in addr .. addr + n_pages - 1
       PROVE  p \in UsableMemory
  <2>1. p \in Int /\ P[m].base <= p /\ p < P[m].base + P[m].length
    BY <1>6, <1>8, <1>9
  <2>2. InKept(given, "usable", p)
    BY <1>7, <1>8, <2>1 DEF InKept, P
  <2>3. InGiven(given, "usable", p) /\ p # 0
    BY <1>1, <2>1, <2>2, PagesKept
  <2>4. p \in PagesOfType(given, {"usable"})
    BY <1>1, <2>1, <2>3, InPagesOfType, ZenonT(30) DEF InGiven
  <2> QED BY <2>3, <2>4 DEF UsableMemory
<1> QED BY <1>8, <1>9, <1>10 DEF addr

\* PMM_init, when it gets as far as the bitmap: no assert fails, and the allocator
\* starts with the usable pages, without those of the bitmap.
LEMMA InitializedRight ==
    ASSUME MapDone, StartCandidates # {},
           NEW start, start = getBitmapStart,
           NEW n, n = mmap.lastUsablePage - start + 1,
           NEW n_pages, n_pages = getSizeAsPages(n), EarlyCandidates(n_pages) # {},
           NEW addr, addr = earlyAllocate(n_pages),
           NEW a, a = ClearedAllocator(n, start, getAllocatableBlocks),
           NEW final, final = TakenAllocator(a, addr - start, n_pages)
    PROVE  /\ ClearedAsserts(a) /\ FinalAssert(a, final, n_pages)
           /\ {final.start + p : p \in FreeBits(final.nBlocks, final.bitmap)}
                = UsableMemory \ (addr .. addr + n_pages - 1)
           /\ final.allocatedBlocks
                = final.allocatableBlocks - Cardinality(FreeBits(final.nBlocks, final.bitmap))
           /\ addr .. addr + n_pages - 1 \subseteq UsableMemory
           /\ bitmapLength(final.nBlocks) * WordBits
                <= Cardinality(addr .. addr + n_pages - 1) * BitsPerPage
<1> DEFINE total == getAllocatableBlocks  s == addr - start  e == s + n_pages
           pages == addr .. addr + n_pages - 1
<1>1. start \in Nat \ {0} /\ n \in Nat \ {0}
  BY StartManages
<1>2. total \in Nat /\ total < CounterMod
  BY TotalsFit
<1>3. n_pages \in Nat \ {0} /\ bitmapLength(n) * WordBits <= n_pages * BitsPerPage
  BY <1>1, StorageFits
<1>4. addr \in Nat /\ \A p \in pages : p \in UsableMemory
  BY <1>3, EarlyAllocated
<1>5. /\ a \in Clearing(n, start, total)
      /\ ClearedAsserts(a)
      /\ a.allocatedBlocks = a.allocatableBlocks - countFreeBlocks(n, a.bitmap)
      /\ countFreeBlocks(n, a.bitmap) <= total
      /\ \A p \in 0 .. n - 1 : ~IsSet(a.bitmap, p) <=> start + p \in UsableMemory
      /\ UsableMemory \subseteq start .. start + n - 1
  BY ClearedRight
<1>6. /\ a.nBlocks = n /\ a.start = start /\ a.allocatableBlocks = total
      /\ a.bitmap \in BitmapOf(n)
  BY <1>5 DEF Clearing
<1> DEFINE bm == setBits(n, a.bitmap, s, e)
           c == CountAfterSet(n, a.allocatedBlocks, s, e)
<1>7. /\ final.nBlocks = n /\ final.start = start /\ final.allocatableBlocks = total
      /\ final.bitmap = bm /\ final.allocatedBlocks = c
  <2>1. final = [a EXCEPT !.bitmap = bm, !.allocatedBlocks = c]
    <3>1. /\ setBits(a.nBlocks, a.bitmap, s, e) = bm
          /\ CountAfterSet(a.nBlocks, a.allocatedBlocks, s, e) = c
      BY <1>6, Zenon
    <3>2. final = [a EXCEPT !.bitmap = setBits(a.nBlocks, a.bitmap, s, e),
                            !.allocatedBlocks = CountAfterSet(a.nBlocks, a.allocatedBlocks, s, e)]
      BY Zenon DEF TakenAllocator
    <3> HIDE DEF bm, c, s, e
    <3> QED BY <3>1, <3>2, Zenon
  <2> HIDE DEF bm, c, total
  <2>2. a \in [nBlocks : {n}, start : {start}, allocatableBlocks : {total},
              allocatedBlocks : Int, bitmap : BitmapOf(n)]
    BY <1>5 DEF Clearing
  <2> DEFINE r == [a EXCEPT !.bitmap = bm, !.allocatedBlocks = c]
  <2>3. r.bitmap = bm /\ r.allocatedBlocks = c
    BY <2>2
  <2>4. r.nBlocks = a.nBlocks /\ r.start = a.start /\ r.allocatableBlocks = a.allocatableBlocks
    BY <2>2
  <2>5. final = r
    BY <2>1
  <2> HIDE DEF r
  <2> QED BY <1>6, <2>3, <2>4, <2>5, Zenon
<1> HIDE DEF total, pages
<1>8. s \in Nat /\ e \in Nat /\ s < e /\ e <= n
  <2>1. addr \in pages /\ addr + n_pages - 1 \in pages
    BY <1>3, <1>4 DEF pages
  <2>2. addr \in start .. start + n - 1 /\ addr + n_pages - 1 \in start .. start + n - 1
    BY <1>4, <1>5, <2>1, Zenon
  <2> QED BY <1>1, <1>3, <1>4, <2>2
<1>9. ASSUME NEW p \in 0 .. n - 1
      PROVE  p \in s .. e - 1 <=> start + p \in pages
  BY <1>1, <1>3, <1>4 DEF pages
<1>10. \A p \in s .. e - 1 : ~IsSet(a.bitmap, p)
  BY <1>4, <1>5, <1>8, <1>9
<1>11. /\ \A p \in 0 .. n - 1 : IsSet(bm, p) <=> IsSet(a.bitmap, p) \/ p \in s .. e - 1
       /\ countFreeBlocks(n, a.bitmap) = countFreeBlocks(n, bm) + (e - s)
  <2> HIDE DEF s, e
  <2> QED BY <1>1, <1>6, <1>8, <1>10, SetBitsExact, CountAfterSetting
<1>12. e - s = n_pages
  BY <1>1, <1>3, <1>4
<1> DEFINE f == countFreeBlocks(n, a.bitmap)  g == countFreeBlocks(n, bm)
<1>13. f \in Nat /\ g \in Nat /\ f = g + n_pages /\ f <= total
  <2> HIDE DEF bm
  <2> QED BY <1>1, <1>5, <1>11, <1>12, FreeBitsFinite
<1>14. FinalAssert(a, final, n_pages)
  <2>1. f - n_pages = g /\ g < CounterMod
    <3> HIDE DEF f, g
    <3> QED BY <1>2, <1>3, <1>13, CounterModAssumption
  <2>2. g % CounterMod = g
    <3> HIDE DEF f, g
    <3> QED BY <1>13, <2>1, CounterModAssumption
  <2> QED BY <1>6, <1>7, <2>1, <2>2 DEF FinalAssert
<1>15. final.allocatedBlocks = total - g
  <2>1. c = (a.allocatedBlocks + (e - s)) % CounterMod
    <3> HIDE DEF s, e
    <3> QED BY <1>8 DEF CountAfterSet, HasBits, ClampedEnd
  <2>2. a.allocatedBlocks = total - f
    BY <1>5, <1>6
  <2> HIDE DEF f, g, c
  <2>3. a.allocatedBlocks + (e - s) = total - g /\ total - g \in Nat /\ total - g < CounterMod
    BY <1>2, <1>3, <1>12, <1>13, <2>2, CounterModAssumption
  <2>4. (total - g) % CounterMod = total - g
    BY <2>3, CounterModAssumption
  <2> QED BY <1>7, <2>1, <2>3, <2>4
<1>16. {start + p : p \in FreeBits(n, bm)} = UsableMemory \ pages
  <2> HIDE DEF bm, s, e
  <2>1. \A p \in 0 .. n - 1 : p \in FreeBits(n, bm) <=> start + p \in UsableMemory \ pages
    BY <1>5, <1>9, <1>11 DEF FreeBits
  <2>2. FreeBits(n, bm) \subseteq 0 .. n - 1
    BY DEF FreeBits
  <2>3. ASSUME NEW q \in UsableMemory \ pages
        PROVE  q \in {start + p : p \in FreeBits(n, bm)}
    <3>1. q \in start .. start + n - 1
      BY <1>5, <2>3
    <3>2. q - start \in 0 .. n - 1 /\ start + (q - start) = q
      BY <1>1, <3>1
    <3>3. q - start \in FreeBits(n, bm)
      BY <2>1, <3>2
    <3> QED BY <3>2, <3>3
  <2> QED BY <2>1, <2>2, <2>3, Zenon
<1>17. IsFiniteSet(pages) /\ Cardinality(pages) = n_pages
  <2> DEFINE b == addr + n_pages - 1
  <2>1. addr \in Int /\ b \in Int /\ addr <= b /\ b - addr + 1 = n_pages
    BY <1>3, <1>4
  <2>2. pages = addr .. b
    BY DEF pages
  <2> HIDE DEF b
  <2> QED BY <2>1, <2>2, FS_Interval
<1>18. pages \subseteq UsableMemory
  BY <1>4
<1> HIDE DEF bm, c, s, e
<1> QED BY <1>3, <1>5, <1>7, <1>14, <1>15, <1>16, <1>17, <1>18 DEF pages, countFreeBlocks

-----------------------------------------------------------------------------
\* The condition on Limine's maps under which the boot is right: the first entry is
\* not the page at address 0 alone, which processLimineMemoryMap does not expect.
FirstEntryExpected ==
    \A lm \in LimineMaps : ~(lm[1].type = "usable" /\ lm[1].base = 0 /\ lm[1].length = 1)

\* The inductive invariant: what MMap_init did to the map is known, and the three
\* properties of PMM_init hold.
InitInv ==
    /\ given \in LimineMaps
    /\ pc = "MMap_init" => limine = given
    /\ pc \in {"PMM_init", "ready"} => MapDone
    /\ AssertsHold
    /\ PagesHandedOver
    /\ BitmapStorageSafe

\* MMap_init, from Limine's map: it panics, or leaves the map PMM_init expects.
LEMMA MMapInitKeeps ==
    ASSUME FirstEntryExpected, InitInv, MMap_init
    PROVE  InitInv'
<1>1. pc = "MMap_init" /\ limine = given /\ given \in LimineMaps
  BY DEF InitInv, MMap_init
<1>2. given' = given
  BY DEF MMap_init, Panic
<1>3. pc' \in {"panic_unsupported_type", "panic_no_usable_memory", "panic_map_too_big", "PMM_init"}
  BY DEF MMap_init, Panic
<1>4. CASE pc' = "PMM_init"
  <2>1. /\ IndicesOf(limine, KnownTypes) = DOMAIN limine
        /\ ProcessedCount(limine) < MMAP_MAX_ENTRIES
        /\ mmap' = [lastUsablePage |-> parseLimineMemoryMap(limine).lastUsablePage,
                    size           |-> ProcessedCount(limine),
                    entries        |-> copyIntoMemoryMap(SquashedMap(limine))]
        /\ limine' = WithoutFirstPage(SquashedMap(limine))
    BY <1>4 DEF MMap_init, Panic
  <2>2. AcceptedMap(given)
    <3>1. LimineMap(given)
      BY <1>1, LimineAssumption, Zenon
    <3>2. ~(given[1].type = "usable" /\ given[1].base = 0 /\ given[1].length = 1)
      BY <1>1, Zenon DEF FirstEntryExpected
    <3>3. IndicesOf(given, KnownTypes) = DOMAIN given
      BY <1>1, <2>1, Zenon
    <3> QED BY <3>1, <3>2, <3>3, Zenon DEF AcceptedMap
  <2>3. MapDone'
    BY <1>1, <1>2, <2>1, <2>2 DEF MapDone, Processed
  <2> QED BY <1>1, <1>2, <1>4, <2>3
          DEF InitInv, AssertsHold, PagesHandedOver, BitmapStorageSafe
<1>5. CASE pc' # "PMM_init"
  BY <1>1, <1>2, <1>3, <1>5 DEF InitInv, AssertsHold, PagesHandedOver, BitmapStorageSafe
<1> QED BY <1>4, <1>5

\* PMM_init, from the map MMap_init left: it panics, or ends with everything right.
LEMMA PMMInitKeeps ==
    ASSUME InitInv, PMM_init
    PROVE  InitInv'
<1>1. pc = "PMM_init" /\ MapDone /\ given \in LimineMaps
  BY DEF InitInv, PMM_init
<1>2. given' = given /\ limine' = limine /\ mmap' = mmap
  BY DEF PMM_init, InitializedFrom, Panic
<1>3. MapDone'
  BY <1>1, <1>2 DEF MapDone
<1>4. CASE pc' \in {"panic_nothing_to_manage", "panic_no_room_for_the_bitmap"}
  BY <1>1, <1>2, <1>4 DEF InitInv, AssertsHold, PagesHandedOver, BitmapStorageSafe
<1>5. CASE pc' \notin {"panic_nothing_to_manage", "panic_no_room_for_the_bitmap"}
  <2> DEFINE start == getBitmapStart
             n == mmap.lastUsablePage - start + 1
             n_pages == getSizeAsPages(n)
             addr == earlyAllocate(n_pages)
             a == ClearedAllocator(n, start, getAllocatableBlocks)
             final == TakenAllocator(a, addr - start, n_pages)
  <2>1. /\ StartCandidates # {} /\ EarlyCandidates(n_pages) # {}
        /\ allocator' = final
        /\ bitmapPages' = addr .. addr + n_pages - 1
        /\ pc' = IF ClearedAsserts(a) /\ FinalAssert(a, final, n_pages)
                   THEN "ready" ELSE "assert_failed"
    BY <1>5 DEF PMM_init, InitializedFrom, Panic
  <2>2. /\ ClearedAsserts(a) /\ FinalAssert(a, final, n_pages)
        /\ {final.start + p : p \in FreeBits(final.nBlocks, final.bitmap)}
             = UsableMemory \ (addr .. addr + n_pages - 1)
        /\ final.allocatedBlocks
             = final.allocatableBlocks - Cardinality(FreeBits(final.nBlocks, final.bitmap))
        /\ addr .. addr + n_pages - 1 \subseteq UsableMemory
        /\ bitmapLength(final.nBlocks) * WordBits
             <= Cardinality(addr .. addr + n_pages - 1) * BitsPerPage
    BY <1>1, <2>1, InitializedRight, ZenonT(30)
  <2>3. UsableMemory' = UsableMemory
    BY <1>2 DEF UsableMemory, PagesOfType, IndicesOf
  <2> HIDE DEF start, n, n_pages, addr, a, final
  <2>4. pc' = "ready"
    BY <2>1, <2>2
  <2>5. PagesHandedOver'
    BY <2>1, <2>2, <2>3 DEF PagesHandedOver
  <2>6. BitmapStorageSafe'
    BY <2>1, <2>2, <2>3 DEF BitmapStorageSafe
  <2> QED BY <1>1, <1>2, <1>3, <2>4, <2>5, <2>6 DEF InitInv, AssertsHold
<1> QED BY <1>4, <1>5

\* The invariant holds at every moment of the boot.
LEMMA InitInvHolds ==
    ASSUME FirstEntryExpected
    PROVE  Spec => []InitInv
<1>1. Init => InitInv
  BY DEF Init, InitInv, AssertsHold, PagesHandedOver, BitmapStorageSafe
<1>2. InitInv /\ [Next]_vars => InitInv'
  <2> SUFFICES ASSUME InitInv, [Next]_vars
               PROVE  InitInv'
    OBVIOUS
  <2>1. CASE MMap_init
    BY <2>1, MMapInitKeeps
  <2>2. CASE PMM_init
    BY <2>2, PMMInitKeeps
  <2>3. CASE UNCHANGED vars
    <3>1. /\ pc' = pc /\ given' = given /\ limine' = limine /\ mmap' = mmap
          /\ allocator' = allocator /\ bitmapPages' = bitmapPages
      BY <2>3 DEF vars
    <3>2. UsableMemory' = UsableMemory
      BY <3>1 DEF UsableMemory, PagesOfType, IndicesOf
    <3>3. MapDone' <=> MapDone
      BY <3>1, Zenon DEF MapDone
    <3>4. PagesHandedOver' <=> PagesHandedOver
      BY <3>1, <3>2, Zenon DEF PagesHandedOver
    <3>5. BitmapStorageSafe' <=> BitmapStorageSafe
      BY <3>1, <3>2, Zenon DEF BitmapStorageSafe
    <3>6. AssertsHold' <=> AssertsHold
      BY <3>1, Zenon DEF AssertsHold
    <3> QED BY <3>1, <3>3, <3>4, <3>5, <3>6 DEF InitInv
  <2> QED BY <2>1, <2>2, <2>3 DEF Next
<1> QED BY <1>1, <1>2, PTL DEF Spec

\* For every map Limine may pass, and every layout of the bitmap, the asserts of
\* initBitmap never fail.
THEOREM AssertsNeverFail ==
    ASSUME FirstEntryExpected
    PROVE  Spec => []AssertsHold
<1>1. InitInv => AssertsHold
  BY DEF InitInv
<1> QED BY <1>1, InitInvHolds, PTL

\* When PMM_init returns, exactly the usable pages that do not hold the bitmap are
\* free, and the counter agrees, whatever the map: the state PMM starts from.
THEOREM HandOverCorrect ==
    ASSUME FirstEntryExpected
    PROVE  Spec => []PagesHandedOver
<1>1. InitInv => PagesHandedOver
  BY DEF InitInv
<1> QED BY <1>1, InitInvHolds, PTL

\* The pages earlyAllocate takes for the bitmap are usable ones, never the page at
\* address 0, and hold all the words that PMM.c reads and writes.
THEOREM StorageCorrect ==
    ASSUME FirstEntryExpected
    PROVE  Spec => []BitmapStorageSafe
<1>1. InitInv => BitmapStorageSafe
  BY DEF InitInv
<1> QED BY <1>1, InitInvHolds, PTL

\* Merging juxtaposed entries, splitting off the page at address 0 and copying lose
\* and invent no page of any type, whatever the map.
THEOREM MapConserved ==
    ASSUME FirstEntryExpected
    PROVE  Spec => []PagesConserved
<1>1. InitInv => PagesConserved
  <2> SUFFICES ASSUME InitInv, pc \in {"PMM_init", "ready"},
                      NEW type \in KnownTypes \ {"bad", "reserved"}
               PROVE  UNION {e.address .. e.address + e.length - 1 :
                               e \in {Entries[i] : i \in {j \in DOMAIN Entries : Entries[j].type = type}}}
                        = PagesOfType(given, {type}) \ (IF type = "usable" THEN {0} ELSE {})
    BY DEF PagesConserved
  <2> DEFINE L == UNION {e.address .. e.address + e.length - 1 :
                           e \in {Entries[i] : i \in {j \in DOMAIN Entries : Entries[j].type = type}}}
             R == PagesOfType(given, {type}) \ (IF type = "usable" THEN {0} ELSE {})
             In(p) == \E i \in DOMAIN Entries :
                        /\ Entries[i].type = type /\ Entries[i].address <= p
                        /\ p < Entries[i].address + Entries[i].length
  <2>1. AcceptedMap(given) /\ Entries = copyIntoMemoryMap(SquashedMap(given)) /\ MapDone
    BY EntriesDone DEF InitInv, MapDone
  <2>2. \A i \in DOMAIN Entries : Entries[i].address \in Nat /\ Entries[i].length \in Nat
    BY <2>1, KernelEntry
  <2>3. \A p \in Int : In(p) <=> p \in R
    BY <2>1, KernelPages
  <2>4. R \subseteq Int
    BY <2>1, InPagesOfType, Zenon
  <2>5. ASSUME NEW p
        PROVE  p \in L <=> \E i \in DOMAIN Entries :
                             /\ Entries[i].type = type
                             /\ p \in Entries[i].address .. Entries[i].address + Entries[i].length - 1
    BY Zenon
  <2>6. ASSUME NEW p
        PROVE  p \in L <=> p \in Int /\ In(p)
    <3> HIDE DEF L
    <3> QED BY <2>2, <2>5
  <2> HIDE DEF L, R, In
  <2>7. ASSUME NEW p
        PROVE  p \in L <=> p \in R
    BY <2>3, <2>4, <2>6, Zenon
  <2>8. L = R
    BY <2>7, Zenon
  <2> QED BY <2>8, Zenon DEF L, R
<1> QED BY <1>1, InitInvHolds, PTL
=============================================================================
