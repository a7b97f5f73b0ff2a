------------------------------ MODULE PMMProofs ------------------------------
(***************************************************************************)
(* The page allocator keeps its invariants for every memory size, word     *)
(* width and set of usable pages, also when callers free short ranges they *)
(* do not hold; and it implements PageAllocator when the managed pages do  *)
(* not fill the last word of the bitmap.                                   *)
(***************************************************************************)
EXTENDS PMM, BitmapProofs

\* Seconds for a step, on a slow machine.
USE SMTT(30)

\* The inductive invariant: ownership shows that a found run is nobody's, that a
\* block given back is wholly allocated, and that the counter cannot wrap.
IInv == TypeOK /\ OwnershipExact /\ NoOverlap /\ AccountingExact

\* The bitmap's type, as the lemmas on the bitmap state it.
LEMMA BitmapType == TypeOK => bitmap \in BitmapOf(NBlocks)
BY DEF TypeOK, BitmapOf

\* The counter's arithmetic is exact below CounterMod.
LEMMA SmallMod ==
    ASSUME NEW x \in 0 .. CounterMod - 1
    PROVE  x % CounterMod = x
BY CounterModAssumption

\* Free pages that are all usable are at most AllocatableBlocks.
LEMMA FreePagesBound ==
    ASSUME NEW bm, FreeBits(NBlocks, bm) \subseteq Usable
    PROVE  countFreeBlocks(NBlocks, bm) \in 0 .. AllocatableBlocks
<1>1. IsFiniteSet(Usable)
  <2>1. IsFiniteSet(0 .. NBlocks - 1)
    BY FS_Interval, SizeAssumption
  <2> QED BY <2>1, FS_Subset, SizeAssumption, Zenon
<1>2. Cardinality(FreeBits(NBlocks, bm)) <= Cardinality(Usable)
  BY <1>1, FS_Subset
<1>3. Cardinality(Usable) \in Nat
  BY <1>1, FS_CardinalityType
<1>4. countFreeBlocks(NBlocks, bm) \in Nat
  BY FreeBitsFinite, SizeAssumption
<1> QED BY <1>2, <1>3, <1>4, CountAssumption DEF countFreeBlocks

\* What is known of a block a caller holds: the page numbers PMM_freePages
\* computes are those of the block, and they are all allocated.
LEMMA HeldBlock ==
    ASSUME IInv, NEW b \in blocks
    PROVE  /\ b.addr \in Nat /\ b.n \in Nat \ {0}
           /\ b.addr - Start \in 0 .. NBlocks - 1
           /\ b.addr - Start + b.n <= NBlocks
           /\ StartBit(b.addr) = b.addr - Start
           /\ \A p \in Pages(b) : IsSet(bitmap, p)
           /\ b = [addr |-> b.addr, n |-> b.n]
<1>1. b \in Block /\ b.n > 0 /\ Pages(b) \subseteq Usable
  BY DEF IInv, TypeOK, NoOverlap
<1>2. b.addr \in Nat /\ b.n \in Nat \ {0} /\ b = [addr |-> b.addr, n |-> b.n]
  BY <1>1 DEF Block
<1>3. Pages(b) \subseteq 0 .. NBlocks - 1
  BY <1>1, SizeAssumption, Zenon
<1>4. b.addr - Start \in Pages(b) /\ b.addr - Start + b.n - 1 \in Pages(b)
  BY <1>2, SizeAssumption DEF Pages
<1>5. b.addr - Start \in 0 .. NBlocks - 1 /\ b.addr - Start + b.n <= NBlocks
  BY <1>2, <1>3, <1>4, SizeAssumption
<1>6. StartBit(b.addr) = b.addr - Start
  BY <1>2, <1>5, SizeAssumption DEF StartBit
<1>7. \A p \in Pages(b) : IsSet(bitmap, p)
  BY <1>3 DEF IInv, OwnershipExact, Held
<1> QED BY <1>2, <1>5, <1>6, <1>7

-----------------------------------------------------------------------------
\* initBitmap leaves the allocator in a consistent state.
LEMMA InitIInv == Init => IInv
<1> SUFFICES ASSUME Init PROVE IInv
  OBVIOUS
<1>1. IsFiniteSet(Usable) /\ Cardinality(Usable) \in Nat
  <2>1. IsFiniteSet(0 .. NBlocks - 1)
    BY FS_Interval, SizeAssumption
  <2> QED BY <2>1, FS_Subset, FS_CardinalityType, SizeAssumption, Zenon
<1>2. TypeOK
  BY <1>1, CountAssumption, CounterModAssumption, WordBitsAssumption
     DEF Init, TypeOK, Return, Word, Block
<1>3. \A p \in 0 .. NBlocks - 1 : IsSet(bitmap, p) <=> p \notin Usable
  <2> SUFFICES ASSUME NEW p \in 0 .. NBlocks - 1
               PROVE  IsSet(bitmap, p) <=> p \notin Usable
    OBVIOUS
  <2>1. p \div WordBits \in 0 .. bitmapLength(NBlocks) - 1
    BY WordInBitmap, SizeAssumption
  <2>2. p % WordBits \in FullWord /\ p = (p \div WordBits) * WordBits + (p % WordBits)
    BY DivMod
  <2>3. bitmap[p \div WordBits] =
          {b \in FullWord : (p \div WordBits) * WordBits + b \notin Usable}
    BY <2>1 DEF Init
  <2> QED BY <2>2, <2>3 DEF IsSet
<1>4. OwnershipExact
  BY <1>3 DEF Init, OwnershipExact, Held
<1>5. NoOverlap
  BY DEF Init, NoOverlap
<1>6. FreeBits(NBlocks, bitmap) = Usable
  BY <1>3, SizeAssumption, Zenon DEF FreeBits
<1>7. AccountingExact
  BY <1>6 DEF Init, AccountingExact, countFreeBlocks
<1> QED BY <1>2, <1>4, <1>5, <1>7 DEF IInv

\* A call of PMM_allocatePages that finds pages keeps the invariant.
LEMMA AllocateFoundIInv ==
    ASSUME IInv, NEW n \in Nat, AllocateFound(n)
    PROVE  IInv'
<1>1. PICK s \in allocate_firstFit(NBlocks, bitmap, n) :
        /\ bitmap' = setBits(NBlocks, bitmap, s, s + n)
        /\ allocatedBlocks' = CountAfterSet(NBlocks, allocatedBlocks, s, s + n)
        /\ blocks' = blocks \cup {[addr |-> Start + s, n |-> n]}
        /\ ret' = [op |-> "alloc", n |-> n, addr |-> Start + s]
  BY DEF AllocateFound
<1>2. /\ s \in Nat /\ n > 0 /\ s + n <= NBlocks
      /\ \A p \in s .. s + n - 1 : ~IsSet(bitmap, p)
  BY FirstFitFree, SizeAssumption
<1> DEFINE new == [addr |-> Start + s, n |-> n]
<1>3. new \in Block /\ Pages(new) = s .. s + n - 1
  BY <1>2, SizeAssumption DEF Block, Pages
<1>4. bitmap \in BitmapOf(NBlocks) /\ bitmap' \in BitmapOf(NBlocks)
  BY <1>1, <1>2, BitmapType, SetBitsType, SizeAssumption DEF IInv
<1>5. \A p \in 0 .. NBlocks - 1 :
        IsSet(bitmap', p) <=> IsSet(bitmap, p) \/ p \in Pages(new)
  BY <1>1, <1>2, <1>3, <1>4, SetBitsExact, SizeAssumption
<1>6. \A p \in Pages(new) : p \in Usable /\ \A b \in blocks : p \notin Pages(b)
  <2>1. \A p \in Pages(new) : p \in 0 .. NBlocks - 1 /\ ~IsSet(bitmap, p)
    BY <1>2, <1>3, SizeAssumption
  <2> QED BY <2>1 DEF IInv, OwnershipExact, Held
<1> HIDE DEF new
<1>7. OwnershipExact'
  <2>1. \A p : Held(p)' <=> Held(p) \/ p \in Pages(new)
    BY <1>1, Zenon DEF Held, Pages, new
  <2> QED BY <1>5, <1>6, <2>1 DEF IInv, OwnershipExact
<1>8. NoOverlap'
  <2>1. blocks' = blocks \cup {new} /\ new.n > 0
    BY <1>1, <1>2 DEF new
  <2> QED BY <1>6, <2>1 DEF IInv, NoOverlap, Pages
<1>9. AccountingExact' /\ allocatedBlocks' \in 0 .. CounterMod - 1
  <2>1. countFreeBlocks(NBlocks, bitmap) = countFreeBlocks(NBlocks, bitmap') + n
    BY <1>1, <1>2, <1>4, CountAfterSetting, SizeAssumption
  <2>2. countFreeBlocks(NBlocks, bitmap') \in Nat
    BY FreeBitsFinite, SizeAssumption
  <2>3. countFreeBlocks(NBlocks, bitmap) \in 0 .. AllocatableBlocks
    <3>1. FreeBits(NBlocks, bitmap) \subseteq Usable
      BY DEF IInv, OwnershipExact, FreeBits
    <3> QED BY <3>1, FreePagesBound
  <2>4. allocatedBlocks' = (allocatedBlocks + n) % CounterMod
    BY <1>1, <1>2, SizeAssumption DEF CountAfterSet, HasBits, ClampedEnd
  <2>5. allocatedBlocks = AllocatableBlocks - countFreeBlocks(NBlocks, bitmap)
    BY DEF IInv, AccountingExact
  <2>6. allocatedBlocks' = AllocatableBlocks - countFreeBlocks(NBlocks, bitmap')
    BY <2>1, <2>2, <2>3, <2>4, <2>5, CountAssumption, CounterModAssumption
  <2> QED BY <2>1, <2>2, <2>3, <2>6, CountAssumption, CounterModAssumption
          DEF AccountingExact
<1>10. TypeOK'
  BY <1>1, <1>2, <1>3, <1>4, <1>9, SizeAssumption
     DEF IInv, TypeOK, BitmapOf, Return, new
<1> QED BY <1>7, <1>8, <1>9, <1>10 DEF IInv

\* Giving back a block keeps the invariant, and is accepted.
LEMMA FreeHeldIInv ==
    ASSUME IInv, NEW b \in blocks, PMM_freePages(b.addr, b.n)
    PROVE  IInv' /\ ret' = [op |-> "free", ok |-> TRUE] /\ blocks' = blocks \ {b}
<1> DEFINE s == b.addr - Start
           e == s + b.n
<1>1. /\ b.addr \in Nat /\ b.n \in Nat \ {0}
      /\ s \in 0 .. NBlocks - 1 /\ e <= NBlocks
      /\ StartBit(b.addr) = s
      /\ \A p \in Pages(b) : IsSet(bitmap, p)
      /\ b = [addr |-> b.addr, n |-> b.n]
  BY HeldBlock
<1>2. s \in Nat /\ e \in Nat /\ s < e /\ Pages(b) = s .. e - 1 /\ e = s + b.n
  BY <1>1, SizeAssumption DEF Pages
<1> HIDE DEF s, e
<1>3. isFullyAllocated(NBlocks, bitmap, s, e)
  <2>1. TestedBits(s, e) \subseteq s .. e - 1
    BY <1>2, TestedInRange
  <2> QED BY <1>1, <1>2, <2>1, SizeAssumption DEF isFullyAllocated
<1>4. /\ bitmap' = clearBits(NBlocks, bitmap, s, e)
      /\ allocatedBlocks' = CountAfterClear(NBlocks, allocatedBlocks, s, e)
      /\ ret' = [op |-> "free", ok |-> TRUE]
      /\ blocks' = blocks \ {b}
  BY <1>1, <1>2, <1>3 DEF PMM_freePages
<1>5. bitmap \in BitmapOf(NBlocks) /\ bitmap' \in BitmapOf(NBlocks)
  BY <1>2, <1>4, BitmapType, ClearBitsType, SizeAssumption DEF IInv
<1>6. \A p \in 0 .. NBlocks - 1 :
        IsSet(bitmap', p) <=> IsSet(bitmap, p) /\ p \notin Pages(b)
  BY <1>1, <1>2, <1>4, <1>5, ClearBitsExact, SizeAssumption
<1>7. OwnershipExact'
  <2>1. \A p : Held(p)' <=> Held(p) /\ p \notin Pages(b)
    BY <1>4 DEF Held, Pages, IInv, NoOverlap
  <2>2. Pages(b) \subseteq Usable
    BY DEF IInv, NoOverlap
  <2> QED BY <1>6, <2>1, <2>2 DEF IInv, OwnershipExact
<1>8. NoOverlap'
  BY <1>4 DEF IInv, NoOverlap, Pages
<1>9. AccountingExact' /\ allocatedBlocks' \in 0 .. CounterMod - 1
  <2>1. countFreeBlocks(NBlocks, bitmap') = countFreeBlocks(NBlocks, bitmap) + (e - s)
    BY <1>1, <1>2, <1>4, <1>5, CountAfterClearing, SizeAssumption
  <2>2. countFreeBlocks(NBlocks, bitmap) \in Nat
    BY FreeBitsFinite, SizeAssumption
  <2>3. countFreeBlocks(NBlocks, bitmap') \in 0 .. AllocatableBlocks
    <3>1. FreeBits(NBlocks, bitmap') \subseteq Usable
      BY <1>7 DEF OwnershipExact, FreeBits
    <3> QED BY <3>1, FreePagesBound
  <2>4. allocatedBlocks' = (allocatedBlocks - (e - s)) % CounterMod
    BY <1>1, <1>2, <1>4, SizeAssumption DEF CountAfterClear, HasBits, ClampedEnd
  <2>5. allocatedBlocks = AllocatableBlocks - countFreeBlocks(NBlocks, bitmap)
    BY DEF IInv, AccountingExact
  <2>6. allocatedBlocks' = AllocatableBlocks - countFreeBlocks(NBlocks, bitmap')
    <3> DEFINE x == allocatedBlocks - (e - s)
    <3>1. x = AllocatableBlocks - countFreeBlocks(NBlocks, bitmap')
      BY <1>2, <2>1, <2>2, <2>5, CountAssumption
    <3>2. x \in 0 .. CounterMod - 1
      BY <2>3, <3>1, CountAssumption, CounterModAssumption
    <3> HIDE DEF x
    <3>3. x % CounterMod = x
      BY <3>2, SmallMod
    <3> QED BY <2>4, <3>1, <3>3 DEF x
  <2> QED BY <2>3, <2>6, CountAssumption, CounterModAssumption DEF AccountingExact
<1>10. TypeOK'
  BY <1>4, <1>5, <1>9 DEF IInv, TypeOK, BitmapOf, Return
<1> QED BY <1>4, <1>7, <1>8, <1>9, <1>10 DEF IInv

\* A call that changes nothing but what it returns keeps the invariant.
LEMMA UnchangedIInv ==
    ASSUME IInv, UNCHANGED <<bitmap, allocatedBlocks, blocks>>, ret' \in Return
    PROVE  IInv'
BY DEF IInv, TypeOK, OwnershipExact, Held, NoOverlap, AccountingExact, Pages

\* A bogus free of less than a word of pages is detected.
LEMMA ShortBogusFree ==
    ASSUME MisusePages < WordBits, IInv,
           NEW addr \in 0 .. Start + NBlocks, NEW n \in 0 .. MisusePages,
           BogusFree(addr, n)
    PROVE  /\ ret' = [op |-> "free", ok |-> FALSE]
           /\ UNCHANGED <<bitmap, allocatedBlocks, blocks>>
<1> DEFINE s == StartBit(addr)
           e == s + n
<1>1. /\ addr \in Nat /\ n \in Nat /\ n < WordBits
  BY SizeAssumption, WordBitsAssumption
<1>2. s \in Nat /\ (addr >= Start => s = addr - Start) /\ (addr < Start => s >= NBlocks)
  BY <1>1, SizeAssumption DEF StartBit
<1>3. ASSUME isFullyAllocated(NBlocks, bitmap, s, e) PROVE FALSE
  <2>1. s < e /\ s < NBlocks /\ e <= NBlocks
    BY <1>3 DEF isFullyAllocated
  <2>2. addr >= Start /\ s = addr - Start
    BY <1>1, <1>2, <2>1, SizeAssumption
  <2>3. s .. e - 1 \subseteq TestedBits(s, e)
    BY <1>1, <1>2, <2>1, ShortRangeTested, WordBitsAssumption
  <2>4. \A p \in s .. e - 1 : IsSet(bitmap, p)
    BY <1>3, <2>3 DEF isFullyAllocated
  <2>5. n # 0
    BY <1>1, <1>2, <2>1
  <2>6. PICK p \in addr .. addr + n - 1 : ~Allocated(p - Start)
    BY <2>5 DEF BogusFree
  <2>7. p - Start \in s .. e - 1 /\ p - Start \in 0 .. NBlocks - 1
    BY <1>1, <1>2, <2>1, <2>2, <2>6, SizeAssumption
  <2> QED BY <2>4, <2>6, <2>7 DEF Allocated
<1>4. blocks \ {[addr |-> addr, n |-> n]} = blocks
  BY DEF BogusFree
<1> QED BY <1>3, <1>4 DEF BogusFree, PMM_freePages

-----------------------------------------------------------------------------
\* Correct callers alone keep the invariant.
LEMMA CorrectNextIInv == IInv /\ [Next]_vars => IInv'
<1> SUFFICES ASSUME IInv, [Next]_vars
             PROVE  IInv'
  OBVIOUS
<1>1. ASSUME NEW n \in 0 .. MaxPages, PMM_allocatePages(n)
      PROVE  IInv'
  <2>1. n \in Nat
    BY SizeAssumption
  <2>2. CASE AllocateFound(n)
    BY <2>1, <2>2, AllocateFoundIInv
  <2>3. CASE AllocateNull(n)
    <3>1. ret' \in Return
      BY <2>1, <2>3 DEF AllocateNull, Return, NULL
    <3> QED BY <2>3, <3>1, UnchangedIInv DEF AllocateNull
  <2> QED BY <1>1, <2>2, <2>3 DEF PMM_allocatePages
<1>2. ASSUME NEW b \in blocks, PMM_freePages(b.addr, b.n)
      PROVE  IInv'
  BY <1>2, FreeHeldIInv
<1>3. CASE UNCHANGED vars
  BY <1>3, UnchangedIInv DEF vars, IInv, TypeOK
<1> QED BY <1>1, <1>2, <1>3 DEF Next

\* So does every call, correct or a short bogus free.
LEMMA NextIInv ==
    ASSUME MisusePages < WordBits
    PROVE  IInv /\ [NextMisuse]_vars => IInv'
<1> SUFFICES ASSUME IInv, NextMisuse
             PROVE  IInv'
  BY CorrectNextIInv
<1>1. ASSUME NEW addr \in 0 .. Start + NBlocks, NEW n \in 0 .. MisusePages,
             BogusFree(addr, n)
      PROVE  IInv'
  <2>1. ret' = [op |-> "free", ok |-> FALSE]
          /\ UNCHANGED <<bitmap, allocatedBlocks, blocks>>
    BY <1>1, ShortBogusFree
  <2>2. ret' \in Return
    BY <2>1 DEF Return
  <2> QED BY <2>1, <2>2, UnchangedIInv
<1> QED BY <1>1, CorrectNextIInv DEF NextMisuse

\* With correct callers, the bitmap matches what they hold, no page is handed out
\* twice and the counter is exact: for every memory and every word width.
THEOREM Safety ==
    Spec => [](TypeOK /\ OwnershipExact /\ NoOverlap /\ AccountingExact)
<1>1. Init => IInv
  BY InitIInv
<1>2. IInv /\ [Next]_vars => IInv'
  BY CorrectNextIInv
<1>3. IInv => TypeOK /\ OwnershipExact /\ NoOverlap /\ AccountingExact
  BY DEF IInv
<1> QED BY <1>1, <1>2, <1>3, PTL DEF Spec

\* The same holds when callers may also free short ranges they do not hold.
THEOREM MisuseSafety ==
    ASSUME MisusePages < WordBits
    PROVE  SpecMisuse => [](TypeOK /\ OwnershipExact /\ NoOverlap /\ AccountingExact)
<1>1. Init => IInv
  BY InitIInv
<1>2. IInv /\ [NextMisuse]_vars => IInv'
  BY NextIInv
<1>3. IInv => TypeOK /\ OwnershipExact /\ NoOverlap /\ AccountingExact
  BY DEF IInv
<1> QED BY <1>1, <1>2, <1>3, PTL DEF SpecMisuse

\* The bitmap has its words, the counter its width and the blocks their pages,
\* whatever is allocated and freed.
THEOREM TypeCorrect ==
    ASSUME MisusePages < WordBits
    PROVE  SpecMisuse => []TypeOK
BY MisuseSafety, PTL

\* The counter that setBits and clearBits keep agrees with the bitmap after every call,
\* short bogus frees included.
THEOREM CounterExact ==
    ASSUME MisusePages < WordBits
    PROVE  SpecMisuse => []AccountingExact
BY MisuseSafety, PTL

\* PMM_freePages detects every bogus free of less than a word of pages.
THEOREM ShortBogusFreeDetected ==
    ASSUME MisusePages < WordBits
    PROVE  SpecMisuse => BogusFreeDetected
<1> DEFINE Detected ==
      \A addr \in 0 .. Start + NBlocks, n \in 0 .. MisusePages :
         BogusFree(addr, n) =>
           /\ ret' = [op |-> "free", ok |-> FALSE]
           /\ UNCHANGED <<bitmap, allocatedBlocks, blocks>>
<1>1. Init => IInv
  BY InitIInv
<1>2. IInv /\ [NextMisuse]_vars => IInv'
  BY NextIInv
<1>3. IInv /\ [NextMisuse]_vars => [Detected]_vars
  BY ShortBogusFree
<1>4. SpecMisuse => [][Detected]_vars
  BY <1>1, <1>2, <1>3, PTL DEF SpecMisuse
<1> QED BY <1>4 DEF BogusFreeDetected

-----------------------------------------------------------------------------
\* A page is free in the sense of PageAllocator when its bit is clear.
LEMMA FreeRunIsClear ==
    ASSUME IInv, NEW s \in Nat, NEW n \in Nat, s + n <= NBlocks
    PROVE  PA!FreeRun(blocks, s, n) <=> \A p \in s .. s + n - 1 : ~IsSet(bitmap, p)
<1>1. \A p \in s .. s + n - 1 : p \in 0 .. NBlocks - 1
  BY SizeAssumption
<1> QED BY <1>1 DEF IInv, OwnershipExact, Held, PA!FreeRun, PA!Pages, Pages

\* One step of the bitmap allocator is one of PageAllocator.
LEMMA StepRefines ==
    ASSUME NBlocks % WordBits # 0, MisusePages < WordBits, IInv, NextMisuse
    PROVE  PA!Next
<1>1. ASSUME NEW n \in 0 .. MaxPages, AllocateFound(n)
      PROVE  PA!Allocate(n)
  <2>1. n \in Nat
    BY SizeAssumption
  <2>2. PICK s \in allocate_firstFit(NBlocks, bitmap, n) :
          /\ blocks' = blocks \cup {[addr |-> Start + s, n |-> n]}
          /\ ret' = [op |-> "alloc", n |-> n, addr |-> Start + s]
    BY <1>1 DEF AllocateFound
  <2>3. /\ s \in Nat /\ n > 0 /\ s + n <= NBlocks
        /\ \A p \in s .. s + n - 1 : ~IsSet(bitmap, p)
    BY <2>1, FirstFitFree, SizeAssumption
  <2>4. PA!FreeRun(blocks, s, n) /\ s \in 0 .. NBlocks - n
    BY <2>1, <2>3, FreeRunIsClear, SizeAssumption
  <2> QED BY <2>2, <2>3, <2>4 DEF PA!Allocate
<1>2. ASSUME NEW n \in 0 .. MaxPages, AllocateNull(n)
      PROVE  PA!OutOfMemory(n)
  <2>1. n \in Nat
    BY SizeAssumption
  <2>2. ASSUME n # 0, NEW s \in 0 .. NBlocks - n, PA!FreeRun(blocks, s, n)
        PROVE  FALSE
    <3>1. s \in Nat /\ s + n <= NBlocks
      BY <2>1, <2>2, SizeAssumption
    <3>2. \A p \in s .. s + n - 1 : ~IsSet(bitmap, p)
      BY <2>1, <2>2, <3>1, FreeRunIsClear
    <3>3. s + n \in n .. ScanLimit(NBlocks) /\ (s + n) - n = s
      BY <2>1, <3>1, ScanBounds, SizeAssumption
    <3>4. s + n \in RunEnds(NBlocks, bitmap, n)
      BY <2>2, <3>2, <3>3 DEF RunEnds
    <3> QED BY <1>2, <3>4 DEF AllocateNull
  <2> QED BY <1>2, <2>2 DEF AllocateNull, PA!OutOfMemory, NULL, PA!NULL
<1>3. ASSUME NEW b \in blocks, PMM_freePages(b.addr, b.n)
      PROVE  PA!Release(b)
  BY <1>3, FreeHeldIInv DEF PA!Release
<1>4. ASSUME NEW addr \in 0 .. Start + NBlocks, NEW n \in 0 .. MisusePages,
             BogusFree(addr, n)
      PROVE  PA!Reject
  BY <1>4, ShortBogusFree DEF PA!Reject
<1> QED BY <1>1, <1>2, <1>3, <1>4 DEF NextMisuse, Next, PMM_allocatePages, PA!Next

\* The bitmap allocator implements PageAllocator for every memory whose pages
\* do not fill the last word of the bitmap, and for every caller whose bogus frees
\* are shorter than a word.
THEOREM Refinement ==
    ASSUME NBlocks % WordBits # 0, MisusePages < WordBits
    PROVE  SpecMisuse => ImplementsPageAllocator
<1>1. Init => IInv /\ PA!Init
  BY InitIInv DEF Init, PA!Init
<1>2. IInv /\ [NextMisuse]_vars => IInv'
  BY NextIInv
<1>3. IInv /\ [NextMisuse]_vars => [PA!Next]_PA!vars
  BY StepRefines DEF vars, PA!vars
<1>4. SpecMisuse => PA!Spec
  BY <1>1, <1>2, <1>3, PTL DEF SpecMisuse, PA!Spec
<1> QED BY <1>4 DEF ImplementsPageAllocator
=============================================================================
