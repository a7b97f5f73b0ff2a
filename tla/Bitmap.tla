------------------------------- MODULE Bitmap -------------------------------
(***************************************************************************)
(* The bitmap of the physical memory manager (Kernel/Memory/PMM.c): one    *)
(* bit per page, packed in machine words, most significant bit first.  A   *)
(* word is the set of the positions of its set bits, position 0 being the  *)
(* most significant one, so that & and | are \cap and \cup and a mask is a *)
(* set of positions.                                                       *)
(***************************************************************************)
EXTENDS Integers, FiniteSets

CONSTANTS
    WordBits,   \* bits of a bitmap word (64 in the code)
    CounterMod  \* allocatedBlocks is a uint64_t: arithmetic is modulo this

ASSUME WordBitsAssumption == WordBits \in Nat \ {0}
ASSUME CounterModAssumption == CounterMod \in Nat \ {0}

\* 0xffffffffffffffff
FullWord == 0 .. WordBits - 1

Word == SUBSET FullWord

\* (n + 63) / 64 words hold n bits
bitmapLength(n) == (n + WordBits - 1) \div WordBits

\* Bit p of the bitmap bm: the page is allocated (or not usable at all).
IsSet(bm, p) == p % WordBits \in bm[p \div WordBits]

\* setBits' masks: from a position on, and before a position.
StartMask(k) == {b \in FullWord : b >= k}

EndMask(k) == {b \in FullWord : b < k}

\* The early returns of setBits and clearBits, and the clamp of end_bit.
HasBits(n, start_bit, end_bit) == start_bit < end_bit /\ start_bit < n

ClampedEnd(n, end_bit) == IF end_bit > n THEN n ELSE end_bit

\* Mutant: a range within one word is set up to the end of the word.
setWords_WholeLastWord(bm, start_bit, end_bit) ==
    LET si == start_bit \div WordBits
        ei == end_bit \div WordBits
    IN  [i \in DOMAIN bm |->
           CASE i = si /\ i = ei -> bm[i] \cup StartMask(start_bit % WordBits)
             [] i = si /\ i # ei -> bm[i] \cup StartMask(start_bit % WordBits)
             [] si < i /\ i < ei -> FullWord
             [] i = ei /\ si < i -> bm[i] \cup EndMask(end_bit % WordBits)
             [] OTHER            -> bm[i]]

\* The word updates of setBits: first word, words in between, last word.
setWords(bm, start_bit, end_bit) ==
    LET si == start_bit \div WordBits
        ei == end_bit \div WordBits
        startMask == StartMask(start_bit % WordBits)
        endMask == EndMask(end_bit % WordBits)
    IN  [i \in DOMAIN bm |->
           CASE i = si /\ i = ei -> bm[i] \cup (startMask \cap endMask)
             [] i = si /\ i # ei -> bm[i] \cup startMask
             [] si < i /\ i < ei -> FullWord
             [] i = ei /\ si < i -> bm[i] \cup endMask
             [] OTHER            -> bm[i]]

\* The word updates of clearBits.
clearWords(bm, start_bit, end_bit) ==
    LET si == start_bit \div WordBits
        ei == end_bit \div WordBits
        startMask == FullWord \ StartMask(start_bit % WordBits)
        endMask == FullWord \ EndMask(end_bit % WordBits)
    IN  [i \in DOMAIN bm |->
           CASE i = si /\ i = ei -> bm[i] \cap (startMask \cup endMask)
             [] i = si /\ i # ei -> bm[i] \cap startMask
             [] si < i /\ i < ei -> {}
             [] i = ei /\ si < i -> bm[i] \cap endMask
             [] OTHER            -> bm[i]]

setBits(n, bm, start_bit, end_bit) ==
    IF HasBits(n, start_bit, end_bit)
      THEN setWords(bm, start_bit, ClampedEnd(n, end_bit))
      ELSE bm

clearBits(n, bm, start_bit, end_bit) ==
    IF HasBits(n, start_bit, end_bit)
      THEN clearWords(bm, start_bit, ClampedEnd(n, end_bit))
      ELSE bm

\* allocatedBlocks += end_bit - start_bit, after the early returns
CountAfterSet(n, count, start_bit, end_bit) ==
    IF HasBits(n, start_bit, end_bit)
      THEN (count + (ClampedEnd(n, end_bit) - start_bit)) % CounterMod
      ELSE count

\* allocatedBlocks -= end_bit - start_bit, after the early returns
CountAfterClear(n, count, start_bit, end_bit) ==
    IF HasBits(n, start_bit, end_bit)
      THEN (count - (ClampedEnd(n, end_bit) - start_bit)) % CounterMod
      ELSE count

(***************************************************************************)
(* isFullyAllocated.  Its loops test the bits of the only word, or the     *)
(* tail of the first word when the range starts inside it, the words up to *)
(* but not including end_index - 1, and the head of the last word.         *)
(***************************************************************************)
TestedBits(start_bit, end_bit) ==
    LET si == start_bit \div WordBits
        ei == end_bit \div WordBits
        firstWhole == IF start_bit % WordBits = 0 THEN si ELSE si + 1
    IN  IF si = ei
          THEN start_bit .. end_bit - 1
          ELSE start_bit .. firstWhole * WordBits - 1
               \cup firstWhole * WordBits .. (ei - 1) * WordBits - 1
               \cup ei * WordBits .. end_bit - 1

isFullyAllocated(n, bm, start_bit, end_bit) ==
    /\ start_bit < end_bit
    /\ start_bit < n
    /\ end_bit <= n
    /\ \A p \in TestedBits(start_bit, end_bit) : IsSet(bm, p)

(***************************************************************************)
(* allocate_firstFit scans the words but the last one, then the n % 64     *)
(* first bits of the last one, counting consecutive free bits; it stops at *)
(* the first bit that ends a run of n_pages of them.                       *)
(***************************************************************************)
ScanLimit(n) == (bitmapLength(n) - 1) * WordBits + (n % WordBits)

\* Mutant: a set bit does not start the count of consecutive free bits again.
RunEnds_NoReset(n, bm, n_pages) ==
    {e \in n_pages .. ScanLimit(n) :
       n_pages > 0 /\ Cardinality({p \in 0 .. e - 1 : ~IsSet(bm, p)}) >= n_pages}

RunEnds(n, bm, n_pages) ==
    IF n_pages = 0
      THEN {}
      ELSE {e \in n_pages .. ScanLimit(n) :
              \A p \in e - n_pages .. e - 1 : ~IsSet(bm, p)}

allocate_firstFit(n, bm, n_pages) ==
    {e - n_pages : e \in {r \in RunEnds(n, bm, n_pages) :
                            \A q \in RunEnds(n, bm, n_pages) : r <= q}}

FreeBits(n, bm) == {p \in 0 .. n - 1 : ~IsSet(bm, p)}

countFreeBlocks(n, bm) == Cardinality(FreeBits(n, bm))
=============================================================================
