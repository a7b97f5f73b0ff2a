---------------------------- MODULE BitmapProofs ----------------------------
(***************************************************************************)
(* What the word-level operations of the bitmap do to single bits, for     *)
(* every word width and every number of pages.                             *)
(***************************************************************************)
EXTENDS Bitmap, FiniteSetTheorems, TLAPS

\* Seconds for a step, on a slow machine.
USE SMTT(30)

\* A bit number is a word index and a position in that word.
LEMMA DivMod ==
    ASSUME NEW p \in Nat
    PROVE  /\ p \div WordBits \in Nat
           /\ p % WordBits \in FullWord
           /\ p = (p \div WordBits) * WordBits + (p % WordBits)
BY WordBitsAssumption DEF FullWord

\* Words do not overlap: the first bit of a later word is past the earlier one.
LEMMA MulMono ==
    ASSUME NEW a \in Nat, NEW b \in Nat, a < b
    PROVE  a * WordBits + WordBits <= b * WordBits
BY WordBitsAssumption, Z3

\* Bits are ordered by word, then by position in the word.
LEMMA BitOrder ==
    ASSUME NEW p \in Nat, NEW q \in Nat
    PROVE  p < q <=> \/ p \div WordBits < q \div WordBits
                     \/ /\ p \div WordBits = q \div WordBits
                        /\ p % WordBits < q % WordBits
<1> DEFINE pi == p \div WordBits  pr == p % WordBits
           qi == q \div WordBits  qr == q % WordBits
<1>1. /\ pi \in Nat /\ qi \in Nat /\ pr \in 0 .. WordBits - 1 /\ qr \in 0 .. WordBits - 1
      /\ p = pi * WordBits + pr /\ q = qi * WordBits + qr
  BY DivMod DEF FullWord
<1> HIDE DEF pi, pr, qi, qr
<1>2. ASSUME pi < qi PROVE p < q
  BY <1>1, <1>2, MulMono, WordBitsAssumption
<1>3. ASSUME qi < pi PROVE q < p
  BY <1>1, <1>3, MulMono, WordBitsAssumption
<1>4. ASSUME pi = qi PROVE p < q <=> pr < qr
  BY <1>1, <1>4, WordBitsAssumption
<1>5. p < q <=> pi < qi \/ (pi = qi /\ pr < qr)
  BY <1>1, <1>2, <1>3, <1>4
<1> QED BY <1>5 DEF pi, pr, qi, qr

\* The pages of a bitmap have a word to live in.
LEMMA WordInBitmap ==
    ASSUME NEW n \in Nat \ {0}, NEW p \in 0 .. n - 1
    PROVE  p \div WordBits \in 0 .. bitmapLength(n) - 1
<1> DEFINE m == n + WordBits - 1
<1>1. m \in Nat /\ p \in Nat /\ p + WordBits \in Nat /\ p + WordBits <= m
  BY WordBitsAssumption
<1>2. /\ p \div WordBits \in Nat
      /\ p % WordBits \in 0 .. WordBits - 1
      /\ p = (p \div WordBits) * WordBits + (p % WordBits)
      /\ m \div WordBits \in Nat
      /\ m % WordBits \in 0 .. WordBits - 1
      /\ m = (m \div WordBits) * WordBits + (m % WordBits)
  BY <1>1, DivMod DEF FullWord
<1> HIDE DEF m
<1>3. SUFFICES ASSUME m \div WordBits <= p \div WordBits
               PROVE  FALSE
  BY <1>2 DEF bitmapLength, m
<1>4. (m \div WordBits) * WordBits <= (p \div WordBits) * WordBits
  BY <1>2, <1>3, MulMono, WordBitsAssumption
<1> QED BY <1>1, <1>2, <1>4, WordBitsAssumption

BitmapOf(n) == [0 .. bitmapLength(n) - 1 -> Word]

\* setBits keeps the shape of the bitmap.
LEMMA SetBitsType ==
    ASSUME NEW n \in Nat \ {0}, NEW bm \in BitmapOf(n), NEW s \in Nat, NEW e \in Nat
    PROVE  setBits(n, bm, s, e) \in BitmapOf(n)
BY DEF setBits, setWords, BitmapOf, Word, StartMask, EndMask, FullWord

\* clearBits keeps the shape of the bitmap.
LEMMA ClearBitsType ==
    ASSUME NEW n \in Nat \ {0}, NEW bm \in BitmapOf(n), NEW s \in Nat, NEW e \in Nat
    PROVE  clearBits(n, bm, s, e) \in BitmapOf(n)
BY DEF clearBits, clearWords, BitmapOf, Word, StartMask, EndMask, FullWord

\* setBits sets the bits of start_bit .. end_bit - 1 and no others.
LEMMA SetBitsExact ==
    ASSUME NEW n \in Nat \ {0}, NEW bm \in BitmapOf(n),
           NEW s \in Nat, NEW e \in Nat, s < e, e <= n, NEW p \in 0 .. n - 1
    PROVE  IsSet(setBits(n, bm, s, e), p) <=> IsSet(bm, p) \/ p \in s .. e - 1
<1> DEFINE pi == p \div WordBits  pr == p % WordBits
           si == s \div WordBits  sr == s % WordBits
           ei == e \div WordBits  er == e % WordBits
<1>1. /\ pi \in Nat /\ si \in Nat /\ ei \in Nat
      /\ pr \in FullWord /\ sr \in FullWord /\ er \in FullWord
  BY DivMod
<1>2. pi \in DOMAIN bm
  BY WordInBitmap DEF BitmapOf
<1>3. p < s <=> pi < si \/ (pi = si /\ pr < sr)
  BY BitOrder
<1>4. p < e <=> pi < ei \/ (pi = ei /\ pr < er)
  BY BitOrder
<1>5. si < ei \/ (si = ei /\ sr < er)
  BY BitOrder
<1>6. setBits(n, bm, s, e) = setWords(bm, s, e)
  BY DEF setBits, HasBits, ClampedEnd
<1> DEFINE w == setWords(bm, s, e)[pi]
<1>7. w = CASE pi = si /\ pi = ei -> bm[pi] \cup (StartMask(sr) \cap EndMask(er))
            [] pi = si /\ pi # ei -> bm[pi] \cup StartMask(sr)
            [] si < pi /\ pi < ei -> FullWord
            [] pi = ei /\ si < pi -> bm[pi] \cup EndMask(er)
            [] OTHER              -> bm[pi]
  BY <1>2 DEF setWords
<1> HIDE DEF w, pi, pr, si, sr, ei, er
<1>8. pr \in w <=> pr \in bm[pi] \/ (~(p < s) /\ p < e)
  BY <1>1, <1>3, <1>4, <1>5, <1>7 DEF StartMask, EndMask, FullWord
<1> QED BY <1>6, <1>8 DEF IsSet, w, pi, pr

\* clearBits clears the bits of start_bit .. end_bit - 1 and no others.
LEMMA ClearBitsExact ==
    ASSUME NEW n \in Nat \ {0}, NEW bm \in BitmapOf(n),
           NEW s \in Nat, NEW e \in Nat, s < e, e <= n, NEW p \in 0 .. n - 1
    PROVE  IsSet(clearBits(n, bm, s, e), p) <=> IsSet(bm, p) /\ p \notin s .. e - 1
<1> DEFINE pi == p \div WordBits  pr == p % WordBits
           si == s \div WordBits  sr == s % WordBits
           ei == e \div WordBits  er == e % WordBits
<1>1. /\ pi \in Nat /\ si \in Nat /\ ei \in Nat
      /\ pr \in FullWord /\ sr \in FullWord /\ er \in FullWord
  BY DivMod
<1>2. pi \in DOMAIN bm
  BY WordInBitmap DEF BitmapOf
<1>3. p < s <=> pi < si \/ (pi = si /\ pr < sr)
  BY BitOrder
<1>4. p < e <=> pi < ei \/ (pi = ei /\ pr < er)
  BY BitOrder
<1>5. si < ei \/ (si = ei /\ sr < er)
  BY BitOrder
<1>6. clearBits(n, bm, s, e) = clearWords(bm, s, e)
  BY DEF clearBits, HasBits, ClampedEnd
<1> DEFINE w == clearWords(bm, s, e)[pi]
           notStart == FullWord \ StartMask(sr)
           notEnd == FullWord \ EndMask(er)
<1>7. w = CASE pi = si /\ pi = ei -> bm[pi] \cap (notStart \cup notEnd)
            [] pi = si /\ pi # ei -> bm[pi] \cap notStart
            [] si < pi /\ pi < ei -> {}
            [] pi = ei /\ si < pi -> bm[pi] \cap notEnd
            [] OTHER              -> bm[pi]
  BY <1>2 DEF clearWords
<1> HIDE DEF w, pi, pr, si, sr, ei, er
<1>8. pr \in w <=> pr \in bm[pi] /\ ~(~(p < s) /\ p < e)
  BY <1>1, <1>3, <1>4, <1>5, <1>7 DEF StartMask, EndMask, FullWord
<1> QED BY <1>6, <1>8 DEF IsSet, w, pi, pr

-----------------------------------------------------------------------------
\* The pages countFreeBlocks counts are finitely many.
LEMMA FreeBitsFinite ==
    ASSUME NEW n \in Nat \ {0}, NEW bm
    PROVE  /\ IsFiniteSet(FreeBits(n, bm))
           /\ countFreeBlocks(n, bm) \in Nat
<1>1. IsFiniteSet(0 .. n - 1)
  BY FS_Interval
<1>2. FreeBits(n, bm) \in SUBSET (0 .. n - 1)
  BY DEF FreeBits
<1>3. IsFiniteSet(FreeBits(n, bm))
  BY <1>1, <1>2, FS_Subset
<1> QED BY <1>3, FS_CardinalityType DEF countFreeBlocks

\* Two disjoint finite sets: their sizes add up.
LEMMA DisjointSum ==
    ASSUME NEW S, NEW T, IsFiniteSet(S), IsFiniteSet(T), S \cap T = {}
    PROVE  Cardinality(S \cup T) = Cardinality(S) + Cardinality(T)
<1>1. Cardinality(S) \in Nat /\ Cardinality(T) \in Nat
  BY FS_CardinalityType
<1>2. Cardinality(S \cup T) = Cardinality(S) + Cardinality(T) - Cardinality(S \cap T)
  BY FS_Union
<1>3. Cardinality(S \cap T) = 0
  BY FS_EmptySet
<1> QED BY <1>1, <1>2, <1>3

\* clearBits on set bits adds as many free blocks as the range has.
LEMMA CountAfterClearing ==
    ASSUME NEW n \in Nat \ {0}, NEW bm \in BitmapOf(n),
           NEW s \in Nat, NEW e \in Nat, s < e, e <= n,
           \A p \in s .. e - 1 : IsSet(bm, p)
    PROVE  countFreeBlocks(n, clearBits(n, bm, s, e)) = countFreeBlocks(n, bm) + (e - s)
<1> DEFINE bmc == clearBits(n, bm, s, e)
<1>1. \A p \in 0 .. n - 1 : IsSet(bmc, p) <=> IsSet(bm, p) /\ p \notin s .. e - 1
  BY ClearBitsExact
<1> HIDE DEF bmc
<1>2. FreeBits(n, bmc) = FreeBits(n, bm) \cup s .. e - 1
  BY <1>1 DEF FreeBits
<1>3. FreeBits(n, bm) \cap s .. e - 1 = {}
  BY DEF FreeBits
<1>4. IsFiniteSet(s .. e - 1) /\ Cardinality(s .. e - 1) = e - s
  BY FS_Interval
<1> QED BY <1>2, <1>3, <1>4, DisjointSum, FreeBitsFinite DEF countFreeBlocks, bmc

\* setBits on free bits removes as many free blocks as the range has.
LEMMA CountAfterSetting ==
    ASSUME NEW n \in Nat \ {0}, NEW bm \in BitmapOf(n),
           NEW s \in Nat, NEW e \in Nat, s < e, e <= n,
           \A p \in s .. e - 1 : ~IsSet(bm, p)
    PROVE  countFreeBlocks(n, bm) = countFreeBlocks(n, setBits(n, bm, s, e)) + (e - s)
<1> DEFINE bms == setBits(n, bm, s, e)
<1>1. \A p \in 0 .. n - 1 : IsSet(bms, p) <=> IsSet(bm, p) \/ p \in s .. e - 1
  BY SetBitsExact
<1> HIDE DEF bms
<1>2. FreeBits(n, bm) = FreeBits(n, bms) \cup s .. e - 1
  BY <1>1 DEF FreeBits
<1>3. FreeBits(n, bms) \cap s .. e - 1 = {}
  BY <1>1 DEF FreeBits
<1>4. IsFiniteSet(s .. e - 1) /\ Cardinality(s .. e - 1) = e - s
  BY FS_Interval
<1> QED BY <1>2, <1>3, <1>4, DisjointSum, FreeBitsFinite DEF countFreeBlocks, bms

-----------------------------------------------------------------------------
\* The scan of allocate_firstFit stays within the managed pages, and covers all
\* of them when they do not fill the last word.
LEMMA ScanBounds ==
    ASSUME NEW n \in Nat \ {0}
    PROVE  /\ ScanLimit(n) \in Int
           /\ ScanLimit(n) <= n
           /\ n % WordBits # 0 => ScanLimit(n) = n
<1> DEFINE q == n \div WordBits  r == n % WordBits
           m == n + WordBits - 1  mq == m \div WordBits  mr == m % WordBits
<1>0. m \in Nat
  BY WordBitsAssumption
<1>1. /\ q \in Nat /\ r \in 0 .. WordBits - 1 /\ n = q * WordBits + r
      /\ m \in Nat /\ mq \in Nat /\ mr \in 0 .. WordBits - 1 /\ m = mq * WordBits + mr
  <2> HIDE DEF m
  <2> QED BY <1>0, DivMod DEF FullWord
<1>2. ScanLimit(n) = (mq - 1) * WordBits + r
  BY DEF ScanLimit, bitmapLength
<1>3. m = n + WordBits - 1
  OBVIOUS
<1> HIDE DEF q, r, m, mq, mr
<1>4. ASSUME mq > q + 1 PROVE FALSE
  <2>1. (q + 1) * WordBits + WordBits <= mq * WordBits
    BY <1>1, <1>4, MulMono
  <2>2. (q + 1) * WordBits = q * WordBits + WordBits
    BY <1>1, WordBitsAssumption
  <2> QED BY <2>1, <2>2, <1>1, <1>3, WordBitsAssumption
<1>5. ASSUME mq < q PROVE FALSE
  BY <1>1, <1>3, <1>5, MulMono, WordBitsAssumption
<1>6. mq = q \/ mq = q + 1
  BY <1>1, <1>4, <1>5
<1>7. CASE mq = q
  <2>1. (mq - 1) * WordBits = q * WordBits - WordBits
    BY <1>1, <1>7, WordBitsAssumption
  <2>2. r = 0
    BY <1>1, <1>3, <1>7, WordBitsAssumption
  <2> QED BY <2>1, <2>2, <1>1, <1>2, WordBitsAssumption DEF r
<1>8. CASE mq = q + 1
  BY <1>1, <1>2, <1>8, WordBitsAssumption
<1> QED BY <1>6, <1>7, <1>8

\* What allocate_firstFit returns starts a run of free bits.
LEMMA FirstFitFree ==
    ASSUME NEW n \in Nat \ {0}, NEW bm, NEW k \in Nat,
           NEW s \in allocate_firstFit(n, bm, k)
    PROVE  /\ s \in Nat
           /\ k > 0
           /\ s + k <= n
           /\ \A p \in s .. s + k - 1 : ~IsSet(bm, p)
<1>1. PICK e \in RunEnds(n, bm, k) : s = e - k
  BY DEF allocate_firstFit
<1>2. /\ k # 0
      /\ e \in k .. ScanLimit(n)
      /\ \A p \in e - k .. e - 1 : ~IsSet(bm, p)
  BY <1>1 DEF RunEnds
<1> QED BY <1>1, <1>2, ScanBounds

\* isFullyAllocated tests no bit outside the range.
LEMMA TestedInRange ==
    ASSUME NEW s \in Nat, NEW e \in Nat, s < e
    PROVE  TestedBits(s, e) \subseteq s .. e - 1
<1> DEFINE si == s \div WordBits  sr == s % WordBits
           ei == e \div WordBits  er == e % WordBits
           firstWhole == IF sr = 0 THEN si ELSE si + 1
<1>1. /\ si \in Nat /\ sr \in 0 .. WordBits - 1 /\ s = si * WordBits + sr
      /\ ei \in Nat /\ er \in 0 .. WordBits - 1 /\ e = ei * WordBits + er
  BY DivMod DEF FullWord
<1>2. TestedBits(s, e) =
        IF si = ei THEN s .. e - 1
        ELSE s .. firstWhole * WordBits - 1
             \cup firstWhole * WordBits .. (ei - 1) * WordBits - 1
             \cup ei * WordBits .. e - 1
  BY DEF TestedBits
<1>3. firstWhole = IF sr = 0 THEN si ELSE si + 1
  OBVIOUS
<1> HIDE DEF si, sr, ei, er, firstWhole
<1>4. CASE si = ei
  BY <1>2, <1>4
<1>5. CASE si # ei
  <2>1. ASSUME ei < si PROVE FALSE
    BY <1>1, <2>1, MulMono, WordBitsAssumption
  <2>2. si < ei
    BY <1>1, <1>5, <2>1
  <2>3. firstWhole \in Nat /\ firstWhole <= ei /\ (sr = 0 => firstWhole = si)
          /\ (sr # 0 => firstWhole = si + 1)
    BY <1>1, <1>3, <2>2
  <2>4. /\ s <= firstWhole * WordBits /\ firstWhole * WordBits \in Nat
        /\ ei * WordBits \in Nat
    BY <1>1, <2>3, WordBitsAssumption
  <2>5. firstWhole * WordBits <= ei * WordBits
    BY <1>1, <2>3, MulMono, WordBitsAssumption
  <2>6. (ei - 1) * WordBits = ei * WordBits - WordBits
    BY <1>1, WordBitsAssumption
  <2> QED BY <1>1, <1>2, <1>5, <2>4, <2>5, <2>6, WordBitsAssumption
<1> QED BY <1>4, <1>5

\* isFullyAllocated tests every bit of a range shorter than a word.
LEMMA ShortRangeTested ==
    ASSUME NEW s \in Nat, NEW e \in Nat, s < e, e < s + WordBits
    PROVE  s .. e - 1 \subseteq TestedBits(s, e)
<1> DEFINE si == s \div WordBits  sr == s % WordBits
           ei == e \div WordBits  er == e % WordBits
           firstWhole == IF sr = 0 THEN si ELSE si + 1
<1>1. /\ si \in Nat /\ sr \in 0 .. WordBits - 1 /\ s = si * WordBits + sr
      /\ ei \in Nat /\ er \in 0 .. WordBits - 1 /\ e = ei * WordBits + er
  BY DivMod DEF FullWord
<1>2. TestedBits(s, e) =
        IF si = ei THEN s .. e - 1
        ELSE s .. firstWhole * WordBits - 1
             \cup firstWhole * WordBits .. (ei - 1) * WordBits - 1
             \cup ei * WordBits .. e - 1
  BY DEF TestedBits
<1>3. firstWhole = IF sr = 0 THEN si ELSE si + 1
  OBVIOUS
<1> HIDE DEF si, sr, ei, er, firstWhole
<1>4. CASE si = ei
  BY <1>2, <1>4
<1>5. CASE si # ei
  <2>1. ASSUME ei < si PROVE FALSE
    BY <1>1, <2>1, MulMono, WordBitsAssumption
  <2>2. ASSUME ei > si + 1 PROVE FALSE
    <3>1. (si + 1) * WordBits + WordBits <= ei * WordBits
      BY <1>1, <2>2, MulMono
    <3>2. (si + 1) * WordBits = si * WordBits + WordBits
      BY <1>1, WordBitsAssumption
    <3> QED BY <3>1, <3>2, <1>1, WordBitsAssumption
  <2>3. ei = si + 1
    BY <1>1, <1>5, <2>1, <2>2
  <2>4. ei * WordBits = si * WordBits + WordBits
    BY <1>1, <2>3, WordBitsAssumption
  <2>5. sr # 0
    BY <1>1, <2>4, WordBitsAssumption
  <2>6. firstWhole = ei
    BY <1>3, <2>3, <2>5
  <2> HIDE DEF firstWhole
  <2>7. ei * WordBits \in Int
    BY <1>1, WordBitsAssumption
  <2> QED BY <1>2, <1>5, <2>6, <2>7
<1> QED BY <1>4, <1>5
=============================================================================
