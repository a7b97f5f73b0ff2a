--------------------------- MODULE MemoryMapProofs ---------------------------
(***************************************************************************)
(* The memory map that MMap_init builds has the pages of the map that      *)
(* Limine passes, in order, for every map that the Limine protocol allows. *)
(* The loops of the C code are recursive functions here: what they compute *)
(* is proved from a least element of the rounds that would go wrong.       *)
(***************************************************************************)
EXTENDS PMMInit, WellFoundedInduction, SequenceTheorems, FiniteSetTheorems, TLAPS

USE SMTT(30)

-----------------------------------------------------------------------------
\* A set of numbers that is not empty has a least element.
LEMMA LeastElement ==
    ASSUME NEW S, S \subseteq Nat, S # {}
    PROVE  \E x \in S : \A y \in S : x <= y
<1>1. PICK x \in S : \A y \in S : ~(<<y, x>> \in OpToRel(<, Nat))
  BY NatLessThanWellFounded, WFMin, ZenonT(30)
<1>2. ASSUME NEW y \in S
      PROVE  x <= y
  <2>1. x \in Nat /\ y \in Nat /\ ~(<<y, x>> \in OpToRel(<, Nat))
    BY <1>1, ZenonT(30)
  <2>2. ~(y < x)
    BY <2>1 DEF OpToRel
  <2>3. x \in Nat /\ y \in Nat
    OBVIOUS
  <2> QED BY <2>2, <2>3
<1> QED BY <1>2

\* Min and Max of a set of indices.
LEMMA Extremes ==
    ASSUME NEW n \in Nat, NEW S, S \subseteq 1 .. n, S # {}
    PROVE  /\ Min(S) \in S /\ \A y \in S : Min(S) <= y
           /\ Max(S) \in S /\ \A y \in S : y <= Max(S)
<1>1. S \subseteq Nat
  OBVIOUS
<1>2. Min(S) \in S /\ \A y \in S : Min(S) <= y
  BY <1>1, LeastElement, ZenonT(30) DEF Min
<1> DEFINE U == {u \in 0 .. n : \A y \in S : y <= u}
<1>3. n \in U /\ U \subseteq Nat
  OBVIOUS
<1>4. PICK u \in U : \A v \in U : u <= v
  <2>1. U # {}
    BY <1>3
  <2> HIDE DEF U
  <2> QED BY <1>3, <2>1, LeastElement, ZenonT(30)
<1>5. u \in S
  <2> SUFFICES ASSUME u \notin S
               PROVE  FALSE
    OBVIOUS
  <2>1. PICK x \in S : TRUE
    BY Zenon
  <2>2. \A y \in S : y <= u - 1
    BY <1>1, <1>4
  <2>3. u - 1 \in U
    BY <1>4, <2>1, <2>2
  <2> QED BY <1>4, <2>3
<1>6. \E x \in S : \A y \in S : x >= y
  BY <1>1, <1>4, <1>5
<1>7. Max(S) \in S /\ \A y \in S : Max(S) >= y
  <2> HIDE DEF U
  <2> QED BY <1>6, ZenonT(30) DEF Max
<1> QED BY <1>1, <1>2, <1>7

\* Induction over 0 .. n, for a set instead of a predicate.
LEMMA SetInduction ==
    ASSUME NEW n \in Nat, NEW S, 0 \in S,
           \A i \in 1 .. n : i - 1 \in S => i \in S
    PROVE  0 .. n \subseteq S
<1> SUFFICES ASSUME ~(0 .. n \subseteq S)
             PROVE  FALSE
  OBVIOUS
<1> DEFINE T == 0 .. n \ S
<1>1. T \subseteq Nat /\ T # {}
  OBVIOUS
<1>2. PICK x \in T : \A y \in T : x <= y
  <2> HIDE DEF T
  <2> QED BY <1>1, LeastElement, ZenonT(30)
<1>3. x \in 1 .. n /\ x \notin S
  OBVIOUS
<1>4. x - 1 \in S
  BY <1>2, <1>3
<1> QED BY <1>3, <1>4

\* The values of a loop after each of its n rounds.
Rounds(n, V, base, round) ==
    {f \in [0 .. n -> V] :
       f[0] = base /\ \A i \in 1 .. n : f[i] = round[<<i, f[i - 1]>>]}

\* A loop of n rounds computes a value after each of them: the recursive functions
\* that model the loops exist.
LEMMA LoopExists ==
    ASSUME NEW n \in Nat, NEW V, NEW base \in V, NEW round \in [(1 .. n) \X V -> V]
    PROVE  Rounds(n, V, base, round) # {}
<1> DEFINE G(k) == {g \in [0 .. k -> V] :
                      g[0] = base /\ \A i \in 1 .. k : g[i] = round[<<i, g[i - 1]>>]}
           S == {k \in 0 .. n : G(k) # {}}
<1>1. 0 \in S
  <2>1. [i \in 0 .. 0 |-> base] \in G(0)
    OBVIOUS
  <2> QED BY <2>1
<1>2. ASSUME NEW k \in 1 .. n, k - 1 \in S
      PROVE  k \in S
  <2>1. PICK g \in G(k - 1) : TRUE
    BY <1>2
  <2> DEFINE h == [i \in 0 .. k |-> IF i = k THEN round[<<k, g[k - 1]>>] ELSE g[i]]
  <2>2. g \in [0 .. k - 1 -> V] /\ g[k - 1] \in V
    BY <2>1
  <2>3. round[<<k, g[k - 1]>>] \in V
    BY <2>2
  <2>4. h \in [0 .. k -> V]
    BY <2>2, <2>3
  <2>5. h[0] = base
    BY <2>1, <1>2
  <2>6. ASSUME NEW i \in 1 .. k
        PROVE  h[i] = round[<<i, h[i - 1]>>]
    <3>1. CASE i = k
      <4>1. h[i - 1] = g[k - 1] /\ h[i] = round[<<k, g[k - 1]>>]
        BY <3>1, <1>2
      <4> QED BY <3>1, <4>1
    <3>2. CASE i # k
      <4>1. i \in 1 .. k - 1 /\ h[i] = g[i] /\ h[i - 1] = g[i - 1]
        BY <3>2, <1>2
      <4> QED BY <4>1, <2>1
    <3> QED BY <3>1, <3>2
  <2> HIDE DEF h
  <2>7. h \in G(k)
    BY <2>4, <2>5, <2>6
  <2>8. k \in 0 .. n
    BY <1>2
  <2> HIDE DEF G
  <2> QED BY <2>7, <2>8, Zenon
<1>3. 0 .. n \subseteq S
  <2> HIDE DEF S
  <2> QED BY <1>1, <1>2, SetInduction
<1> QED BY <1>3 DEF Rounds

\* What Sums computes.
LEMMA SumsRound ==
    ASSUME NEW f \in Seq(Int)
    PROVE  /\ Sums(f)[0] = 0
           /\ \A i \in 1 .. Len(f) : Sums(f)[i] = Sums(f)[i - 1] + f[i]
           /\ \A i \in 0 .. Len(f) : Sums(f)[i] \in Int
<1> DEFINE n == Len(f)
           round == [p \in (1 .. n) \X Int |-> p[2] + f[p[1]]]
<1>1. n \in Nat /\ 0 \in Int /\ \A i \in 1 .. n : f[i] \in Int
  OBVIOUS
<1>2. round \in [(1 .. n) \X Int -> Int]
  BY <1>1
<1> HIDE DEF n, round
<1>3. Rounds(n, Int, 0, round) # {}
  <2>1. n \in Nat
    BY <1>1
  <2>2. 0 \in Int
    OBVIOUS
  <2> QED BY <2>1, <2>2, <1>2, LoopExists, ZenonT(30)
<1>4. PICK g \in Rounds(n, Int, 0, round) : TRUE
  BY <1>3
<1>5. ASSUME NEW i \in 1 .. n
      PROVE  g[i] = g[i - 1] + f[i]
  <2>1. g[i - 1] \in Int
    BY <1>1, <1>4 DEF Rounds
  <2>2. round[<<i, g[i - 1]>>] = g[i - 1] + f[i]
    BY <2>1 DEF round
  <2> QED BY <1>4, <2>2 DEF Rounds
<1>6. g = [i \in 0 .. Len(f) |-> IF i = 0 THEN 0 ELSE g[i - 1] + f[i]]
  BY <1>1, <1>4, <1>5 DEF n, Rounds
<1>7. Sums(f) = [i \in 0 .. Len(f) |-> IF i = 0 THEN 0 ELSE Sums(f)[i - 1] + f[i]]
  BY <1>6, Zenon DEF Sums
<1> DEFINE s == Sums(f)
<1>8. /\ s[0] = 0
      /\ \A i \in 1 .. Len(f) : s[i] = s[i - 1] + f[i]
  <2> HIDE DEF s
  <2>1. s = [i \in 0 .. Len(f) |-> IF i = 0 THEN 0 ELSE s[i - 1] + f[i]]
    BY <1>7 DEF s
  <2> QED BY <2>1, <1>1 DEF n
<1> DEFINE S == {i \in 0 .. Len(f) : s[i] \in Int}
<1>9. 0 .. Len(f) \subseteq S
  <2> HIDE DEF s
  <2>1. 0 \in S
    BY <1>8
  <2>2. \A i \in 1 .. Len(f) : i - 1 \in S => i \in S
    BY <1>8
  <2> HIDE DEF S
  <2>3. Len(f) \in Nat
    OBVIOUS
  <2> QED BY <2>1, <2>2, <2>3, SetInduction, ZenonT(30)
<1> QED BY <1>8, <1>9

\* Sums of numbers of pages are numbers of pages, and never decrease.
LEMMA SumsOfPages ==
    ASSUME NEW f \in Seq(Nat)
    PROVE  /\ \A i \in 0 .. Len(f) : Sums(f)[i] \in Nat /\ Sums(f)[i] <= Total(f)
           /\ Total(f) \in Nat
<1> DEFINE s == Sums(f)  n == Len(f)
<1>1. f \in Seq(Int) /\ n \in Nat /\ \A i \in 1 .. n : f[i] \in Nat
  OBVIOUS
<1>2. s[0] = 0 /\ \A i \in 1 .. n : s[i] = s[i - 1] + f[i]
  BY <1>1, SumsRound
<1>3. Total(f) = s[n]
  BY DEF Total
<1> HIDE DEF s, n
<1> DEFINE S == {k \in 0 .. n : s[k] \in Nat /\ \A i \in 0 .. k : s[i] \in Nat /\ s[i] <= s[k]}
<1>4. 0 \in S
  BY <1>1, <1>2
<1>5. ASSUME NEW k \in 1 .. n, k - 1 \in S
      PROVE  k \in S
  <2>1. s[k] = s[k - 1] + f[k] /\ s[k - 1] \in Nat /\ f[k] \in Nat
    BY <1>1, <1>2, <1>5
  <2>2. ASSUME NEW i \in 0 .. k
        PROVE  s[i] \in Nat /\ s[i] <= s[k]
    <3>1. CASE i = k
      BY <2>1, <3>1
    <3>2. CASE i # k
      <4>1. i \in 0 .. k - 1
        BY <3>2
      <4>2. s[i] \in Nat /\ s[i] <= s[k - 1]
        BY <4>1, <1>5
      <4> QED BY <4>2, <2>1
    <3> QED BY <3>1, <3>2
  <2>3. s[k] \in Nat /\ k \in 0 .. n
    BY <2>1
  <2> QED BY <2>2, <2>3
<1>6. 0 .. n \subseteq S
  <2>1. n \in Nat
    BY <1>1
  <2> HIDE DEF S
  <2> QED BY <1>4, <1>5, <2>1, SetInduction, ZenonT(30)
<1>7. n \in S
  BY <1>6, <1>1
<1> QED BY <1>3, <1>7 DEF s, n

\* What is added up entry by entry from less is less.
LEMMA SumsCompared ==
    ASSUME NEW f \in Seq(Nat), NEW g \in Seq(Nat), Len(f) = Len(g),
           \A i \in 1 .. Len(f) : f[i] <= g[i]
    PROVE  \A i \in 0 .. Len(f) : Sums(f)[i] <= Sums(g)[i]
<1> DEFINE s == Sums(f)  t == Sums(g)  n == Len(f)
<1>1. /\ f \in Seq(Int) /\ g \in Seq(Int) /\ n \in Nat /\ Len(g) = n
      /\ \A i \in 1 .. n : f[i] \in Nat /\ g[i] \in Nat /\ f[i] <= g[i]
  OBVIOUS
<1>2. s[0] = 0 /\ \A i \in 1 .. n : s[i] = s[i - 1] + f[i]
  BY <1>1, SumsRound, Zenon
<1>3. t[0] = 0 /\ \A i \in 1 .. n : t[i] = t[i - 1] + g[i]
  <2>1. t[0] = 0 /\ \A i \in 1 .. Len(g) : t[i] = t[i - 1] + g[i]
    BY <1>1, SumsRound, Zenon
  <2> QED BY <1>1, <2>1, Zenon
<1>4. \A i \in 0 .. n : s[i] \in Nat /\ t[i] \in Nat
  BY <1>1, SumsOfPages
<1> HIDE DEF s, t, n
<1> DEFINE S == {i \in 0 .. n : s[i] <= t[i]}
<1>5. 0 \in S
  BY <1>1, <1>2, <1>3
<1>6. ASSUME NEW k \in 1 .. n, k - 1 \in S
      PROVE  k \in S
  <2>1. /\ s[k] = s[k - 1] + f[k] /\ t[k] = t[k - 1] + g[k]
        /\ s[k - 1] <= t[k - 1] /\ f[k] <= g[k]
        /\ k - 1 \in 0 .. n /\ f[k] \in Nat /\ g[k] \in Nat
    BY <1>1, <1>2, <1>3, <1>6
  <2>2. s[k - 1] \in Nat /\ t[k - 1] \in Nat
    BY <1>4, <2>1
  <2> QED BY <2>1, <2>2
<1>7. 0 .. n \subseteq S
  <2>1. n \in Nat
    BY <1>1
  <2> HIDE DEF S
  <2> QED BY <1>5, <1>6, <2>1, SetInduction, ZenonT(30)
<1> QED BY <1>7 DEF s, t, n

\* Fewer than m numbers, each below c / m, add up to less than c.
LEMMA TotalBounded ==
    ASSUME NEW f \in Seq(Nat), NEW m \in Nat, NEW c \in Nat \ {0}, Len(f) < m,
           \A i \in 1 .. Len(f) : m * f[i] < c
    PROVE  Total(f) < c
<1> DEFINE s == Sums(f)  n == Len(f)
<1>1. /\ f \in Seq(Int) /\ n \in Nat /\ n < m
      /\ \A i \in 1 .. n : f[i] \in Nat /\ m * f[i] < c
  OBVIOUS
<1>2. s[0] = 0 /\ \A i \in 1 .. n : s[i] = s[i - 1] + f[i]
  BY <1>1, SumsRound
<1>3. \A i \in 0 .. n : s[i] \in Nat
  BY <1>1, SumsOfPages
<1>4. Total(f) = s[n]
  BY DEF Total
<1> HIDE DEF s, n
<1> DEFINE S == {i \in 0 .. n : m * s[i] <= i * c}
<1>5. 0 \in S
  BY <1>1, <1>2
<1>6. ASSUME NEW k \in 1 .. n, k - 1 \in S
      PROVE  k \in S
  <2>1. /\ s[k] = s[k - 1] + f[k] /\ m * s[k - 1] <= (k - 1) * c /\ m * f[k] < c
        /\ s[k - 1] \in Nat /\ f[k] \in Nat /\ k \in Nat
    BY <1>1, <1>2, <1>3, <1>6
  <2>2. \A a, b \in Nat : m * (a + b) = m * a + m * b
    OBVIOUS
  <2>3. (k - 1) * c = k * c - c /\ k * c \in Int /\ m * s[k - 1] \in Int /\ m * f[k] \in Int
    BY <2>1
  <2>4. m * s[k] = m * s[k - 1] + m * f[k]
    BY <2>1, <2>2
  <2>5. ASSUME NEW x \in Int, NEW y \in Int, NEW z \in Int, NEW u \in Int,
               u = x + y, x <= z - c, y < c
        PROVE  u <= z
    BY <2>5
  <2>6. m * s[k] <= k * c
    <3>1. m * s[k] \in Int /\ m * s[k - 1] <= k * c - c
      BY <2>1, <2>3, <2>4
    <3> QED BY <2>1, <2>3, <2>4, <2>5, <3>1, Zenon
  <2> QED BY <2>6
<1>7. 0 .. n \subseteq S
  <2>1. n \in Nat
    BY <1>1
  <2> HIDE DEF S
  <2> QED BY <1>5, <1>6, <2>1, SetInduction, ZenonT(30)
<1>8. m * s[n] <= n * c /\ s[n] \in Nat
  BY <1>7, <1>3, <1>1
<1>9. ASSUME NEW x \in Nat, m * x <= n * c, x >= c
      PROVE  FALSE
  <2>1. m * x >= m * c
    BY <1>9
  <2>2. m * c >= (n + 1) * c /\ (n + 1) * c = n * c + c
    BY <1>1
  <2> QED BY <2>1, <2>2, <1>1, <1>9
<1>10. ~(s[n] >= c)
  BY <1>8, <1>9, ZenonT(30)
<1> QED BY <1>8, <1>10, <1>4

-----------------------------------------------------------------------------
\* The entries of Limine's map that are removed: those that continue an entry that
\* is not itself removed.
LEMMA RemovedRound ==
    ASSUME NEW T, NEW lm \in Seq(T)
    PROVE  \A i \in DOMAIN lm :
             i \in Removed(lm) <=>
               i > 1 /\ i - 1 \notin Removed(lm) /\ Juxtaposed(lm[i - 1], lm[i])
<1> DEFINE n == Len(lm)
           round == [p \in (1 .. n) \X BOOLEAN |->
                       p[1] > 1 /\ ~p[2] /\ Juxtaposed(lm[p[1] - 1], lm[p[1]])]
<1>1. n \in Nat /\ DOMAIN lm = 1 .. n
  OBVIOUS
<1>2. round \in [(1 .. n) \X BOOLEAN -> BOOLEAN]
  BY <1>1, Zenon
<1> HIDE DEF n, round
<1>3. Rounds(n, BOOLEAN, FALSE, round) # {}
  <2>1. n \in Nat
    BY <1>1
  <2>2. FALSE \in BOOLEAN
    OBVIOUS
  <2> QED BY <2>1, <2>2, <1>2, LoopExists, ZenonT(30)
<1>4. PICK h \in Rounds(n, BOOLEAN, FALSE, round) : TRUE
  BY <1>3, Zenon
<1> DEFINE g == [i \in 1 .. n |-> h[i]]
<1>5. ASSUME NEW i \in 1 .. n
      PROVE  g[i] = (i > 1 /\ ~g[i - 1] /\ Juxtaposed(lm[i - 1], lm[i]))
  <2>1. h[i] = round[<<i, h[i - 1]>>] /\ h[i - 1] \in BOOLEAN
    BY <1>1, <1>4 DEF Rounds
  <2>2. round[<<i, h[i - 1]>>] = (i > 1 /\ ~h[i - 1] /\ Juxtaposed(lm[i - 1], lm[i]))
    <3>1. <<i, h[i - 1]>> \in (1 .. n) \X BOOLEAN
      BY <2>1
    <3> QED BY <3>1, Zenon DEF round
  <2>3. i > 1 => g[i - 1] = h[i - 1]
    BY <1>1
  <2>4. g[i] = h[i]
    OBVIOUS
  <2> HIDE DEF g
  <2> QED BY <2>1, <2>2, <2>3, <2>4, Zenon
<1>6. g = [i \in DOMAIN lm |-> i > 1 /\ ~g[i - 1] /\ Juxtaposed(lm[i - 1], lm[i])]
  <2> DEFINE e == [i \in 1 .. n |-> i > 1 /\ ~g[i - 1] /\ Juxtaposed(lm[i - 1], lm[i])]
  <2>1. \A i \in 1 .. n : g[i] = e[i]
    BY <1>5, Zenon
  <2>2. g = [i \in 1 .. n |-> g[i]] /\ e = [i \in 1 .. n |-> e[i]]
    OBVIOUS
  <2> HIDE DEF g
  <2>3. g = e
    <3> HIDE DEF e
    <3> QED BY <2>1, <2>2, Zenon
  <2> QED BY <2>3, <1>1
<1> HIDE DEF g
<1>7. Marks(lm) = [i \in DOMAIN lm |->
                     i > 1 /\ ~Marks(lm)[i - 1] /\ Juxtaposed(lm[i - 1], lm[i])]
  BY <1>6, Zenon DEF Marks
<1> DEFINE s == Marks(lm)
<1>8. s = [i \in DOMAIN lm |-> i > 1 /\ ~s[i - 1] /\ Juxtaposed(lm[i - 1], lm[i])]
  BY <1>7
<1>9. Removed(lm) = {i \in DOMAIN lm : s[i]}
  BY DEF Removed
<1> HIDE DEF s
<1>10. ASSUME NEW i \in DOMAIN lm
       PROVE  s[i] = (i > 1 /\ ~s[i - 1] /\ Juxtaposed(lm[i - 1], lm[i]))
  BY <1>8, Zenon
<1>11. ASSUME NEW i \in DOMAIN lm
       PROVE  i \in Removed(lm) <=>
                i > 1 /\ i - 1 \notin Removed(lm) /\ Juxtaposed(lm[i - 1], lm[i])
  <2>1. i > 1 => i - 1 \in DOMAIN lm
    BY <1>1
  <2>2. i \in Removed(lm) <=> s[i]
    BY <1>9, Zenon
  <2>3. i > 1 => (i - 1 \in Removed(lm) <=> s[i - 1])
    BY <1>9, <2>1, Zenon
  <2> QED BY <2>2, <2>3, <1>10, Zenon
<1> QED BY <1>11, Zenon

-----------------------------------------------------------------------------
\* Limine's map once MMap_init is done with it, and the entries it leaves in place.
Processed(lm) == WithoutFirstPage(SquashedMap(lm))

Kept(lm) == DOMAIN lm \ Removed(lm)

\* The maps that pass the checks of MMap_init, and whose first entry is not the
\* page at address 0 alone.
AcceptedMap(lm) ==
    /\ LimineMap(lm)
    /\ IndicesOf(lm, KnownTypes) = DOMAIN lm
    /\ ~(lm[1].type = "usable" /\ lm[1].base = 0 /\ lm[1].length = 1)

\* The entries of an accepted map, and where they are.
LEMMA AcceptedEntries ==
    ASSUME NEW lm, AcceptedMap(lm)
    PROVE  /\ Len(lm) \in Nat /\ DOMAIN lm = 1 .. Len(lm) /\ 1 \in DOMAIN lm
           /\ \A i \in DOMAIN lm :
                /\ lm[i].type \in KnownTypes /\ lm[i].base \in Nat /\ lm[i].length \in Nat \ {0}
                /\ lm[i] = [type |-> lm[i].type, base |-> lm[i].base, length |-> lm[i].length]
                /\ lm[i].type = "usable" /\ lm[i].base = 0 => i = 1 /\ lm[i].length > 1
<1>1. lm \in Seq([type : STRING, base : Nat, length : Nat \ {0}]) /\ lm # << >>
  BY DEF AcceptedMap, LimineMap
<1>2. Len(lm) \in Nat /\ DOMAIN lm = 1 .. Len(lm) /\ 1 \in DOMAIN lm
  BY <1>1
<1>3. ASSUME NEW i \in DOMAIN lm
      PROVE  /\ lm[i].base \in Nat /\ lm[i].length \in Nat \ {0}
             /\ lm[i] = [type |-> lm[i].type, base |-> lm[i].base, length |-> lm[i].length]
  <2> DEFINE T == [type : STRING, base : Nat, length : Nat \ {0}]
  <2>1. lm[i] \in T
    <3> HIDE DEF T
    <3>1. lm \in Seq(T)
      BY <1>1 DEF T
    <3> QED BY <3>1, <1>3
  <2> QED BY <2>1
<1>4. ASSUME NEW i \in DOMAIN lm
      PROVE  lm[i].type \in KnownTypes
  BY DEF AcceptedMap, IndicesOf
<1>5. ASSUME NEW i \in DOMAIN lm, lm[i].type = "usable", lm[i].base = 0
      PROVE  i = 1 /\ lm[i].length > 1
  <2>1. ASSUME i # 1
        PROVE  FALSE
    <3>1. \A j, k \in DOMAIN lm :
            j < k /\ lm[k].type = "usable" => lm[j].base + lm[j].length <= lm[k].base
      BY DEF AcceptedMap, LimineMap
    <3>2. 1 \in DOMAIN lm /\ 1 < i
      BY <1>2, <2>1
    <3>3. lm[1].base + lm[1].length <= lm[i].base
      BY <1>5, <3>1, <3>2
    <3> QED BY <3>2, <3>3, <1>3, <1>5
  <2> QED BY <1>2, <1>3, <1>5, <2>1 DEF AcceptedMap
<1> QED BY <1>2, <1>3, <1>4, <1>5

\* What becomes of an entry: it is removed, or grows by the entry after it, and
\* loses the page at address 0.
LEMMA ProcessedEntry ==
    ASSUME NEW lm, AcceptedMap(lm), NEW i \in DOMAIN lm
    PROVE  /\ DOMAIN Processed(lm) = DOMAIN lm
           /\ i \in Removed(lm) => Processed(lm)[i].type = REMOVED
           /\ i \in Kept(lm) =>
                /\ Processed(lm)[i].type = lm[i].type
                /\ Processed(lm)[i].base =
                     IF lm[i].type = "usable" /\ lm[i].base = 0 THEN 1 ELSE lm[i].base
                /\ Processed(lm)[i].base + Processed(lm)[i].length =
                     IF i + 1 \in Removed(lm) THEN lm[i + 1].base + lm[i + 1].length
                                              ELSE lm[i].base + lm[i].length
                /\ Processed(lm)[i].base \in Nat
                /\ Processed(lm)[i].length \in Nat \ {0}
<1> DEFINE q == SquashedMap(lm)  R == Removed(lm)
<1>1. lm \in Seq([type : STRING, base : Nat, length : Nat \ {0}])
  BY DEF AcceptedMap, LimineMap
<1>2. \A j \in DOMAIN lm :
        j \in R <=> j > 1 /\ j - 1 \notin R /\ Juxtaposed(lm[j - 1], lm[j])
  BY <1>1, RemovedRound, Zenon
<1>3. R \subseteq DOMAIN lm
  BY DEF Removed
<1>4. q = [j \in DOMAIN lm |->
             IF j \in R THEN [lm[j] EXCEPT !.type = REMOVED]
             ELSE IF j + 1 \in R THEN [lm[j] EXCEPT !.length = @ + lm[j + 1].length]
             ELSE lm[j]]
  BY DEF SquashedMap
<1>5. Processed(lm) = [j \in DOMAIN q |->
                         IF j = 1 /\ FirstPageIsUsable(q)
                           THEN [q[1] EXCEPT !.base = 1, !.length = @ - 1] ELSE q[j]]
  BY DEF Processed, WithoutFirstPage
<1> HIDE DEF q, R
<1>6. 1 \notin R
  <2>1. 1 \in DOMAIN lm /\ ~(1 > 1)
    BY AcceptedEntries
  <2> QED BY <1>2, <2>1, Zenon
<1>7. FirstPageIsUsable(q) <=> lm[1].type = "usable" /\ lm[1].base = 0
  <2>1. q[1].type = lm[1].type /\ q[1].base = lm[1].base
    BY <1>4, <1>6, AcceptedEntries
  <2> QED BY <2>1 DEF FirstPageIsUsable
<1>8. DOMAIN Processed(lm) = DOMAIN lm
  BY <1>4, <1>5
<1>9. ASSUME i \in R
      PROVE  Processed(lm)[i].type = REMOVED
  BY <1>4, <1>5, <1>6, <1>9, AcceptedEntries
<1>10. ASSUME i \notin R
       PROVE  /\ Processed(lm)[i].type = lm[i].type
              /\ Processed(lm)[i].base =
                   IF lm[i].type = "usable" /\ lm[i].base = 0 THEN 1 ELSE lm[i].base
              /\ Processed(lm)[i].base + Processed(lm)[i].length =
                   IF i + 1 \in R THEN lm[i + 1].base + lm[i + 1].length
                                  ELSE lm[i].base + lm[i].length
              /\ Processed(lm)[i].base \in Nat
              /\ Processed(lm)[i].length \in Nat \ {0}
  <2>1. /\ lm[i].base \in Nat /\ lm[i].length \in Nat \ {0}
        /\ lm[i] = [type |-> lm[i].type, base |-> lm[i].base, length |-> lm[i].length]
        /\ i \in Nat
    BY AcceptedEntries
  <2>2. i + 1 \in R => /\ i + 1 \in DOMAIN lm /\ lm[i + 1].length \in Nat \ {0}
                       /\ lm[i + 1].base = lm[i].base + lm[i].length
    BY <1>2, <1>3, <2>1, AcceptedEntries DEF Juxtaposed
  <2>3. /\ q[i].type = lm[i].type /\ q[i].base = lm[i].base
        /\ q[i].length = IF i + 1 \in R THEN lm[i].length + lm[i + 1].length
                                        ELSE lm[i].length
        /\ i \in DOMAIN q
    BY <1>4, <1>10, <2>1
  <2>4. q[i].length \in Nat \ {0}
    BY <2>1, <2>2, <2>3
  <2>5. CASE lm[i].type = "usable" /\ lm[i].base = 0
    <3>1. i = 1 /\ lm[i].length > 1
      BY <2>5, AcceptedEntries
    <3>2. q[1] = [type |-> q[1].type, base |-> q[1].base, length |-> q[1].length]
      BY <1>4, <1>10, <2>1, <3>1
    <3>3. /\ Processed(lm)[i].type = lm[i].type /\ Processed(lm)[i].base = 1
          /\ Processed(lm)[i].length = q[i].length - 1
      BY <1>5, <1>7, <2>3, <2>5, <3>1, <3>2
    <3> QED BY <2>1, <2>2, <2>3, <2>4, <2>5, <3>1, <3>3
  <2>6. CASE ~(lm[i].type = "usable" /\ lm[i].base = 0)
    <3>1. Processed(lm)[i] = q[i]
      BY <1>5, <1>7, <2>3, <2>6
    <3> QED BY <2>1, <2>2, <2>3, <2>4, <2>6, <3>1
  <2> QED BY <2>5, <2>6
<1> QED BY <1>8, <1>9, <1>10 DEF Kept, R

\* A removed entry continues the one before it, which stays.
LEMMA RemovedEntry ==
    ASSUME NEW lm, AcceptedMap(lm), NEW i \in Removed(lm)
    PROVE  /\ i \in DOMAIN lm /\ i - 1 \in DOMAIN lm /\ i - 1 \in Kept(lm)
           /\ lm[i].type = lm[i - 1].type
           /\ lm[i].base = lm[i - 1].base + lm[i - 1].length
<1>1. lm \in Seq([type : STRING, base : Nat, length : Nat \ {0}])
  BY DEF AcceptedMap, LimineMap
<1>2. i \in DOMAIN lm
  BY DEF Removed
<1>3. i > 1 /\ i - 1 \notin Removed(lm) /\ Juxtaposed(lm[i - 1], lm[i])
  BY <1>1, <1>2, RemovedRound, Zenon
<1>4. i - 1 \in DOMAIN lm
  BY <1>2, <1>3, AcceptedEntries
<1> QED BY <1>2, <1>3, <1>4 DEF Kept, Juxtaposed

\* The same, seen from the entry that stays.
LEMMA RemovedNext ==
    ASSUME NEW lm, AcceptedMap(lm), NEW i \in Nat, i + 1 \in Removed(lm)
    PROVE  /\ i + 1 \in DOMAIN lm
           /\ lm[i + 1].type = lm[i].type
           /\ lm[i + 1].base = lm[i].base + lm[i].length
<1> DEFINE k == i + 1
<1>1. k \in Removed(lm) /\ k - 1 = i
  OBVIOUS
<1> HIDE DEF k
<1>2. k \in DOMAIN lm /\ lm[k].type = lm[i].type /\ lm[k].base = lm[i].base + lm[i].length
  BY <1>1, RemovedEntry
<1> QED BY <1>2 DEF k

\* The order of the entries of Limine's map.
LEMMA AcceptedOrder ==
    ASSUME NEW lm, AcceptedMap(lm), NEW i \in DOMAIN lm, NEW j \in DOMAIN lm, i < j
    PROVE  /\ lm[i].base <= lm[j].base
           /\ lm[i].type = "usable" \/ lm[j].type = "usable" =>
                lm[i].base + lm[i].length <= lm[j].base
BY DEF AcceptedMap, LimineMap

\* Of two entries that stay, one of them usable, the first ends before the second.
LEMMA KeptOrdered ==
    ASSUME NEW lm, AcceptedMap(lm), NEW i \in Kept(lm), NEW j \in Kept(lm), i < j,
           lm[i].type = "usable" \/ lm[j].type = "usable"
    PROVE  Processed(lm)[i].base + Processed(lm)[i].length <= Processed(lm)[j].base
<1>1. i \in DOMAIN lm /\ j \in DOMAIN lm /\ i \in Nat /\ j \in Nat
  BY AcceptedEntries DEF Kept
<1>2. /\ lm[i].base \in Nat /\ lm[i].length \in Nat /\ lm[j].base \in Nat
      /\ lm[i].base + lm[i].length <= lm[j].base
  BY <1>1, AcceptedEntries, AcceptedOrder
<1>3. lm[j].base <= Processed(lm)[j].base
  BY <1>1, <1>2, ProcessedEntry
<1>4. CASE i + 1 \notin Removed(lm)
  BY <1>1, <1>2, <1>3, <1>4, ProcessedEntry
<1>5. CASE i + 1 \in Removed(lm)
  <2>1. i + 1 \in DOMAIN lm /\ lm[i + 1].type = lm[i].type
    BY <1>1, <1>5, RemovedNext
  <2>2. i + 1 < j
    BY <1>1, <1>5 DEF Kept
  <2>3. lm[i + 1].base + lm[i + 1].length <= lm[j].base
    BY <1>1, <2>1, <2>2, AcceptedOrder
  <2>4. Processed(lm)[i].base + Processed(lm)[i].length = lm[i + 1].base + lm[i + 1].length
    BY <1>1, <1>5, ProcessedEntry
  <2>5. lm[i + 1].base \in Nat /\ lm[i + 1].length \in Nat /\ Processed(lm)[j].base \in Nat
    BY <1>1, <2>1, AcceptedEntries, ProcessedEntry
  <2> QED BY <1>2, <1>3, <2>3, <2>4, <2>5
<1> QED BY <1>4, <1>5

\* An entry that stays ends where an entry of Limine's map of its type does.
LEMMA KeptEnd ==
    ASSUME NEW lm, AcceptedMap(lm), NEW i \in Kept(lm)
    PROVE  \E j \in DOMAIN lm :
             /\ lm[j].type = lm[i].type
             /\ Processed(lm)[i].base + Processed(lm)[i].length = lm[j].base + lm[j].length
<1>1. i \in DOMAIN lm /\ i \in Nat
  BY AcceptedEntries DEF Kept
<1>2. CASE i + 1 \notin Removed(lm)
  BY <1>1, <1>2, ProcessedEntry
<1>3. CASE i + 1 \in Removed(lm)
  <2>1. i + 1 \in DOMAIN lm /\ lm[i + 1].type = lm[i].type
    BY <1>1, <1>3, RemovedNext
  <2>2. Processed(lm)[i].base + Processed(lm)[i].length = lm[i + 1].base + lm[i + 1].length
    BY <1>1, <1>3, ProcessedEntry
  <2> QED BY <2>1, <2>2
<1> QED BY <1>2, <1>3

\* Page p is in an entry of a type: of the map that Limine passed, and of the entries
\* that stay after merging.
InGiven(lm, type, p) ==
    \E i \in DOMAIN lm : /\ lm[i].type = type /\ lm[i].base <= p
                         /\ p < lm[i].base + lm[i].length

InKept(lm, type, p) ==
    \E i \in Kept(lm) : /\ lm[i].type = type
                        /\ Processed(lm)[i].base <= p
                        /\ p < Processed(lm)[i].base + Processed(lm)[i].length

\* Merging loses and invents no page: those of a type are those of the entries of
\* that type that stay, and the page at address 0 if it was usable.
LEMMA PagesKept ==
    ASSUME NEW lm, AcceptedMap(lm), NEW type, NEW p \in Int
    PROVE  InKept(lm, type, p) <=> InGiven(lm, type, p) /\ ~(type = "usable" /\ p = 0)
<1>1. ASSUME NEW i \in Kept(lm), lm[i].type = type, Processed(lm)[i].base <= p,
             p < Processed(lm)[i].base + Processed(lm)[i].length
      PROVE  /\ \E j \in DOMAIN lm : /\ lm[j].type = type /\ lm[j].base <= p
                                     /\ p < lm[j].base + lm[j].length
             /\ ~(type = "usable" /\ p = 0)
  <2>1. i \in DOMAIN lm /\ i \in Nat /\ lm[i].base \in Nat /\ lm[i].length \in Nat
    BY AcceptedEntries DEF Kept
  <2>2. /\ Processed(lm)[i].base \in Nat /\ lm[i].base <= Processed(lm)[i].base
        /\ type = "usable" => Processed(lm)[i].base >= 1
    BY <1>1, <2>1, ProcessedEntry
  <2>3. ~(type = "usable" /\ p = 0)
    BY <1>1, <2>2
  <2>4. CASE p < lm[i].base + lm[i].length
    BY <1>1, <2>1, <2>2, <2>3, <2>4
  <2>5. CASE ~(p < lm[i].base + lm[i].length)
    <3>1. i + 1 \in Removed(lm)
      BY <1>1, <2>1, <2>5, ProcessedEntry
    <3>2. /\ i + 1 \in DOMAIN lm /\ lm[i + 1].type = lm[i].type
          /\ lm[i + 1].base = lm[i].base + lm[i].length
      BY <2>1, <3>1, RemovedNext
    <3>3. p < lm[i + 1].base + lm[i + 1].length
      BY <1>1, <2>1, <3>1, ProcessedEntry
    <3>4. lm[i + 1].base <= p
      BY <2>1, <2>5, <3>2
    <3> QED BY <1>1, <2>3, <3>2, <3>3, <3>4
  <2> QED BY <2>4, <2>5
<1>2. ASSUME NEW j \in DOMAIN lm, lm[j].type = type, lm[j].base <= p,
             p < lm[j].base + lm[j].length, ~(type = "usable" /\ p = 0)
      PROVE  \E i \in Kept(lm) : /\ lm[i].type = type
                                 /\ Processed(lm)[i].base <= p
                                 /\ p < Processed(lm)[i].base + Processed(lm)[i].length
  <2>1. j \in Nat /\ lm[j].base \in Nat /\ lm[j].length \in Nat \ {0}
    BY AcceptedEntries
  <2>2. CASE j \in Kept(lm)
    <3>1. Processed(lm)[j].base <= p
      BY <1>2, <2>1, <2>2, ProcessedEntry
    <3>2. CASE j + 1 \notin Removed(lm)
      BY <1>2, <2>2, <3>1, <3>2, ProcessedEntry
    <3>3. CASE j + 1 \in Removed(lm)
      <4>1. j + 1 \in DOMAIN lm /\ lm[j + 1].base = lm[j].base + lm[j].length
        BY <2>1, <3>3, RemovedNext
      <4>2. lm[j + 1].length \in Nat
        BY <4>1, AcceptedEntries
      <4>3. Processed(lm)[j].base + Processed(lm)[j].length = lm[j + 1].base + lm[j + 1].length
        BY <2>2, <3>3, ProcessedEntry
      <4>4. p < Processed(lm)[j].base + Processed(lm)[j].length
        BY <1>2, <2>1, <4>1, <4>2, <4>3
      <4> QED BY <1>2, <2>2, <3>1, <4>4
    <3> QED BY <3>2, <3>3
  <2>3. CASE j \notin Kept(lm)
    <3>1. j \in Removed(lm)
      BY <2>3 DEF Kept
    <3> DEFINE i == j - 1
    <3>2. /\ i \in DOMAIN lm /\ i \in Kept(lm) /\ lm[j].type = lm[i].type
          /\ lm[j].base = lm[i].base + lm[i].length /\ i + 1 = j
      BY <2>1, <3>1, RemovedEntry
    <3> HIDE DEF i
    <3>3. lm[i].base \in Nat /\ lm[i].length \in Nat \ {0}
      BY <3>2, AcceptedEntries
    <3>4. /\ Processed(lm)[i].base <= lm[i].base + 1
          /\ Processed(lm)[i].base + Processed(lm)[i].length = lm[j].base + lm[j].length
          /\ Processed(lm)[i].base \in Nat
      BY <3>1, <3>2, <3>3, ProcessedEntry
    <3>5. Processed(lm)[i].base <= p
      BY <1>2, <2>1, <3>2, <3>3, <3>4
    <3> QED BY <1>2, <3>2, <3>4, <3>5
  <2> QED BY <2>2, <2>3
<1> QED BY <1>1, <1>2 DEF InKept, InGiven

-----------------------------------------------------------------------------
\* The entry copyIntoMemoryMap makes for the page at address 0.
FirstEntry == [address |-> 0, length |-> 1, type |-> "reserved"]

HasFirstEntry(lm) == lm[1].type = "usable" /\ lm[1].base = 0

\* The kernel's map after each round of the copy, and the entries it may hold.
MapAfter(lm) == Copies(SquashedMap(lm))

CopiedEntries(lm) == {EntryOf(Processed(lm)[i]) : i \in Kept(lm)} \cup {FirstEntry}

\* What a round of copyIntoMemoryMap does.
LEMMA CopiesRound ==
    ASSUME NEW lm, AcceptedMap(lm)
    PROVE  /\ MapAfter(lm)[0] = IF HasFirstEntry(lm) THEN << FirstEntry >> ELSE << >>
           /\ \A i \in 1 .. Len(lm) :
                MapAfter(lm)[i] = IF i \in Removed(lm) THEN MapAfter(lm)[i - 1]
                                  ELSE Append(MapAfter(lm)[i - 1], EntryOf(Processed(lm)[i]))
           /\ copyIntoMemoryMap(SquashedMap(lm)) = MapAfter(lm)[Len(lm)]
<1> DEFINE q == SquashedMap(lm)  P == Processed(lm)  n == Len(lm)  R == Removed(lm)
           V == Seq(CopiedEntries(lm))
           base == IF HasFirstEntry(lm) THEN << FirstEntry >> ELSE << >>
           round == [x \in (1 .. n) \X V |->
                       IF x[1] \in R THEN x[2] ELSE Append(x[2], EntryOf(P[x[1]]))]
<1>1. n \in Nat /\ DOMAIN lm = 1 .. n
  BY AcceptedEntries
<1>2. base \in V
  <2>1. FirstEntry \in CopiedEntries(lm)
    BY Zenon DEF CopiedEntries
  <2>2. ASSUME NEW S, NEW x \in S
        PROVE  << x >> \in Seq(S) /\ << >> \in Seq(S)
    OBVIOUS
  <2> QED BY <2>1, <2>2, Zenon
<1>3. round \in [(1 .. n) \X V -> V]
  <2>1. ASSUME NEW i \in 1 .. n, NEW s \in V, i \notin R
        PROVE  Append(s, EntryOf(P[i])) \in V
    <3>1. i \in Kept(lm)
      BY <1>1, <2>1 DEF Kept
    <3>2. EntryOf(P[i]) \in CopiedEntries(lm)
      BY <3>1, Zenon DEF CopiedEntries
    <3> HIDE DEF P
    <3> QED BY <3>2
  <2> HIDE DEF V, R, P, n
  <2> QED BY <2>1
<1>4. DOMAIN q = 1 .. n /\ Len(q) = n
  <2> DEFINE E == {q[i] : i \in DOMAIN lm}
  <2>1. DOMAIN q = 1 .. n
    BY <1>1 DEF SquashedMap
  <2>2. q = [i \in 1 .. n |-> q[i]]
    BY <1>1 DEF SquashedMap
  <2> HIDE DEF q, n
  <2>3. q \in [1 .. n -> E]
    BY <1>1, <2>2
  <2> HIDE DEF E
  <2>4. q \in Seq(E)
    BY <1>1, <2>3, IsASeq
  <2> QED BY <1>1, <2>1, <2>4, LenProperties
<1>5. FirstPageIsUsable(q) <=> HasFirstEntry(lm)
  <2>1. 1 \in DOMAIN lm /\ 1 \in Kept(lm)
    <3>1. ASSUME 1 \in Removed(lm)
          PROVE  FALSE
      BY <3>1, RemovedEntry, AcceptedEntries
    <3> QED BY <3>1, AcceptedEntries DEF Kept
  <2>2. q[1].type = lm[1].type /\ q[1].base = lm[1].base
    <3>1. lm[1] = [type |-> lm[1].type, base |-> lm[1].base, length |-> lm[1].length]
      BY <2>1, AcceptedEntries
    <3> QED BY <2>1, <3>1 DEF SquashedMap, Kept
  <2> HIDE DEF q
  <2> QED BY <2>2 DEF FirstPageIsUsable, HasFirstEntry
<1>6. \A i \in 1 .. n : P[i].type = REMOVED <=> i \in R
  <2>1. ASSUME NEW i \in 1 .. n
        PROVE  P[i].type = REMOVED <=> i \in R
    <3>1. i \in DOMAIN lm
      BY <1>1
    <3>2. lm[i].type # REMOVED
      BY <3>1, AcceptedEntries DEF KnownTypes, REMOVED
    <3> QED BY <3>1, <3>2, ProcessedEntry DEF Kept
  <2> QED BY <2>1
<1> DEFINE Copied(g) ==
             [i \in 0 .. Len(q) |->
                CASE i = 0 /\ FirstPageIsUsable(q) ->
                       << [address |-> 0, length |-> 1, type |-> "reserved"] >>
                  [] i = 0 /\ ~FirstPageIsUsable(q) -> << >>
                  [] i > 0 /\ WithoutFirstPage(q)[i].type = REMOVED -> g[i - 1]
                  [] OTHER -> Append(g[i - 1], EntryOf(WithoutFirstPage(q)[i]))]
<1>7. WithoutFirstPage(q) = P
  BY DEF Processed
<1>8. ASSUME NEW g
      PROVE  Copied(g) = [i \in 0 .. n |->
                            IF i = 0 THEN base ELSE
                            IF i \in R THEN g[i - 1] ELSE Append(g[i - 1], EntryOf(P[i]))]
  <2> HIDE DEF q, P, n, R
  <2> QED BY <1>1, <1>4, <1>5, <1>6, <1>7 DEF FirstEntry
<1> HIDE DEF base, V, round, n, R, P
<1>9. Rounds(n, V, base, round) # {}
  <2>1. n \in Nat
    BY <1>1
  <2> QED BY <2>1, <1>2, <1>3, LoopExists, ZenonT(30)
<1>10. PICK g \in Rounds(n, V, base, round) : TRUE
  BY <1>9, Zenon
<1>11. g = Copied(g)
  <2>1. g \in [0 .. n -> V] /\ g[0] = base /\ \A i \in 1 .. n : g[i] = round[<<i, g[i - 1]>>]
    BY <1>10 DEF Rounds
  <2>2. ASSUME NEW i \in 1 .. n
        PROVE  g[i] = IF i \in R THEN g[i - 1] ELSE Append(g[i - 1], EntryOf(P[i]))
    <3>1. g[i - 1] \in V
      BY <1>1, <2>1
    <3>2. ASSUME NEW v \in V
          PROVE  round[<<i, v>>] = IF i \in R THEN v ELSE Append(v, EntryOf(P[i]))
      BY DEF round
    <3> QED BY <2>1, <3>1, <3>2, Zenon
  <2> DEFINE e == [i \in 0 .. n |-> IF i = 0 THEN base ELSE
                            IF i \in R THEN g[i - 1] ELSE Append(g[i - 1], EntryOf(P[i]))]
  <2>3. ASSUME NEW i \in 0 .. n
        PROVE  g[i] = e[i]
    <3>1. i = 0 \/ i \in 1 .. n
      BY <1>1
    <3>2. 0 \notin 1 .. n
      OBVIOUS
    <3> QED BY <2>1, <2>2, <3>1, <3>2, Zenon
  <2>4. g = [i \in 0 .. n |-> g[i]] /\ e = [i \in 0 .. n |-> e[i]]
    BY <2>1, Zenon
  <2>5. Copied(g) = e
    BY <1>8, Zenon
  <2> HIDE DEF Copied, e
  <2> QED BY <2>3, <2>4, <2>5, Zenon
<1>12. MapAfter(lm) = Copied(MapAfter(lm))
  <2>1. MapAfter(lm) = CHOOSE h : h = Copied(h)
    BY Zenon DEF MapAfter, Copies
  <2> HIDE DEF Copied
  <2> QED BY <1>11, <2>1, Zenon
<1> DEFINE s == MapAfter(lm)
<1>13. s = [i \in 0 .. n |-> IF i = 0 THEN base ELSE
                             IF i \in R THEN s[i - 1] ELSE Append(s[i - 1], EntryOf(P[i]))]
  <2> HIDE DEF s, Copied
  <2> QED BY <1>8, <1>12, Zenon DEF s
<1>14. copyIntoMemoryMap(SquashedMap(lm)) = s[n]
  BY <1>4 DEF copyIntoMemoryMap, MapAfter
<1> HIDE DEF s
<1>15. s[0] = base /\ \A i \in 1 .. n : s[i] = IF i \in R THEN s[i - 1]
                                               ELSE Append(s[i - 1], EntryOf(P[i]))
  <2>1. 0 \in 0 .. n /\ 0 \notin 1 .. n /\ 1 .. n \subseteq 0 .. n
    BY <1>1
  <2>2. ASSUME NEW i \in 0 .. n
        PROVE  s[i] = IF i = 0 THEN base ELSE
                      IF i \in R THEN s[i - 1] ELSE Append(s[i - 1], EntryOf(P[i]))
    BY <1>13, Zenon
  <2> QED BY <2>1, <2>2, Zenon
<1> QED BY <1>14, <1>15 DEF s, n, R, P, base

\* The kernel's map holds sequences of entries.
LEMMA CopiesType ==
    ASSUME NEW lm, AcceptedMap(lm)
    PROVE  \A i \in 0 .. Len(lm) : MapAfter(lm)[i] \in Seq(CopiedEntries(lm))
<1> DEFINE s == MapAfter(lm)  n == Len(lm)  V == Seq(CopiedEntries(lm))
           S == {i \in 0 .. n : s[i] \in V}
<1>1. n \in Nat /\ DOMAIN lm = 1 .. n
  BY AcceptedEntries
<1>2. FirstEntry \in CopiedEntries(lm)
  BY Zenon DEF CopiedEntries
<1>3. \A i \in Kept(lm) : EntryOf(Processed(lm)[i]) \in CopiedEntries(lm)
  BY Zenon DEF CopiedEntries
<1>4. ASSUME NEW T, NEW x \in T
      PROVE  << x >> \in Seq(T) /\ << >> \in Seq(T) /\ \A u \in Seq(T) : Append(u, x) \in Seq(T)
  OBVIOUS
<1>5. 0 \in S
  <2>1. s[0] \in V
    BY <1>2, <1>4, CopiesRound, Zenon
  <2> QED BY <1>1, <2>1
<1>6. ASSUME NEW k \in 1 .. n, k - 1 \in S
      PROVE  k \in S
  <2>1. s[k - 1] \in V
    BY <1>6, Zenon
  <2>2. s[k] = IF k \in Removed(lm) THEN s[k - 1] ELSE Append(s[k - 1], EntryOf(Processed(lm)[k]))
    BY <1>6, CopiesRound, Zenon
  <2>3. k \notin Removed(lm) => EntryOf(Processed(lm)[k]) \in CopiedEntries(lm)
    BY <1>1, <1>3, Zenon DEF Kept
  <2>4. s[k] \in V
    BY <1>4, <2>1, <2>2, <2>3, Zenon
  <2>5. k \in 0 .. n
    OBVIOUS
  <2> QED BY <2>4, <2>5, Zenon
<1>7. 0 .. n \subseteq S
  <2>1. n \in Nat
    BY <1>1
  <2> HIDE DEF S, n
  <2> QED BY <1>5, <1>6, <2>1, SetInduction, ZenonT(30)
<1> QED BY <1>7, Zenon

\* Every entry that stays is copied.
LEMMA CopiesKept ==
    ASSUME NEW lm, AcceptedMap(lm)
    PROVE  \A i \in 0 .. Len(lm) : \A k \in Kept(lm) :
             k <= i => \E j \in DOMAIN MapAfter(lm)[i] :
                          MapAfter(lm)[i][j] = EntryOf(Processed(lm)[k])
<1> DEFINE s == MapAfter(lm)  n == Len(lm)  E(k) == EntryOf(Processed(lm)[k])
           S == {i \in 0 .. n : \A k \in Kept(lm) : k <= i => \E j \in DOMAIN s[i] : s[i][j] = E(k)}
<1>1. n \in Nat /\ DOMAIN lm = 1 .. n /\ Kept(lm) \subseteq 1 .. n
  BY AcceptedEntries DEF Kept
<1>2. \A i \in 0 .. n : s[i] \in Seq(CopiedEntries(lm))
  BY CopiesType
<1>3. \A i \in 1 .. n : s[i] = IF i \in Removed(lm) THEN s[i - 1] ELSE Append(s[i - 1], E(i))
  BY CopiesRound
<1> HIDE DEF s, n, E
<1>4. 0 \in S
  BY <1>1
<1>5. ASSUME NEW i \in 1 .. n, i - 1 \in S
      PROVE  i \in S
  <2>1. ASSUME NEW k \in Kept(lm), k <= i
        PROVE  \E j \in DOMAIN s[i] : s[i][j] = E(k)
    <3>1. k \in 1 .. n /\ k \notin Removed(lm) /\ i - 1 \in 0 .. n
      BY <1>1 DEF Kept
    <3>2. s[i - 1] \in Seq(CopiedEntries(lm))
      BY <1>2, <3>1
    <3>3. CASE i \in Removed(lm)
      <4>1. k <= i - 1 /\ s[i] = s[i - 1]
        BY <1>3, <2>1, <3>1, <3>3
      <4> QED BY <1>5, <4>1
    <3>4. CASE i \notin Removed(lm)
      <4>1. s[i] = Append(s[i - 1], E(i))
        BY <1>3, <3>4, Zenon
      <4>2. CASE k = i
        <5>1. Len(s[i - 1]) + 1 \in DOMAIN s[i] /\ s[i][Len(s[i - 1]) + 1] = E(i)
          BY <3>2, <4>1
        <5> QED BY <4>2, <5>1
      <4>3. CASE k # i
        <5>1. k <= i - 1
          BY <2>1, <3>1, <4>3
        <5>2. PICK j \in DOMAIN s[i - 1] : s[i - 1][j] = E(k)
          BY <1>5, <5>1
        <5>3. j \in DOMAIN s[i] /\ s[i][j] = s[i - 1][j]
          BY <3>2, <4>1, <5>2
        <5> QED BY <5>2, <5>3
      <4> QED BY <4>2, <4>3
    <3> QED BY <3>3, <3>4
  <2>2. i \in 0 .. n
    OBVIOUS
  <2> QED BY <2>1, <2>2, Zenon
<1>6. 0 .. n \subseteq S
  <2>1. n \in Nat
    BY <1>1
  <2> HIDE DEF S, n
  <2> QED BY <1>4, <1>5, <2>1, SetInduction, ZenonT(30)
<1> QED BY <1>6, Zenon DEF s, n, E

\* The entries of the kernel's map come from entries that stay.
LEMMA CopiesFromKept ==
    ASSUME NEW lm, AcceptedMap(lm)
    PROVE  \A i \in 0 .. Len(lm) : \A j \in DOMAIN MapAfter(lm)[i] :
             \/ MapAfter(lm)[i][j] = FirstEntry
             \/ \E k \in Kept(lm) : k <= i /\ MapAfter(lm)[i][j] = EntryOf(Processed(lm)[k])
<1> DEFINE s == MapAfter(lm)  n == Len(lm)  E(k) == EntryOf(Processed(lm)[k])
           From(i, e) == e = FirstEntry \/ \E k \in Kept(lm) : k <= i /\ e = E(k)
           S == {i \in 0 .. n : \A j \in DOMAIN s[i] : From(i, s[i][j])}
<1>1. n \in Nat /\ DOMAIN lm = 1 .. n /\ Kept(lm) \subseteq 1 .. n
  BY AcceptedEntries DEF Kept
<1>2. \A i \in 0 .. n : s[i] \in Seq(CopiedEntries(lm))
  BY CopiesType
<1>3. \A i \in 1 .. n : s[i] = IF i \in Removed(lm) THEN s[i - 1] ELSE Append(s[i - 1], E(i))
  BY CopiesRound
<1>4. s[0] = IF HasFirstEntry(lm) THEN << FirstEntry >> ELSE << >>
  BY CopiesRound
<1> HIDE DEF s, n, E
<1>5. 0 \in S
  <2>1. ASSUME NEW j \in DOMAIN s[0]
        PROVE  s[0][j] = FirstEntry
    BY <1>4
  <2>2. 0 \in 0 .. n
    BY <1>1
  <2> QED BY <2>1, <2>2, Zenon
<1>6. ASSUME NEW i \in 1 .. n, NEW e, From(i - 1, e)
      PROVE  From(i, e)
  <2>1. ASSUME NEW k \in Kept(lm), k <= i - 1
        PROVE  k <= i
    BY <1>1, <2>1
  <2> QED BY <1>6, <2>1, Zenon
<1>7. ASSUME NEW i \in 1 .. n, i - 1 \in S
      PROVE  i \in S
  <2>1. i - 1 \in 0 .. n /\ i \in 0 .. n
    BY <1>1
  <2>2. s[i - 1] \in Seq(CopiedEntries(lm))
    BY <1>2, <2>1
  <2>3. ASSUME NEW j \in DOMAIN s[i]
        PROVE  From(i, s[i][j])
    <3>1. CASE i \in Removed(lm)
      <4>1. s[i] = s[i - 1]
        BY <1>3, <3>1, Zenon
      <4> HIDE DEF From
      <4>2. From(i - 1, s[i][j])
        BY <1>7, <4>1, Zenon
      <4> QED BY <1>6, <4>2, Zenon
    <3>2. CASE i \notin Removed(lm)
      <4>1. s[i] = Append(s[i - 1], E(i))
        BY <1>3, <3>2, Zenon
      <4>2. \/ j \in DOMAIN s[i - 1] /\ s[i][j] = s[i - 1][j]
            \/ s[i][j] = E(i)
        BY <2>2, <4>1
      <4>3. ASSUME j \in DOMAIN s[i - 1], s[i][j] = s[i - 1][j]
            PROVE  From(i, s[i][j])
        <5> HIDE DEF From
        <5>1. From(i - 1, s[i][j])
          BY <1>7, <4>3, Zenon
        <5> QED BY <1>6, <5>1, Zenon
      <4>4. i \in Kept(lm) /\ i <= i
        BY <1>1, <3>2 DEF Kept
      <4> QED BY <4>2, <4>3, <4>4, Zenon
    <3> QED BY <3>1, <3>2
  <2> HIDE DEF From
  <2> QED BY <2>1, <2>3, Zenon
<1>8. 0 .. n \subseteq S
  <2>1. n \in Nat
    BY <1>1
  <2> HIDE DEF S, n
  <2> QED BY <1>5, <1>7, <2>1, SetInduction, ZenonT(30)
<1> QED BY <1>8, Zenon DEF s, n, E

\* processLimineMemoryMap counts the entries copyIntoMemoryMap makes.
LEMMA CopiesLength ==
    ASSUME NEW lm, AcceptedMap(lm)
    PROVE  ProcessedCount(lm) = Len(copyIntoMemoryMap(SquashedMap(lm)))
<1> DEFINE s == MapAfter(lm)  n == Len(lm)  E(k) == EntryOf(Processed(lm)[k])  R == Removed(lm)
           b == IF HasFirstEntry(lm) THEN 1 ELSE 0
           S == {i \in 0 .. n : Len(s[i]) + Cardinality(R \cap 1 .. i) = i + b}
<1>1. n \in Nat /\ DOMAIN lm = 1 .. n /\ R \subseteq 1 .. n
  BY AcceptedEntries DEF Removed
<1>2. \A i \in 0 .. n : s[i] \in Seq(CopiedEntries(lm))
  BY CopiesType
<1>3. \A i \in 1 .. n : s[i] = IF i \in R THEN s[i - 1] ELSE Append(s[i - 1], E(i))
  BY CopiesRound
<1>4. s[0] = IF HasFirstEntry(lm) THEN << FirstEntry >> ELSE << >>
  BY CopiesRound
<1>5. copyIntoMemoryMap(SquashedMap(lm)) = s[n]
  BY CopiesRound
<1>6. ProcessedCount(lm) = n + b - Cardinality(R)
  <2>1. 1 \in DOMAIN lm /\ lm[1].length \in Nat
    BY AcceptedEntries
  <2>2. HasFirstEntry(lm) => lm[1].length > 1
    BY <2>1, AcceptedEntries DEF HasFirstEntry
  <2> HIDE DEF R
  <2>3. ProcessedCount(lm) = (IF HasFirstEntry(lm) THEN n + 1 ELSE n) - Cardinality(R)
    BY <2>2, Zenon DEF ProcessedCount, HasFirstEntry, R, n
  <2>4. Cardinality(R) \in Nat
    <3>1. IsFiniteSet(1 .. n)
      BY <1>1, FS_Interval
    <3>2. R \in SUBSET (1 .. n)
      BY <1>1, Zenon
    <3>3. IsFiniteSet(R)
      BY <3>1, <3>2, FS_Subset, Zenon
    <3> QED BY <3>3, FS_CardinalityType, Zenon
  <2> QED BY <2>3, <2>4, <1>1
<1>7. b \in Nat
  OBVIOUS
<1>8. \A i \in 0 .. n : IsFiniteSet(R \cap 1 .. i) /\ Cardinality(R \cap 1 .. i) \in Nat
  <2>1. ASSUME NEW i \in 0 .. n
        PROVE  IsFiniteSet(R \cap 1 .. i) /\ Cardinality(R \cap 1 .. i) \in Nat
    <3>1. IsFiniteSet(1 .. i)
      BY FS_Interval
    <3>2. IsFiniteSet(R \cap 1 .. i)
      BY <3>1, FS_Intersection
    <3> QED BY <3>2, FS_CardinalityType
  <2> QED BY <2>1, Zenon
<1>9. Len(s[0]) = b
  BY <1>4
<1> HIDE DEF s, n, E, R, b
<1>10. 0 \in S
  <2>1. R \cap 1 .. 0 = {}
    OBVIOUS
  <2>2. Cardinality(R \cap 1 .. 0) = 0
    BY <2>1, FS_EmptySet
  <2>3. Len(s[0]) + Cardinality(R \cap 1 .. 0) = 0 + b
    BY <1>7, <1>9, <2>2
  <2> QED BY <1>1, <2>3
<1>11. ASSUME NEW i \in 1 .. n, i - 1 \in S
       PROVE  i \in S
  <2>1. i - 1 \in 0 .. n /\ i \in 0 .. n
    BY <1>1
  <2>2. s[i - 1] \in Seq(CopiedEntries(lm))
    BY <1>2, <2>1
  <2>3. Len(s[i - 1]) \in Nat
    BY <2>2
  <2> DEFINE A == R \cap 1 .. (i - 1)  c == Cardinality(A)
  <2>4. IsFiniteSet(A) /\ c \in Nat
    BY <1>8, <2>1
  <2>5. Len(s[i - 1]) + c = i - 1 + b
    BY <1>11
  <2>6. CASE i \in R
    <3>1. s[i] = s[i - 1]
      BY <1>3, <2>6, Zenon
    <3>2. R \cap 1 .. i = A \cup {i} /\ i \notin A
      BY <2>6
    <3> HIDE DEF A
    <3>3. Cardinality(R \cap 1 .. i) = c + 1
      BY <2>4, <3>2, FS_AddElement
    <3>4. Len(s[i]) + Cardinality(R \cap 1 .. i) = i + b
      <4> HIDE DEF c
      <4> QED BY <1>7, <2>3, <2>4, <2>5, <3>1, <3>3
    <3> QED BY <2>1, <3>4
  <2>7. CASE i \notin R
    <3>1. s[i] = Append(s[i - 1], E(i))
      BY <1>3, <2>7, Zenon
    <3>2. R \cap 1 .. i = A
      BY <2>7
    <3>3. Len(s[i]) = Len(s[i - 1]) + 1
      BY <2>2, <3>1
    <3>4. Len(s[i]) + Cardinality(R \cap 1 .. i) = i + b
      <4>1. Cardinality(R \cap 1 .. i) = c
        BY <3>2
      <4> HIDE DEF c
      <4> QED BY <1>7, <2>3, <2>4, <2>5, <3>3, <4>1
    <3> QED BY <2>1, <3>4
  <2> QED BY <2>6, <2>7
<1>12. 0 .. n \subseteq S
  <2>1. n \in Nat
    BY <1>1
  <2> HIDE DEF S, n
  <2> QED BY <1>10, <1>11, <2>1, SetInduction, ZenonT(30)
<1>13. Len(s[n]) + Cardinality(R) = n + b
  <2>1. n \in S
    BY <1>1, <1>12
  <2>2. R \cap 1 .. n = R
    BY <1>1, Zenon
  <2> QED BY <2>1, <2>2
<1>14. Len(s[n]) \in Nat /\ Cardinality(R) \in Nat
  <2>1. R \cap 1 .. n = R
    BY <1>1, Zenon
  <2>2. n \in 0 .. n
    BY <1>1
  <2>3. Cardinality(R) \in Nat
    BY <1>8, <2>1, <2>2, Zenon
  <2>4. s[n] \in Seq(CopiedEntries(lm))
    BY <1>2, <2>2, Zenon
  <2> QED BY <2>3, <2>4
<1> QED BY <1>1, <1>5, <1>6, <1>7, <1>13, <1>14

\* Of two usable entries of the kernel's map, the first ends before the second.
LEMMA CopiesOrdered ==
    ASSUME NEW lm, AcceptedMap(lm)
    PROVE  \A i \in 0 .. Len(lm) : \A j, k \in DOMAIN MapAfter(lm)[i] :
             j < k /\ MapAfter(lm)[i][j].type = "usable" /\ MapAfter(lm)[i][k].type = "usable" =>
               MapAfter(lm)[i][j].address + MapAfter(lm)[i][j].length
                 <= MapAfter(lm)[i][k].address
<1> DEFINE s == MapAfter(lm)  n == Len(lm)  E(k) == EntryOf(Processed(lm)[k])
           Before(e, f) == e.type = "usable" /\ f.type = "usable" => e.address + e.length <= f.address
           S == {i \in 0 .. n : \A j, k \in DOMAIN s[i] : j < k => Before(s[i][j], s[i][k])}
<1>1. n \in Nat /\ DOMAIN lm = 1 .. n /\ Kept(lm) \subseteq 1 .. n
  BY AcceptedEntries DEF Kept
<1>2. \A i \in 0 .. n : s[i] \in Seq(CopiedEntries(lm))
  BY CopiesType
<1>3. \A i \in 1 .. n : s[i] = IF i \in Removed(lm) THEN s[i - 1] ELSE Append(s[i - 1], E(i))
  BY CopiesRound
<1>4. s[0] = IF HasFirstEntry(lm) THEN << FirstEntry >> ELSE << >>
  BY CopiesRound
<1>5. \A i \in 0 .. n : \A j \in DOMAIN s[i] :
        s[i][j] = FirstEntry \/ \E k \in Kept(lm) : k <= i /\ s[i][j] = E(k)
  BY CopiesFromKept
<1>6. ASSUME NEW f
      PROVE  Before(FirstEntry, f)
  BY DEF FirstEntry
<1>7. ASSUME NEW k \in Kept(lm), NEW i \in Kept(lm), k < i
      PROVE  Before(E(k), E(i))
  <2> DEFINE P == Processed(lm)
  <2>1. P[k].type = lm[k].type /\ P[i].type = lm[i].type
    BY ProcessedEntry DEF Kept
  <2>2. P[k].type = "usable" => P[k].base + P[k].length <= P[i].base
    BY <1>7, <2>1, KeptOrdered, ZenonT(30)
  <2> HIDE DEF P
  <2>3. E(k).type = "usable" => P[k].type = "usable"
    BY DEF EntryOf, getMemoryType, P
  <2>4. /\ E(k).address = P[k].base /\ E(k).length = P[k].length
        /\ E(i).address = P[i].base
    BY DEF EntryOf, P
  <2> HIDE DEF E
  <2> QED BY <2>2, <2>3, <2>4, Zenon
<1> HIDE DEF s, n, E, Before
<1>8. 0 \in S
  <2>1. ASSUME NEW j \in DOMAIN s[0], NEW k \in DOMAIN s[0]
        PROVE  ~(j < k)
    BY <1>4
  <2>2. 0 \in 0 .. n
    BY <1>1
  <2> QED BY <2>1, <2>2, Zenon
<1>9. ASSUME NEW i \in 1 .. n, i - 1 \in S
      PROVE  i \in S
  <2>1. i - 1 \in 0 .. n /\ i \in 0 .. n
    BY <1>1
  <2>2. s[i - 1] \in Seq(CopiedEntries(lm))
    BY <1>2, <2>1
  <2>3. CASE i \in Removed(lm)
    <3>1. s[i] = s[i - 1]
      BY <1>3, <2>3, Zenon
    <3> QED BY <1>9, <2>1, <3>1, Zenon
  <2>4. CASE i \notin Removed(lm)
    <3>1. s[i] = Append(s[i - 1], E(i))
      BY <1>3, <2>4, Zenon
    <3>2. i \in Kept(lm)
      BY <1>1, <2>4 DEF Kept
    <3>3. ASSUME NEW j \in DOMAIN s[i], NEW k \in DOMAIN s[i], j < k
          PROVE  Before(s[i][j], s[i][k])
      <4>1. j \in DOMAIN s[i - 1] /\ s[i][j] = s[i - 1][j]
        BY <2>2, <3>1, <3>3
      <4>2. (k \in DOMAIN s[i - 1] /\ s[i][k] = s[i - 1][k]) \/ s[i][k] = E(i)
        BY <2>2, <3>1
      <4>3. CASE k \in DOMAIN s[i - 1] /\ s[i][k] = s[i - 1][k]
        BY <1>9, <3>3, <4>1, <4>3, Zenon
      <4>4. CASE s[i][k] = E(i)
        <5>1. CASE s[i][j] = FirstEntry
          BY <1>6, <5>1, Zenon
        <5>2. ASSUME NEW m \in Kept(lm), m <= i - 1, s[i][j] = E(m)
              PROVE  Before(s[i][j], s[i][k])
          <6>1. m < i
            BY <1>1, <5>2
          <6> QED BY <1>7, <3>2, <4>4, <5>2, <6>1, Zenon
        <5> QED BY <1>5, <2>1, <4>1, <5>1, <5>2, Zenon
      <4> QED BY <4>2, <4>3, <4>4
    <3> QED BY <2>1, <3>3, Zenon
  <2> QED BY <2>3, <2>4
<1>10. 0 .. n \subseteq S
  <2>1. n \in Nat
    BY <1>1
  <2> HIDE DEF S, n
  <2> QED BY <1>8, <1>9, <2>1, SetInduction, ZenonT(30)
<1> QED BY <1>10, Zenon DEF s, n, Before

-----------------------------------------------------------------------------
\* The kernel's map once copied: its entries are the first page and the entries
\* that stay, with their sizes; the usable ones follow each other.
LEMMA KernelMap ==
    ASSUME NEW lm, AcceptedMap(lm), NEW M, M = copyIntoMemoryMap(SquashedMap(lm))
    PROVE  /\ M \in Seq(CopiedEntries(lm))
           /\ \A i \in DOMAIN M : \/ M[i] = FirstEntry
                                  \/ \E k \in Kept(lm) : M[i] = EntryOf(Processed(lm)[k])
           /\ \A k \in Kept(lm) : \E i \in DOMAIN M : M[i] = EntryOf(Processed(lm)[k])
           /\ \A j, k \in DOMAIN M :
                j < k /\ M[j].type = "usable" /\ M[k].type = "usable" =>
                  M[j].address + M[j].length <= M[k].address
<1> DEFINE n == Len(lm)  s == MapAfter(lm)
<1>1. n \in Nat /\ \A k \in Kept(lm) : k <= n
  BY AcceptedEntries DEF Kept
<1>2. M = s[n] /\ n \in 0 .. n
  BY <1>1, CopiesRound
<1>3. M \in Seq(CopiedEntries(lm))
  BY <1>2, CopiesType, Zenon
<1>4. \A i \in DOMAIN M : M[i] = FirstEntry \/ \E k \in Kept(lm) : M[i] = EntryOf(Processed(lm)[k])
  <2>1. \A m \in 0 .. n : \A i \in DOMAIN s[m] :
          s[m][i] = FirstEntry \/ \E k \in Kept(lm) : k <= m /\ s[m][i] = EntryOf(Processed(lm)[k])
    BY CopiesFromKept
  <2>2. \A i \in DOMAIN s[n] :
          s[n][i] = FirstEntry \/ \E k \in Kept(lm) : s[n][i] = EntryOf(Processed(lm)[k])
    <3> HIDE DEF s, n
    <3> QED BY <1>2, <2>1
  <2> HIDE DEF s, n
  <2> QED BY <1>2, <2>2
<1>5. \A k \in Kept(lm) : \E i \in DOMAIN M : M[i] = EntryOf(Processed(lm)[k])
  BY <1>1, <1>2, CopiesKept, Zenon
<1>6. \A j, k \in DOMAIN M :
        j < k /\ M[j].type = "usable" /\ M[k].type = "usable" =>
          M[j].address + M[j].length <= M[k].address
  BY <1>2, CopiesOrdered, ZenonT(30)
<1> QED BY <1>3, <1>4, <1>5, <1>6

\* The types of the kernel's entries are those of the entries they come from,
\* bad memory apart.
LEMMA EntryFields ==
    ASSUME NEW lm, AcceptedMap(lm), NEW k \in Kept(lm)
    PROVE  /\ EntryOf(Processed(lm)[k]).address = Processed(lm)[k].base
           /\ EntryOf(Processed(lm)[k]).length = Processed(lm)[k].length
           /\ EntryOf(Processed(lm)[k]).type = getMemoryType(lm[k].type)
<1>1. Processed(lm)[k].type = lm[k].type
  BY ProcessedEntry DEF Kept
<1> QED BY <1>1 DEF EntryOf

\* Every entry has pages; the usable ones do not hold the page at address 0, and
\* end at the last usable page at the latest.
LEMMA KernelEntry ==
    ASSUME NEW lm, AcceptedMap(lm), NEW M, M = copyIntoMemoryMap(SquashedMap(lm)),
           NEW i \in DOMAIN M
    PROVE  /\ M[i].address \in Nat /\ M[i].length \in Nat \ {0}
           /\ M[i].type = "usable" => M[i].address >= 1
           /\ MMAP_MAX_ENTRIES * M[i].length < CounterMod
<1>1. M[i] = FirstEntry \/ \E k \in Kept(lm) : M[i] = EntryOf(Processed(lm)[k])
  <2>1. \A j \in DOMAIN M : M[j] = FirstEntry \/ \E k \in Kept(lm) : M[j] = EntryOf(Processed(lm)[k])
    BY KernelMap
  <2> QED BY <2>1, Zenon
<1>2. /\ MMAP_MAX_ENTRIES \in Nat /\ CounterMod \in Nat
      /\ \A j \in DOMAIN lm : MMAP_MAX_ENTRIES * (lm[j].base + lm[j].length) < CounterMod
  BY LimineAssumption, CounterModAssumption DEF AcceptedMap, LimineMap
<1>3. ASSUME NEW a \in Nat, NEW b \in Nat, a <= b
      PROVE  MMAP_MAX_ENTRIES * a <= MMAP_MAX_ENTRIES * b
  BY <1>2, <1>3, Z3
<1>4. ASSUME NEW j \in DOMAIN lm, NEW a \in Nat, a <= lm[j].base + lm[j].length
      PROVE  MMAP_MAX_ENTRIES * a < CounterMod
  <2> DEFINE b == lm[j].base + lm[j].length
  <2>1. b \in Nat
    BY AcceptedEntries
  <2>2. MMAP_MAX_ENTRIES * a <= MMAP_MAX_ENTRIES * b /\ MMAP_MAX_ENTRIES * b < CounterMod
    BY <1>2, <1>3, <1>4, <2>1
  <2>3. MMAP_MAX_ENTRIES * a \in Nat /\ MMAP_MAX_ENTRIES * b \in Nat
    BY <1>2, <2>1
  <2> HIDE DEF b
  <2> QED BY <1>2, <2>2, <2>3
<1>5. CASE M[i] = FirstEntry
  <2>1. 1 \in DOMAIN lm /\ 1 <= lm[1].base + lm[1].length
    BY AcceptedEntries
  <2>2. MMAP_MAX_ENTRIES * 1 < CounterMod
    BY <1>4, <2>1
  <2> QED BY <1>5, <2>2 DEF FirstEntry
<1>6. ASSUME NEW k \in Kept(lm), M[i] = EntryOf(Processed(lm)[k])
      PROVE  /\ M[i].address \in Nat /\ M[i].length \in Nat \ {0}
             /\ M[i].type = "usable" => M[i].address >= 1
             /\ MMAP_MAX_ENTRIES * M[i].length < CounterMod
  <2> DEFINE P == Processed(lm)
  <2>1. /\ M[i].address = P[k].base /\ M[i].length = P[k].length
        /\ M[i].type = getMemoryType(lm[k].type) /\ k \in DOMAIN lm
    BY <1>6, EntryFields DEF Kept
  <2>2. /\ P[k].base \in Nat /\ P[k].length \in Nat \ {0}
        /\ lm[k].type = "usable" => P[k].base >= 1
    BY <2>1, ProcessedEntry, AcceptedEntries
  <2>3. PICK j \in DOMAIN lm : P[k].base + P[k].length = lm[j].base + lm[j].length
    BY KeptEnd
  <2> HIDE DEF P
  <2>4. MMAP_MAX_ENTRIES * P[k].length < CounterMod
    BY <1>4, <2>2, <2>3
  <2> QED BY <2>1, <2>2, <2>4 DEF getMemoryType
<1> QED BY <1>1, <1>5, <1>6

\* The last usable page lies after every usable entry.
LEMMA LastUsable ==
    ASSUME NEW lm, AcceptedMap(lm), NEW k \in Kept(lm), lm[k].type = "usable"
    PROVE  /\ parseLimineMemoryMap(lm).lastUsablePage \in Int
           /\ Processed(lm)[k].base + Processed(lm)[k].length - 1
                <= parseLimineMemoryMap(lm).lastUsablePage
<1> DEFINE alloc == IndicesOf(lm, Allocatable)  m == Max(alloc)
<1>1. PICK j \in DOMAIN lm :
        /\ lm[j].type = lm[k].type
        /\ Processed(lm)[k].base + Processed(lm)[k].length = lm[j].base + lm[j].length
  BY KeptEnd
<1>2. j \in alloc /\ alloc \subseteq 1 .. Len(lm) /\ Len(lm) \in Nat
  BY <1>1, AcceptedEntries DEF IndicesOf, Allocatable
<1>3. m \in alloc /\ \A y \in alloc : y <= m
  <2> HIDE DEF alloc
  <2>1. alloc # {}
    BY <1>2
  <2> QED BY <1>2, <2>1, Extremes
<1>4. parseLimineMemoryMap(lm).lastUsablePage = lm[m].base + lm[m].length - 1
  <2>1. alloc # {}
    BY <1>2
  <2> HIDE DEF alloc, m
  <2> QED BY <2>1 DEF parseLimineMemoryMap, alloc, m
<1>5. m \in DOMAIN lm /\ m \in Nat /\ j \in Nat
  BY <1>2, <1>3, AcceptedEntries
<1> HIDE DEF alloc, m
<1>6. /\ lm[m].base \in Nat /\ lm[m].length \in Nat \ {0}
      /\ lm[j].base \in Nat /\ lm[j].length \in Nat
  BY <1>1, <1>5, AcceptedEntries
<1>7. lm[j].base + lm[j].length <= lm[m].base + lm[m].length
  <2>1. CASE j = m
    BY <1>6, <2>1
  <2>2. CASE j # m
    <3>1. j < m
      BY <1>2, <1>3, <1>5, <2>2
    <3>2. lm[j].base + lm[j].length <= lm[m].base
      BY <1>1, <1>5, <3>1, AcceptedOrder
    <3> QED BY <1>6, <3>2
  <2> QED BY <2>1, <2>2
<1>8. Processed(lm)[k].base \in Nat /\ Processed(lm)[k].length \in Nat
  BY ProcessedEntry DEF Kept
<1> QED BY <1>1, <1>4, <1>6, <1>7, <1>8

\* The pages of a type, in Limine's map.
LEMMA InPagesOfType ==
    ASSUME NEW lm, AcceptedMap(lm), NEW type, NEW p
    PROVE  p \in PagesOfType(lm, {type}) <=>
             p \in Int /\ \E i \in DOMAIN lm : /\ lm[i].type = type /\ lm[i].base <= p
                                               /\ p < lm[i].base + lm[i].length
<1>1. ASSUME NEW i \in DOMAIN lm
      PROVE  p \in lm[i].base .. lm[i].base + lm[i].length - 1 <=>
               p \in Int /\ lm[i].base <= p /\ p < lm[i].base + lm[i].length
  BY AcceptedEntries
<1> QED BY <1>1, Zenon DEF PagesOfType, IndicesOf

\* Copying loses and invents no page of a type, the page at address 0 apart.
LEMMA KernelPages ==
    ASSUME NEW lm, AcceptedMap(lm), NEW M, M = copyIntoMemoryMap(SquashedMap(lm)),
           NEW type \in KnownTypes \ {"bad", "reserved"}, NEW p \in Int
    PROVE  (\E i \in DOMAIN M : /\ M[i].type = type /\ M[i].address <= p
                                /\ p < M[i].address + M[i].length)
           <=> p \in PagesOfType(lm, {type}) \ (IF type = "usable" THEN {0} ELSE {})
<1> DEFINE P == Processed(lm)
           InMap == \E i \in DOMAIN M : /\ M[i].type = type /\ M[i].address <= p
                                        /\ p < M[i].address + M[i].length
<1>1. type # "bad" /\ type # "reserved"
  OBVIOUS
<1>2. ASSUME NEW k \in Kept(lm)
      PROVE  /\ EntryOf(P[k]).address = P[k].base
             /\ EntryOf(P[k]).length = P[k].length
             /\ EntryOf(P[k]).type = type <=> lm[k].type = type
  BY <1>1, EntryFields DEF getMemoryType
<1>3. FirstEntry.type # type
  BY <1>1 DEF FirstEntry
<1>4. \A i \in DOMAIN M : M[i] = FirstEntry \/ \E k \in Kept(lm) : M[i] = EntryOf(P[k])
  BY KernelMap
<1>5. \A k \in Kept(lm) : \E i \in DOMAIN M : M[i] = EntryOf(P[k])
  BY KernelMap
<1> HIDE DEF P
<1>6. ASSUME InMap
      PROVE  InKept(lm, type, p)
  <2>1. PICK i \in DOMAIN M : /\ M[i].type = type /\ M[i].address <= p
                              /\ p < M[i].address + M[i].length
    BY <1>6
  <2>2. PICK k \in Kept(lm) : M[i] = EntryOf(P[k])
    BY <1>3, <1>4, <2>1
  <2> QED BY <1>2, <2>1, <2>2 DEF InKept, P
<1>7. ASSUME InKept(lm, type, p)
      PROVE  InMap
  <2>1. PICK k \in Kept(lm) : /\ lm[k].type = type /\ P[k].base <= p
                              /\ p < P[k].base + P[k].length
    BY <1>7 DEF InKept, P
  <2>2. PICK i \in DOMAIN M : M[i] = EntryOf(P[k])
    BY <1>5
  <2> QED BY <1>2, <2>1, <2>2
<1>8. p \in PagesOfType(lm, {type}) <=> InGiven(lm, type, p)
  BY InPagesOfType, ZenonT(30) DEF InGiven
<1>9. InKept(lm, type, p) <=> InGiven(lm, type, p) /\ ~(type = "usable" /\ p = 0)
  BY PagesKept
<1> HIDE DEF InMap
<1> QED BY <1>6, <1>7, <1>8, <1>9 DEF InMap
=============================================================================
