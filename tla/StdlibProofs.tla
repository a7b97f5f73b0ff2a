---------------------------- MODULE StdlibProofs ----------------------------
(***************************************************************************)
(* The data structures of Stdlib/mugOS.                                    *)
(*                                                                         *)
(* The linked lists (List.c) do what their names say, for lists of every   *)
(* length: a node is put in front or behind, or is taken out wherever it   *)
(* is, the others stay in their order, and no other list is touched.       *)
(*                                                                         *)
(* The ring buffer (Ringbuffer.c) implements BoundedFifo for every size,   *)
(* as long as no interrupt handler can undo the check the kernel code made *)
(* before it locked.                                                       *)
(***************************************************************************)
EXTENDS List, Ringbuffer, SequenceTheorems, TLAPS

\* Seconds for a step, on a slow machine.
USE SMTT(30)

-----------------------------------------------------------------------------
(***************************************************************************)
(* The lists.                                                              *)
(***************************************************************************)
\* The pointers of some lists and some nodes.
Heap(lists, nodes) ==
    [head : [lists -> Int], tail : [lists -> Int], next : [nodes -> Int], prev : [nodes -> Int]]

\* A list of n of these nodes.
Order(n, nodes, l) == [1 .. n -> nodes \ {l}]

\* The list with a node in front.
Pushed(n, s, x) == [i \in 1 .. n + 1 |-> IF i = 1 THEN x ELSE s[i - 1]]

\* The list with a node at the back.
Extended(n, s, x) == [i \in 1 .. n + 1 |-> IF i <= n THEN s[i] ELSE x]

\* The list without its node number j.
Without(n, s, j) == [i \in 1 .. n - 1 |-> IF i < j THEN s[i] ELSE s[i + 1]]

-----------------------------------------------------------------------------
\* The pointers f of the nodes of S, with the one of x written to y.
Written(S, f, x, y) ==
    /\ Put(f, x, y) \in [S \cup {x} -> Int] /\ Put(f, x, y)[x] = y
    /\ \A z \in S : z # x => Put(f, x, y)[z] = f[z]

\* Writing one pointer leaves the others as they are.
LEMMA OnePointer ==
    ASSUME NEW S, NEW f \in [S -> Int], NEW x, NEW y \in Int
    PROVE  Written(S, f, x, y)
BY Zenon DEF Put, Written

\* List_pushFront puts the node in front of the others.
THEOREM PushFrontCorrect ==
    ASSUME NEW lists \in SUBSET Int, NEW nodes \in SUBSET Int, NEW L \in Heap(lists, nodes),
           NEW l \in lists, NEW n \in Nat, NEW s \in Order(n, nodes, l), Holds(L, l, n, s),
           NEW x \in Int \ {l}, \A i \in 1 .. n : s[i] # x
    PROVE  /\ List_pushFront(L, l, x) \in Heap(lists, nodes \cup {x})
           /\ Holds(List_pushFront(L, l, x), l, n + 1, Pushed(n, s, x))
<1> DEFINE M == List_pushFront(L, l, x)
           t == Pushed(n, s, x)
<1>1. /\ L.head \in [lists -> Int] /\ L.tail \in [lists -> Int]
      /\ L.next \in [nodes -> Int] /\ L.prev \in [nodes -> Int]
  BY DEF Heap
<1>0. l \in Int /\ x \in Int
  OBVIOUS
<1>2. CASE n = 0
  <2>1. List_isEmpty(L, l)
    BY <1>2 DEF List_isEmpty, Holds
  <2>2. M = [head |-> [L.head EXCEPT ![l] = x], tail |-> [L.tail EXCEPT ![l] = x],
             next |-> Put(L.next, x, l), prev |-> Put(L.prev, x, l)]
    BY <2>1, Zenon DEF List_pushFront, Only, Heap
  <2>3. /\ M.head \in [lists -> Int] /\ M.head[l] = x
        /\ M.tail \in [lists -> Int] /\ M.tail[l] = x
    BY <1>1, <2>2
  <2>4. /\ M.next \in [nodes \cup {x} -> Int] /\ M.next[x] = l
        /\ M.prev \in [nodes \cup {x} -> Int] /\ M.prev[x] = l
    <3>1. M.next = Put(L.next, x, l) /\ M.prev = Put(L.prev, x, l)
      BY <2>2
    <3>2. Written(nodes, L.next, x, l)
      BY <1>0, <1>1, OnePointer, Zenon
    <3>3. Written(nodes, L.prev, x, l)
      BY <1>0, <1>1, OnePointer, Zenon
    <3> HIDE DEF M
    <3> QED BY <3>1, <3>2, <3>3, Zenon DEF Written
  <2>5. M \in Heap(lists, nodes \cup {x})
    BY <2>2, <2>3, <2>4 DEF Heap
  <2>6. t[1] = x /\ \A i \in 1 .. n + 1 : i = 1
    BY <1>2 DEF Pushed
  <2> HIDE DEF M, t
  <2>7. Holds(M, l, n + 1, t)
    BY <1>2, <2>3, <2>4, <2>6 DEF Holds
  <2> QED BY <2>5, <2>7 DEF M, t
<1>3. CASE n > 0
  <2>1. s[1] \in nodes /\ s[1] # l /\ L.head[l] = s[1] /\ s[1] \in Int
    <3>1. 1 \in 1 .. n
      BY <1>3
    <3>2. s[1] \in nodes \ {l}
      BY <3>1 DEF Order
    <3>3. L.head[l] = s[1]
      BY <3>1 DEF Holds
    <3> QED BY <3>2, <3>3, Zenon
  <2>2. ~List_isEmpty(L, l)
    BY <2>1 DEF List_isEmpty
  <2>3. M = [head |-> [L.head EXCEPT ![l] = x], tail |-> L.tail,
             next |-> Put(L.next, x, s[1]), prev |-> Put(Put(L.prev, s[1], x), x, l)]
    BY <2>1, <2>2, Zenon DEF List_pushFront, Heap
  <2>4. /\ M.head \in [lists -> Int] /\ M.head[l] = x
        /\ M.tail \in [lists -> Int] /\ M.tail[l] = L.tail[l]
    BY <1>1, <2>3
  <2>5. /\ M.next \in [nodes \cup {x} -> Int] /\ M.next[x] = s[1]
        /\ \A z \in nodes : z # x => M.next[z] = L.next[z]
    BY <1>0, <1>1, <2>1, <2>3 DEF Put
  <2>6. /\ Put(L.prev, s[1], x) \in [nodes \cup {s[1]} -> Int]
        /\ \A z \in nodes \cup {s[1]} : Put(L.prev, s[1], x)[z] = IF z = s[1] THEN x ELSE L.prev[z]
    BY <1>0, <1>1, <2>1, Zenon DEF Put
  <2>7. /\ M.prev \in [nodes \cup {x} -> Int] /\ M.prev[x] = l
        /\ \A z \in nodes : z # x => M.prev[z] = IF z = s[1] THEN x ELSE L.prev[z]
    <3>1. nodes \cup {s[1]} = nodes
      BY <2>1
    <3> DEFINE g == Put(L.prev, s[1], x)
    <3>2. g \in [nodes -> Int] /\ \A z \in nodes : g[z] = IF z = s[1] THEN x ELSE L.prev[z]
      BY <2>6, <3>1
    <3>3. M.prev = Put(g, x, l)
      BY <2>3
    <3> HIDE DEF g, M
    <3>4. DOMAIN g = nodes
      BY <3>2
    <3>5. M.prev = [z \in nodes \cup {x} |-> IF z = x THEN l ELSE g[z]]
      BY <3>3, <3>4, Zenon DEF Put
    <3>6. \A z \in nodes : g[z] \in Int
      BY <3>2, Zenon
    <3>7. M.prev \in [nodes \cup {x} -> Int] /\ M.prev[x] = l
      BY <1>0, <3>5, <3>6, Zenon
    <3>8. \A z \in nodes : z # x => M.prev[z] = g[z]
      BY <3>5
    <3> QED BY <3>2, <3>7, <3>8, Zenon
  <2>8. M \in Heap(lists, nodes \cup {x})
    BY <2>3, <2>4, <2>5, <2>7 DEF Heap
  <2>9. /\ t[1] = x /\ \A i \in 2 .. n + 1 : t[i] = s[i - 1] /\ i - 1 \in 1 .. n
        /\ \A i \in 1 .. n : s[i] \in nodes /\ s[i] # l /\ s[i] # x
    BY DEF Pushed, Order
  <2>10. \A i, j \in 1 .. n + 1 : t[i] = t[j] => i = j
    <3> SUFFICES ASSUME NEW i \in 1 .. n + 1, NEW j \in 1 .. n + 1, t[i] = t[j]
                 PROVE  i = j
      OBVIOUS
    <3>1. (i = 1 \/ i \in 2 .. n + 1) /\ (j = 1 \/ j \in 2 .. n + 1)
      OBVIOUS
    <3> HIDE DEF t
    <3>2. ASSUME i \in 2 .. n + 1, j \in 2 .. n + 1 PROVE i = j
      <4>1. s[i - 1] = s[j - 1] /\ i - 1 \in 1 .. n /\ j - 1 \in 1 .. n
        BY <2>9, <3>2
      <4>2. i - 1 = j - 1
        BY <4>1 DEF Holds
      <4> QED BY <4>2
    <3> QED BY <2>9, <3>1, <3>2
  <2> HIDE DEF M, t
  <2>11. M.head[l] = t[1] /\ M.tail[l] = t[n + 1]
    <3>1. L.tail[l] = s[n]
      BY <1>3 DEF Holds
    <3>2. t[n + 1] = s[n]
      BY <1>3, <2>9
    <3> QED BY <2>4, <2>9, <3>1, <3>2
  <2>12. ASSUME NEW i \in 1 .. n + 1
         PROVE  /\ M.next[t[i]] = IF i + 1 \in 1 .. n + 1 THEN t[i + 1] ELSE l
                /\ M.prev[t[i]] = IF i - 1 \in 1 .. n + 1 THEN t[i - 1] ELSE l
    <3>1. CASE i = 1
      BY <1>3, <2>5, <2>7, <2>9, <3>1
    <3>2. CASE i = 2
      <4>1. t[2] = s[1] /\ t[1] = x
        BY <2>9, <3>2
      <4>2. M.prev[s[1]] = x /\ M.next[s[1]] = L.next[s[1]]
        BY <1>3, <2>5, <2>7, <2>9
      <4>3. L.next[s[1]] = IF 2 \in 1 .. n THEN s[2] ELSE l
        BY <1>3 DEF Holds
      <4>4. 2 \in 1 .. n => t[3] = s[2]
        BY <2>9
      <4> QED BY <3>2, <4>1, <4>2, <4>3, <4>4
    <3>3. CASE i > 2
      <4>1. i - 1 \in 2 .. n /\ t[i] = s[i - 1] /\ t[i - 1] = s[i - 2] /\ s[i - 1] # s[1]
        <5>1. i - 1 \in 2 .. n /\ 1 \in 1 .. n /\ i - 1 # 1
          BY <3>3
        <5>2. s[i - 1] # s[1]
          BY <5>1 DEF Holds
        <5> QED BY <2>9, <3>3, <5>1, <5>2
      <4>2. M.next[s[i - 1]] = L.next[s[i - 1]] /\ M.prev[s[i - 1]] = L.prev[s[i - 1]]
        <5>1. i - 1 \in 1 .. n
          BY <4>1
        <5>2. s[i - 1] \in nodes /\ s[i - 1] # x /\ s[i - 1] # s[1]
          BY <2>9, <4>1, <5>1, Zenon
        <5> QED BY <2>5, <2>7, <5>2, Zenon
      <4>3. /\ L.next[s[i - 1]] = IF i \in 1 .. n THEN s[i] ELSE l
            /\ L.prev[s[i - 1]] = s[i - 2]
        BY <4>1 DEF Holds
      <4>4. i \in 1 .. n => t[i + 1] = s[i]
        BY <2>9, <3>3
      <4> QED BY <3>3, <4>1, <4>2, <4>3, <4>4
    <3> QED BY <3>1, <3>2, <3>3
  <2>13. Holds(M, l, n + 1, t)
    BY <2>10, <2>11, <2>12 DEF Holds
  <2> QED BY <2>8, <2>13 DEF M, t
<1> QED BY <1>2, <1>3
\* List_pushBack, as the lists of timers and of file systems use it, puts the node
\* behind the others.
THEOREM PushBackCorrect ==
    ASSUME NEW lists \in SUBSET Int, NEW nodes \in SUBSET Int, NEW L \in Heap(lists, nodes),
           NEW l \in lists, NEW n \in Nat, NEW s \in Order(n, nodes, l), Holds(L, l, n, s),
           NEW x \in Int \ {l}, \A i \in 1 .. n : s[i] # x
    PROVE  /\ List_pushBack(L, l, x) \in Heap(lists, nodes \cup {x})
           /\ Holds(List_pushBack(L, l, x), l, n + 1, Extended(n, s, x))
<1> DEFINE M == List_pushBack(L, l, x)
           t == Extended(n, s, x)
<1>1. /\ L.head \in [lists -> Int] /\ L.tail \in [lists -> Int]
      /\ L.next \in [nodes -> Int] /\ L.prev \in [nodes -> Int]
  BY DEF Heap
<1>0. l \in Int /\ x \in Int
  OBVIOUS
<1>2. CASE n = 0
  <2>1. List_isEmpty(L, l)
    BY <1>2 DEF List_isEmpty, Holds
  <2>2. M = [head |-> [L.head EXCEPT ![l] = x], tail |-> [L.tail EXCEPT ![l] = x],
             next |-> Put(L.next, x, l), prev |-> Put(L.prev, x, l)]
    BY <2>1, Zenon DEF List_pushBack, Only, Heap
  <2>3. /\ M.head \in [lists -> Int] /\ M.head[l] = x
        /\ M.tail \in [lists -> Int] /\ M.tail[l] = x
    BY <1>1, <2>2
  <2>4. /\ M.next \in [nodes \cup {x} -> Int] /\ M.next[x] = l
        /\ M.prev \in [nodes \cup {x} -> Int] /\ M.prev[x] = l
    <3>1. M.next = Put(L.next, x, l) /\ M.prev = Put(L.prev, x, l)
      BY <2>2
    <3>2. Written(nodes, L.next, x, l)
      BY <1>0, <1>1, OnePointer, Zenon
    <3>3. Written(nodes, L.prev, x, l)
      BY <1>0, <1>1, OnePointer, Zenon
    <3> HIDE DEF M
    <3> QED BY <3>1, <3>2, <3>3, Zenon DEF Written
  <2>5. M \in Heap(lists, nodes \cup {x})
    BY <2>2, <2>3, <2>4 DEF Heap
  <2>6. t[1] = x /\ \A i \in 1 .. n + 1 : i = 1
    BY <1>2 DEF Extended
  <2> HIDE DEF M, t
  <2>7. Holds(M, l, n + 1, t)
    BY <1>2, <2>3, <2>4, <2>6 DEF Holds
  <2> QED BY <2>5, <2>7 DEF M, t
<1>3. CASE n > 0
  <2>1. s[n] \in nodes /\ L.tail[l] = s[n] /\ L.head[l] = s[1] /\ s[n] \in Int /\ s[1] # l
    <3>1. 1 \in 1 .. n /\ n \in 1 .. n
      BY <1>3
    <3>2. s[n] \in nodes \ {l} /\ s[1] \in nodes \ {l}
      BY <3>1 DEF Order
    <3>3. L.head[l] = s[1] /\ L.tail[l] = s[n]
      BY <3>1 DEF Holds
    <3> QED BY <3>2, <3>3, Zenon
  <2>2. ~List_isEmpty(L, l)
    BY <2>1 DEF List_isEmpty
  <2>3. M = [head |-> L.head, tail |-> [L.tail EXCEPT ![l] = x],
             next |-> Put(Put(L.next, s[n], x), x, l), prev |-> Put(L.prev, x, s[n])]
    BY <2>1, <2>2, Zenon DEF List_pushBack, Heap
  <2>4. /\ M.head \in [lists -> Int] /\ M.head[l] = L.head[l]
        /\ M.tail \in [lists -> Int] /\ M.tail[l] = x
    BY <1>1, <2>3
  <2>5. /\ M.prev \in [nodes \cup {x} -> Int] /\ M.prev[x] = s[n]
        /\ \A z \in nodes : z # x => M.prev[z] = L.prev[z]
    <3>1. M.prev = Put(L.prev, x, s[n])
      BY <2>3
    <3>2. Written(nodes, L.prev, x, s[n])
      BY <1>1, <2>1, OnePointer, Zenon
    <3> HIDE DEF M
    <3> QED BY <3>1, <3>2, Zenon DEF Written
  <2>6. /\ M.next \in [nodes \cup {x} -> Int] /\ M.next[x] = l
        /\ \A z \in nodes : z # x => M.next[z] = IF z = s[n] THEN x ELSE L.next[z]
    <3> DEFINE g == Put(L.next, s[n], x)
    <3>1. g \in [nodes -> Int] /\ \A z \in nodes : g[z] = IF z = s[n] THEN x ELSE L.next[z]
      BY <1>0, <1>1, <2>1 DEF Put
    <3>2. M.next = Put(g, x, l)
      BY <2>3
    <3> HIDE DEF g, M
    <3>3. Written(nodes, g, x, l)
      BY <1>0, <3>1, OnePointer, Zenon
    <3> QED BY <3>1, <3>2, <3>3, Zenon DEF Written
  <2>7. M \in Heap(lists, nodes \cup {x})
    BY <2>3, <2>4, <2>5, <2>6 DEF Heap
  <2>8. /\ t[n + 1] = x /\ \A i \in 1 .. n : t[i] = s[i] /\ i \in 1 .. n + 1
        /\ \A i \in 1 .. n + 1 : i = n + 1 \/ i \in 1 .. n
    BY DEF Extended
  <2>9. \A i \in 1 .. n : s[i] \in nodes /\ s[i] # x
    BY DEF Order
  <2> HIDE DEF M, t
  <2>10. \A i, j \in 1 .. n + 1 : t[i] = t[j] => i = j
    BY <2>8, <2>9 DEF Holds
  <2>11. M.head[l] = t[1] /\ M.tail[l] = t[n + 1] /\ 1 \in 1 .. n + 1 /\ n + 1 \in 1 .. n + 1
    BY <1>3, <2>1, <2>4, <2>8
  <2>12. ASSUME NEW i \in 1 .. n + 1
         PROVE  /\ M.next[t[i]] = IF i + 1 \in 1 .. n + 1 THEN t[i + 1] ELSE l
                /\ M.prev[t[i]] = IF i - 1 \in 1 .. n + 1 THEN t[i - 1] ELSE l
    <3>1. CASE i = n + 1
      BY <1>3, <2>5, <2>6, <2>8, <3>1
    <3>2. CASE i = n
      <4>1. t[i] = s[n] /\ t[i + 1] = x /\ M.next[s[n]] = x /\ M.prev[s[n]] = L.prev[s[n]]
        BY <1>3, <2>5, <2>6, <2>8, <2>9, <3>2
      <4>2. L.prev[s[n]] = IF n - 1 \in 1 .. n THEN s[n - 1] ELSE l
        BY <1>3 DEF Holds
      <4>3. n - 1 \in 1 .. n => t[n - 1] = s[n - 1]
        BY <2>8
      <4> QED BY <1>3, <3>2, <4>1, <4>2, <4>3
    <3>3. CASE i < n
      <4>1. i \in 1 .. n /\ i + 1 \in 1 .. n /\ n \in 1 .. n
        BY <1>3, <3>3
      <4>2. s[i] # s[n]
        BY <3>3, <4>1 DEF Holds
      <4>3. /\ t[i] = s[i] /\ t[i + 1] = s[i + 1]
            /\ M.next[s[i]] = L.next[s[i]] /\ M.prev[s[i]] = L.prev[s[i]]
        BY <2>5, <2>6, <2>8, <2>9, <4>1, <4>2, Zenon
      <4>4. /\ L.next[s[i]] = s[i + 1]
            /\ L.prev[s[i]] = IF i - 1 \in 1 .. n THEN s[i - 1] ELSE l
        BY <4>1 DEF Holds
      <4>5. i - 1 \in 1 .. n => t[i - 1] = s[i - 1]
        BY <2>8
      <4> QED BY <3>3, <4>1, <4>3, <4>4, <4>5
    <3> QED BY <2>8, <3>1, <3>2, <3>3
  <2>13. Holds(M, l, n + 1, t)
    BY <2>10, <2>11, <2>12 DEF Holds
  <2> QED BY <2>7, <2>13 DEF M, t
<1> QED BY <1>2, <1>3

-----------------------------------------------------------------------------
\* The pointers of the nodes once node number j is taken out.
Unlinked(M, L, nodes, n, s, j) ==
    \A z \in nodes :
      /\ M.next[z] = IF z = s[j] THEN NULL
                     ELSE IF j > 1 /\ z = s[j - 1] THEN L.next[s[j]] ELSE L.next[z]
      /\ M.prev[z] = IF z = s[j] THEN NULL
                     ELSE IF j < n /\ z = s[j + 1] THEN L.prev[s[j]] ELSE L.prev[z]

\* The lists and the pointers once node number j of list l is taken out.
Popped(M, L, lists, nodes, l, n, s, j) ==
    /\ M \in Heap(lists, nodes)
    /\ M.head[l] = IF j = 1 THEN IF n = 1 THEN l ELSE s[2] ELSE L.head[l]
    /\ M.tail[l] = IF j = n THEN IF n = 1 THEN l ELSE s[n - 1] ELSE L.tail[l]
    /\ \A k \in lists : k # l => M.head[k] = L.head[k] /\ M.tail[k] = L.tail[k]
    /\ Unlinked(M, L, nodes, n, s, j)

\* What List_pop does to the pointers, at the front, at the back, in the middle and
\* to the only node.
LEMMA PopPointers ==
    ASSUME NEW lists \in SUBSET Int, NEW nodes \in SUBSET Int, NEW L \in Heap(lists, nodes),
           NEW l \in lists, NEW n \in Nat, NEW s \in Order(n, nodes, l), Holds(L, l, n, s),
           NEW j \in 1 .. n, NEW M, M = List_pop(L, l, s[j])
    PROVE  Popped(M, L, lists, nodes, l, n, s, j)
<1>1. /\ L.head \in [lists -> Int] /\ L.tail \in [lists -> Int]
      /\ L.next \in [nodes -> Int] /\ L.prev \in [nodes -> Int]
      /\ L = [head |-> L.head, tail |-> L.tail, next |-> L.next, prev |-> L.prev]
  BY DEF Heap
<1>2. /\ \A i \in 1 .. n : s[i] \in nodes /\ s[i] # l /\ s[i] \in Int
      /\ l \in Int /\ NULL \in Int /\ n \in 1 .. n /\ 1 \in 1 .. n
  <2>1. \A i \in 1 .. n : s[i] \in nodes \ {l}
    BY DEF Order
  <2>2. NULL \in Int
    BY DEF NULL
  <2>3. n \in 1 .. n /\ 1 \in 1 .. n
    OBVIOUS
  <2>4. l \in Int /\ \A z \in nodes : z \in Int
    OBVIOUS
  <2>5. \A i \in 1 .. n : s[i] \in nodes /\ s[i] # l /\ s[i] \in Int
    BY <2>1, <2>4, Zenon
  <2> QED BY <2>2, <2>3, <2>4, <2>5
<1>3. \A i \in 1 .. n : s[i] = s[j] => i = j
  BY DEF Holds
<1>4. L.head[l] = s[1] /\ L.tail[l] = s[n]
  BY <1>2 DEF Holds
<1>5. /\ L.next[s[j]] = IF j + 1 \in 1 .. n THEN s[j + 1] ELSE l
      /\ L.prev[s[j]] = IF j - 1 \in 1 .. n THEN s[j - 1] ELSE l
  BY DEF Holds
<1>6. ~List_isEmpty(L, l)
  BY <1>2, <1>4 DEF List_isEmpty
<1>7. (s[j] = L.head[l] <=> j = 1) /\ (s[j] = L.tail[l] <=> j = n)
  BY <1>2, <1>3, <1>4
<1>8. CASE j = 1 /\ j = n
  <2>1. M = popUniqueElement(L, l)
    BY <1>6, <1>7, <1>8 DEF List_pop
  <2>2. M = [head |-> [L.head EXCEPT ![l] = l], tail |-> [L.tail EXCEPT ![l] = l],
             next |-> [L.next EXCEPT ![s[j]] = NULL], prev |-> [L.prev EXCEPT ![s[j]] = NULL]]
    <3>1. L.head[l] = s[j]
      BY <1>4, <1>8
    <3>2. M = [Cleared(L, s[j]) EXCEPT !.head[l] = l, !.tail[l] = l]
      BY <2>1, <3>1 DEF popUniqueElement
    <3> QED BY <3>2, Zenon DEF Cleared, Heap
  <2> QED BY <1>1, <1>2, <1>8, <2>2 DEF Heap, Popped, Unlinked
<1>9. CASE j = 1 /\ j # n
  <2>1. M = popFrontInternal(L, l)
    BY <1>6, <1>7, <1>9 DEF List_pop
  <2>2. L.next[s[j]] = s[2] /\ s[2] # s[j] /\ 2 \in 1 .. n /\ L.prev[s[j]] = l
    BY <1>3, <1>5, <1>9
  <2>3. M = [head |-> [L.head EXCEPT ![l] = s[2]], tail |-> L.tail,
             next |-> [L.next EXCEPT ![s[j]] = NULL],
             prev |-> [[L.prev EXCEPT ![s[2]] = l] EXCEPT ![s[j]] = NULL]]
    <3>1. L.head[l] = s[j]
      BY <1>4, <1>9
    <3>2. M = Cleared([L EXCEPT !.head[l] = s[2], !.prev[s[2]] = l], s[j])
      BY <2>1, <2>2, <3>1, Zenon DEF popFrontInternal
    <3> QED BY <3>2, Zenon DEF Cleared, Heap
  <2> QED BY <1>1, <1>2, <1>9, <2>2, <2>3 DEF Heap, Popped, Unlinked
<1>10. CASE j # 1 /\ j = n
  <2>1. M = popBackInternal(L, l)
    BY <1>6, <1>7, <1>10 DEF List_pop
  <2>2. /\ L.prev[s[j]] = s[n - 1] /\ s[n - 1] # s[j] /\ n - 1 \in 1 .. n
        /\ L.next[s[j]] = l
    BY <1>3, <1>5, <1>10
  <2>3. M = [head |-> L.head, tail |-> [L.tail EXCEPT ![l] = s[n - 1]],
             next |-> [[L.next EXCEPT ![s[n - 1]] = l] EXCEPT ![s[j]] = NULL],
             prev |-> [L.prev EXCEPT ![s[j]] = NULL]]
    <3>1. L.tail[l] = s[j]
      BY <1>4, <1>10
    <3>2. M = Cleared([L EXCEPT !.tail[l] = s[n - 1], !.next[s[n - 1]] = l], s[j])
      BY <2>1, <2>2, <3>1, Zenon DEF popBackInternal
    <3> QED BY <3>2, Zenon DEF Cleared, Heap
  <2> QED BY <1>1, <1>2, <1>10, <2>2, <2>3 DEF Heap, Popped, Unlinked
<1>11. CASE j # 1 /\ j # n
  <2>1. M = Cleared([L EXCEPT !.prev[L.next[s[j]]] = L.prev[s[j]],
                              !.next[L.prev[s[j]]] = L.next[s[j]]], s[j])
    BY <1>6, <1>7, <1>11 DEF List_pop
  <2>2. /\ L.next[s[j]] = s[j + 1] /\ L.prev[s[j]] = s[j - 1]
        /\ j + 1 \in 1 .. n /\ j - 1 \in 1 .. n
    BY <1>5, <1>11
  <2>3. M = [head |-> L.head, tail |-> L.tail,
             next |-> [[L.next EXCEPT ![s[j - 1]] = s[j + 1]] EXCEPT ![s[j]] = NULL],
             prev |-> [[L.prev EXCEPT ![s[j + 1]] = s[j - 1]] EXCEPT ![s[j]] = NULL]]
    BY <1>1, <2>1, <2>2, ZenonT(30) DEF Cleared
  <2> QED BY <1>1, <1>2, <1>11, <2>2, <2>3 DEF Heap, Popped, Unlinked
<1> QED BY <1>8, <1>9, <1>10, <1>11

\* List_pop takes out the node, wherever it is; the others keep their order.
THEOREM PopCorrect ==
    ASSUME NEW lists \in SUBSET Int, NEW nodes \in SUBSET Int, NEW L \in Heap(lists, nodes),
           NEW l \in lists, NEW n \in Nat, NEW s \in Order(n, nodes, l), Holds(L, l, n, s),
           NEW j \in 1 .. n
    PROVE  /\ List_pop(L, l, s[j]) \in Heap(lists, nodes)
           /\ Holds(List_pop(L, l, s[j]), l, n - 1, Without(n, s, j))
<1> DEFINE M == List_pop(L, l, s[j])
           t == Without(n, s, j)
<1>1. /\ M \in Heap(lists, nodes)
      /\ M.head[l] = IF j = 1 THEN IF n = 1 THEN l ELSE s[2] ELSE L.head[l]
      /\ M.tail[l] = IF j = n THEN IF n = 1 THEN l ELSE s[n - 1] ELSE L.tail[l]
      /\ \A z \in nodes :
           /\ M.next[z] = IF z = s[j] THEN NULL
                          ELSE IF j > 1 /\ z = s[j - 1] THEN L.next[s[j]] ELSE L.next[z]
           /\ M.prev[z] = IF z = s[j] THEN NULL
                          ELSE IF j < n /\ z = s[j + 1] THEN L.prev[s[j]] ELSE L.prev[z]
  <2>1. Popped(M, L, lists, nodes, l, n, s, j)
    BY PopPointers, Zenon
  <2> HIDE DEF M
  <2> QED BY <2>1, Zenon DEF Popped, Unlinked
<1> HIDE DEF M
<1>2. /\ \A i \in 1 .. n : s[i] \in nodes
      /\ \A i, k \in 1 .. n : s[i] = s[k] => i = k
      /\ L.head[l] = s[1] /\ L.tail[l] = s[n]
      /\ \A i \in 1 .. n : /\ L.next[s[i]] = IF i + 1 \in 1 .. n THEN s[i + 1] ELSE l
                           /\ L.prev[s[i]] = IF i - 1 \in 1 .. n THEN s[i - 1] ELSE l
  <2>1. \A i \in 1 .. n : s[i] \in nodes
    BY DEF Order
  <2>2. 1 \in 1 .. n /\ n \in 1 .. n
    OBVIOUS
  <2> QED BY <2>1, <2>2 DEF Holds
<1>3. \A i \in 1 .. n - 1 : /\ i < j => t[i] = s[i]
                            /\ i >= j => t[i] = s[i + 1]
                            /\ i \in 1 .. n /\ i + 1 \in 1 .. n
  BY DEF Without
<1> HIDE DEF t
<1>4. ASSUME NEW i \in 1 .. n - 1, NEW k \in 1 .. n - 1, t[i] = t[k]
      PROVE  i = k
  <2> DEFINE a == IF i < j THEN i ELSE i + 1
             b == IF k < j THEN k ELSE k + 1
  <2>1. t[i] = s[a] /\ t[k] = s[b] /\ a \in 1 .. n /\ b \in 1 .. n
    BY <1>3
  <2>2. a = b
    <3> HIDE DEF a, b
    <3> QED BY <1>2, <1>4, <2>1, ZenonT(80)
  <2> QED BY <2>2
<1>5. /\ M.head[l] = IF 1 \in 1 .. n - 1 THEN t[1] ELSE l
      /\ M.tail[l] = IF n - 1 \in 1 .. n - 1 THEN t[n - 1] ELSE l
  BY <1>1, <1>2, <1>3
<1>6. ASSUME NEW i \in 1 .. n - 1
      PROVE  M.next[t[i]] = IF i + 1 \in 1 .. n - 1 THEN t[i + 1] ELSE l
  <2>1. CASE i + 1 < j
    <3>1. t[i] = s[i] /\ s[i] \in nodes /\ s[i] # s[j] /\ s[i] # s[j - 1]
      BY <1>2, <1>3, <2>1
    <3>2. L.next[s[i]] = s[i + 1] /\ t[i + 1] = s[i + 1] /\ i + 1 \in 1 .. n - 1
      BY <1>2, <1>3, <2>1
    <3> QED BY <1>1, <3>1, <3>2, ZenonT(30)
  <2>2. CASE i + 1 = j
    <3>1. t[i] = s[j - 1] /\ s[j - 1] \in nodes /\ s[j - 1] # s[j] /\ j > 1
      BY <1>2, <1>3, <2>2
    <3>2. M.next[t[i]] = L.next[s[j]]
      BY <1>1, <3>1, Zenon
    <3>3. j \in 1 .. n - 1 => t[j] = s[j + 1]
      BY <1>3
    <3> QED BY <1>2, <2>2, <3>2, <3>3
  <2>3. CASE i >= j
    <3>1. t[i] = s[i + 1] /\ s[i + 1] \in nodes /\ s[i + 1] # s[j] /\ i + 1 \in 1 .. n
      BY <1>2, <1>3, <2>3
    <3>2. j > 1 => s[i + 1] # s[j - 1]
      BY <1>2, <1>3, <2>3
    <3>3. M.next[t[i]] = L.next[s[i + 1]]
      BY <1>1, <3>1, <3>2, Zenon
    <3>4. i + 1 \in 1 .. n - 1 => t[i + 1] = s[i + 2]
      BY <1>3, <2>3
    <3> QED BY <1>2, <3>1, <3>3, <3>4
  <2> QED BY <2>1, <2>2, <2>3
<1>7. ASSUME NEW i \in 1 .. n - 1
      PROVE  M.prev[t[i]] = IF i - 1 \in 1 .. n - 1 THEN t[i - 1] ELSE l
  <2>1. CASE i < j
    <3>1. t[i] = s[i] /\ s[i] \in nodes /\ s[i] # s[j] /\ i \in 1 .. n
      BY <1>2, <1>3, <2>1
    <3>2. j < n => s[i] # s[j + 1]
      BY <1>2, <1>3, <2>1
    <3>3. M.prev[t[i]] = L.prev[s[i]]
      BY <1>1, <3>1, <3>2, Zenon
    <3>4. i - 1 \in 1 .. n - 1 => t[i - 1] = s[i - 1]
      BY <1>3, <2>1
    <3> QED BY <1>2, <3>1, <3>3, <3>4
  <2>2. CASE i = j
    <3>1. t[i] = s[j + 1] /\ s[j + 1] \in nodes /\ s[j + 1] # s[j] /\ j < n
      BY <1>2, <1>3, <2>2
    <3>2. M.prev[t[i]] = L.prev[s[j]]
      BY <1>1, <3>1, Zenon
    <3>3. j - 1 \in 1 .. n - 1 => t[j - 1] = s[j - 1]
      BY <1>3
    <3> QED BY <1>2, <2>2, <3>2, <3>3
  <2>3. CASE i > j
    <3>1. t[i] = s[i + 1] /\ s[i + 1] \in nodes /\ s[i + 1] # s[j] /\ i + 1 \in 1 .. n
      BY <1>2, <1>3, <2>3
    <3>2. s[i + 1] # s[j + 1]
      BY <1>2, <1>3, <2>3
    <3>3. M.prev[t[i]] = L.prev[s[i + 1]]
      BY <1>1, <3>1, <3>2, Zenon
    <3>4. i - 1 \in 1 .. n - 1 /\ t[i - 1] = s[i]
      BY <1>3, <2>3
    <3>5. L.prev[s[i + 1]] = s[i]
      BY <1>2, <1>3, <2>3
    <3> QED BY <3>3, <3>4, <3>5
  <2> QED BY <2>1, <2>2, <2>3
<1>8. Holds(M, l, n - 1, t)
  BY <1>4, <1>5, <1>6, <1>7 DEF Holds
<1> QED BY <1>1, <1>8 DEF M, t

\* List_popFront and List_popBack are List_pop of the first and of the last node.
THEOREM PopEndsCorrect ==
    ASSUME NEW lists \in SUBSET Int, NEW nodes \in SUBSET Int, NEW L \in Heap(lists, nodes),
           NEW l \in lists, NEW n \in Nat \ {0}, NEW s \in Order(n, nodes, l), Holds(L, l, n, s)
    PROVE  /\ List_popFront(L, l) = List_pop(L, l, s[1])
           /\ List_popBack(L, l) = List_pop(L, l, s[n])
<1>1. 1 \in 1 .. n /\ n \in 1 .. n
  OBVIOUS
<1>2. L.head[l] = s[1] /\ L.tail[l] = s[n]
  BY <1>1 DEF Holds
<1>3. s[1] # l
  BY <1>1 DEF Order
<1>4. ~List_isEmpty(L, l)
  BY <1>2, <1>3 DEF List_isEmpty
<1> QED BY <1>2, <1>4, Zenon DEF List_popFront, List_popBack, List_pop

-----------------------------------------------------------------------------
\* List_pushFront and List_pop on one list leave every list that shares no node with
\* it as it is: growCache, removeCacheSlab and freeCacheInSlab move a slab between the
\* lists of its cache, and the other lists keep theirs.
THEOREM OthersUntouched ==
    ASSUME NEW lists \in SUBSET Int, NEW nodes \in SUBSET Int, NEW L \in Heap(lists, nodes),
           NEW l \in lists, NEW n \in Nat, NEW s \in Order(n, nodes, l), Holds(L, l, n, s),
           NEW k \in lists \ {l}, NEW m \in Nat, NEW r \in Order(m, nodes, k), Holds(L, k, m, r),
           \A i \in 1 .. n, h \in 1 .. m : s[i] # r[h]
    PROVE  /\ \A j \in 1 .. n : Holds(List_pop(L, l, s[j]), k, m, r)
           /\ \A x \in Int \ {l} : (\A h \in 1 .. m : r[h] # x)
                                     => Holds(List_pushFront(L, l, x), k, m, r)
<1>1. \A h \in 1 .. m : r[h] \in nodes
  BY DEF Order
<1>2. ASSUME NEW M, M.head[k] = L.head[k], M.tail[k] = L.tail[k],
             \A h \in 1 .. m : M.next[r[h]] = L.next[r[h]] /\ M.prev[r[h]] = L.prev[r[h]]
      PROVE  Holds(M, k, m, r)
  BY <1>2 DEF Holds
<1>3. ASSUME NEW j \in 1 .. n
      PROVE  Holds(List_pop(L, l, s[j]), k, m, r)
  <2> DEFINE M == List_pop(L, l, s[j])
  <2>1. M.head[k] = L.head[k] /\ M.tail[k] = L.tail[k] /\ Unlinked(M, L, nodes, n, s, j)
    <3>1. Popped(M, L, lists, nodes, l, n, s, j)
      BY PopPointers, Zenon
    <3> HIDE DEF M
    <3> QED BY <3>1, Zenon DEF Popped
  <2> HIDE DEF M
  <2>2. ASSUME NEW h \in 1 .. m
        PROVE  M.next[r[h]] = L.next[r[h]] /\ M.prev[r[h]] = L.prev[r[h]]
    <3>1. r[h] \in nodes /\ r[h] # s[j]
      BY <1>1
    <3>2. (j > 1 => r[h] # s[j - 1]) /\ (j < n => r[h] # s[j + 1])
      OBVIOUS
    <3> QED BY <2>1, <3>1, <3>2, Zenon DEF Unlinked
  <2>3. Holds(M, k, m, r)
    BY <1>2, <2>1, <2>2
  <2> QED BY <2>3 DEF M
<1>4. ASSUME NEW x \in Int \ {l}, \A h \in 1 .. m : r[h] # x
      PROVE  Holds(List_pushFront(L, l, x), k, m, r)
  <2> DEFINE M == List_pushFront(L, l, x)
  <2>1. /\ L.head \in [lists -> Int] /\ L.tail \in [lists -> Int]
        /\ L.next \in [nodes -> Int] /\ L.prev \in [nodes -> Int]
    BY DEF Heap
  <2>2. CASE List_isEmpty(L, l)
    <3>1. M = [head |-> [L.head EXCEPT ![l] = x], tail |-> [L.tail EXCEPT ![l] = x],
               next |-> Put(L.next, x, l), prev |-> Put(L.prev, x, l)]
      BY <2>2, Zenon DEF List_pushFront, Only, Heap
    <3>2. /\ M.head[k] = L.head[k] /\ M.tail[k] = L.tail[k]
          /\ \A z \in nodes : z # x => M.next[z] = L.next[z] /\ M.prev[z] = L.prev[z]
      BY <2>1, <3>1 DEF Put
    <3> HIDE DEF M
    <3>3. Holds(M, k, m, r)
      BY <1>1, <1>2, <1>4, <3>2
    <3> QED BY <3>3 DEF M
  <2>3. CASE ~List_isEmpty(L, l)
    <3>1. n > 0 /\ L.head[l] = s[1] /\ s[1] \in nodes /\ 1 \in 1 .. n
      <4>1. n # 0
        BY <2>3 DEF List_isEmpty, Holds
      <4>2. 1 \in 1 .. n /\ n > 0
        BY <4>1
      <4>3. s[1] \in nodes
        BY <4>2 DEF Order
      <4> QED BY <4>2, <4>3 DEF Holds
    <3>2. M = [head |-> [L.head EXCEPT ![l] = x], tail |-> L.tail,
               next |-> Put(L.next, x, s[1]), prev |-> Put(Put(L.prev, s[1], x), x, l)]
      BY <2>3, <3>1, Zenon DEF List_pushFront, Heap
    <3>3. /\ M.head[k] = L.head[k] /\ M.tail[k] = L.tail[k]
          /\ \A z \in nodes : z # x /\ z # s[1] => M.next[z] = L.next[z] /\ M.prev[z] = L.prev[z]
      BY <2>1, <3>2 DEF Put
    <3> HIDE DEF M
    <3>4. Holds(M, k, m, r)
      BY <1>1, <1>2, <1>4, <3>1, <3>3
    <3> QED BY <3>4 DEF M
  <2> QED BY <2>2, <2>3
<1> QED BY <1>3, <1>4

-----------------------------------------------------------------------------
(***************************************************************************)
(* The ring buffer.                                                        *)
(***************************************************************************)
Buffers == [0 .. Size - 1 -> Value]

\* Index arithmetic wraps at most once.
LEMMA Wrap ==
    ASSUME NEW x \in 0 .. 2 * Size - 1
    PROVE  x % Size = IF x < Size THEN x ELSE x - Size
BY SizeAssumption

\* An index taken modulo the size is an index of the buffer.
LEMMA WrapType ==
    ASSUME NEW x \in Nat
    PROVE  x % Size \in 0 .. Size - 1
BY SizeAssumption

\* The values of a buffer form a sequence.
LEMMA ContentsType ==
    ASSUME NEW buf \in Buffers, NEW r \in 0 .. Size - 1, NEW n \in 0 .. Size
    PROVE  /\ Contents(buf, r, n) \in Seq(Value)
           /\ Len(Contents(buf, r, n)) = n
           /\ \A i \in 1 .. n : Contents(buf, r, n)[i] = buf[(r + i - 1) % Size]
<1>1. n \in Nat
  BY SizeAssumption
<1>2. \A i \in 1 .. n : (r + i - 1) % Size \in 0 .. Size - 1
  <2> SUFFICES ASSUME NEW i \in 1 .. n
               PROVE  (r + i - 1) % Size \in 0 .. Size - 1
    BY Zenon
  <2>1. r + i - 1 \in Nat
    BY SizeAssumption
  <2> QED BY <2>1, WrapType
<1>3. \A i \in 1 .. n : buf[(r + i - 1) % Size] \in Value
  BY <1>2, Zenon DEF Buffers
<1>4. Contents(buf, r, n) \in [1 .. n -> Value]
  BY <1>3, Zenon DEF Contents
<1>5. Contents(buf, r, n) \in Seq(Value)
  BY <1>1, <1>4, SeqDef
<1> QED BY <1>1, <1>4, <1>5, LenProperties DEF Contents

\* Writing behind the values appends to them.
LEMMA ContentsAppend ==
    ASSUME NEW buf \in Buffers, NEW r \in 0 .. Size - 1, NEW n \in 0 .. Size - 1,
           NEW v \in Value
    PROVE  Contents([buf EXCEPT ![(r + n) % Size] = v], r, n + 1)
             = Append(Contents(buf, r, n), v)
<1> DEFINE new == [buf EXCEPT ![(r + n) % Size] = v]
           old == Contents(buf, r, n)
<1>1. (r + n) % Size \in 0 .. Size - 1 /\ new \in Buffers
  <2>1. r + n \in Nat
    BY SizeAssumption
  <2>2. (r + n) % Size \in 0 .. Size - 1
    BY <2>1, WrapType
  <2> QED BY <2>2 DEF Buffers
<1>2. n + 1 \in 0 .. Size /\ n \in 0 .. Size /\ n \in Nat
  BY SizeAssumption
<1>3. /\ Contents(new, r, n + 1) \in Seq(Value)
      /\ Len(Contents(new, r, n + 1)) = n + 1
      /\ \A i \in 1 .. n + 1 : Contents(new, r, n + 1)[i] = new[(r + i - 1) % Size]
  BY <1>1, <1>2, ContentsType, ZenonT(30)
<1>4. /\ old \in Seq(Value)
      /\ Len(old) = n
      /\ \A i \in 1 .. n : old[i] = buf[(r + i - 1) % Size]
  BY <1>2, ContentsType
<1>5. /\ Append(old, v) \in Seq(Value)
      /\ Len(Append(old, v)) = n + 1
      /\ \A i \in 1 .. n : Append(old, v)[i] = old[i]
      /\ Append(old, v)[n + 1] = v
  <2> HIDE DEF old
  <2> QED BY <1>2, <1>4
<1>6. ASSUME NEW i \in 1 .. n
      PROVE  (r + i - 1) % Size # (r + n) % Size /\ (r + i - 1) % Size \in 0 .. Size - 1
  <2>1. r + i - 1 \in 0 .. 2 * Size - 1 /\ r + n \in 0 .. 2 * Size - 1
    BY SizeAssumption
  <2> DEFINE a == r + i - 1
             b == r + n
  <2>2. a < b /\ b - a <= n /\ n < Size
    BY SizeAssumption
  <2> HIDE DEF a, b
  <2>3. a % Size = IF a < Size THEN a ELSE a - Size
    BY <2>1, Wrap DEF a
  <2>4. b % Size = IF b < Size THEN b ELSE b - Size
    BY <2>1, Wrap DEF b
  <2>5. a % Size # b % Size /\ a % Size \in 0 .. Size - 1
    <3>1. a \in 0 .. 2 * Size - 1 /\ b \in 0 .. 2 * Size - 1
      BY <2>1 DEF a, b
    <3> QED BY <2>2, <2>3, <2>4, <3>1, SizeAssumption
  <2> QED BY <2>5 DEF a, b
<1>7. \A i \in 1 .. n : new[(r + i - 1) % Size] = buf[(r + i - 1) % Size]
  BY <1>6, Zenon DEF Buffers
<1>8. new[(r + (n + 1) - 1) % Size] = v
  <2>1. r + (n + 1) - 1 = r + n
    BY SizeAssumption
  <2> QED BY <1>1, <2>1 DEF Buffers
<1> HIDE DEF new, old
<1>9. \A i \in 1 .. n + 1 : Contents(new, r, n + 1)[i] = Append(old, v)[i]
  <2> SUFFICES ASSUME NEW i \in 1 .. n + 1
               PROVE  Contents(new, r, n + 1)[i] = Append(old, v)[i]
    BY Zenon
  <2>1. Contents(new, r, n + 1)[i] = new[(r + i - 1) % Size]
    BY <1>3
  <2>2. CASE i = n + 1
    BY <1>5, <1>8, <2>1, <2>2
  <2>3. CASE i # n + 1
    <3>1. i \in 1 .. n
      BY <1>2, <2>3
    <3> QED BY <1>4, <1>5, <1>7, <2>1, <3>1
  <2> QED BY <2>2, <2>3, Zenon
<1>10. Contents(new, r, n + 1) = Append(old, v)
  BY <1>3, <1>5, <1>9, SeqEqual
<1> QED BY <1>10, Zenon DEF new, old

\* Advancing the read index drops the oldest value.
LEMMA ContentsTail ==
    ASSUME NEW buf \in Buffers, NEW r \in 0 .. Size - 1, NEW n \in 1 .. Size
    PROVE  /\ Contents(buf, r, n) # <<>>
           /\ Head(Contents(buf, r, n)) = buf[r]
           /\ Contents(buf, (r + 1) % Size, n - 1) = Tail(Contents(buf, r, n))
<1> DEFINE old == Contents(buf, r, n)
           new == Contents(buf, (r + 1) % Size, n - 1)
<1>1. /\ (r + 1) % Size \in 0 .. Size - 1
      /\ n \in 0 .. Size /\ n - 1 \in 0 .. Size /\ n \in Nat /\ r \in Nat
  BY WrapType, SizeAssumption
<1>2. /\ old \in Seq(Value) /\ Len(old) = n
      /\ \A i \in 1 .. n : old[i] = buf[(r + i - 1) % Size]
  BY <1>1, ContentsType
<1>3. /\ new \in Seq(Value) /\ Len(new) = n - 1
      /\ \A i \in 1 .. n - 1 : new[i] = buf[(((r + 1) % Size) + i - 1) % Size]
  BY <1>1, ContentsType, Zenon
<1>4. \A i \in 1 .. n - 1 : (((r + 1) % Size) + i - 1) % Size = (r + (i + 1) - 1) % Size
  <2> SUFFICES ASSUME NEW i \in 1 .. n - 1
               PROVE  (((r + 1) % Size) + i - 1) % Size = (r + (i + 1) - 1) % Size
    OBVIOUS
  <2>1. (r + 1) % Size = IF r + 1 < Size THEN r + 1 ELSE r + 1 - Size
    BY Wrap, SizeAssumption
  <2>2. /\ ((r + 1) % Size) + i - 1 \in 0 .. 2 * Size - 1
        /\ r + (i + 1) - 1 \in 0 .. 2 * Size - 1
    BY <2>1, SizeAssumption
  <2> DEFINE a == ((r + 1) % Size) + i - 1
             b == r + (i + 1) - 1
  <2>3. a % Size = IF a < Size THEN a ELSE a - Size
    BY <2>2, Wrap
  <2>4. b % Size = IF b < Size THEN b ELSE b - Size
    BY <2>2, Wrap
  <2>5. a = b \/ (a = b - Size /\ a < Size /\ b >= Size)
    BY <2>1, SizeAssumption
  <2> QED BY <2>2, <2>3, <2>4, <2>5, SizeAssumption
<1> HIDE DEF old, new
<1>5. old # <<>>
  BY <1>1, <1>2, EmptySeq
<1>6. /\ Tail(old) \in Seq(Value) /\ Len(Tail(old)) = n - 1
      /\ \A i \in 1 .. n - 1 : Tail(old)[i] = old[i + 1]
  BY <1>2, <1>5, HeadTailProperties
<1>7. \A i \in 1 .. n - 1 : new[i] = Tail(old)[i]
  <2> SUFFICES ASSUME NEW i \in 1 .. n - 1
               PROVE  new[i] = Tail(old)[i]
    BY Zenon
  <2>1. i + 1 \in 1 .. n
    BY <1>1
  <2>2. old[i + 1] = buf[(r + (i + 1) - 1) % Size]
    BY <1>2, <2>1
  <2>3. new[i] = buf[(r + (i + 1) - 1) % Size]
    BY <1>3, <1>4
  <2> QED BY <1>6, <2>2, <2>3
<1>8. new = Tail(old)
  BY <1>3, <1>6, <1>7, SeqEqual, Zenon
<1>9. Head(old) = buf[r]
  <2>1. Head(old) = old[1]
    BY <1>2, <1>5
  <2>2. (r + 1 - 1) % Size = r
    BY SizeAssumption
  <2> QED BY <1>1, <1>2, <2>1, <2>2
<1> QED BY <1>5, <1>8, <1>9 DEF old, new

-----------------------------------------------------------------------------
\* The part of the state the calls work on.
RingOK ==
    /\ buffer \in Buffers
    /\ readBeginIndex \in 0 .. Size - 1
    /\ inReadBuffer \in 0 .. Size
    /\ ret \in Return

\* The inductive invariant: the interrupted call is one the usage allows, so that
\* no call of the handler undoes the check it made.
IInv ==
    /\ TypeOK
    /\ CheckStillTrue
    /\ SafeUsage(usage)
    /\ pc = "pop" => "pop" \in usage.kernel
    /\ pc = "push" => "push" \in usage.kernel

\* The queue of the refinement mapping is as long as the count says.
LEMMA QueueLength ==
    ASSUME RingOK
    PROVE  /\ queue \in Seq(Value)
           /\ Len(queue) = inReadBuffer
           /\ queue = <<>> <=> inReadBuffer = 0
<1>1. queue \in Seq(Value) /\ Len(queue) = inReadBuffer
  BY ContentsType DEF RingOK, queue
<1>2. queue # <<>> => Len(queue) # 0
  BY <1>1, EmptySeq
<1>3. Len(<<>>) = 0
  BY EmptySeq
<1> QED BY <1>1, <1>2, <1>3

\* The locked part of Ringbuffer_pop removes the oldest value.
LEMMA PopStep ==
    ASSUME RingOK, inReadBuffer > 0, PopLocked
    PROVE  RingOK' /\ Fifo!Pop /\ inReadBuffer' = inReadBuffer - 1
<1>1. inReadBuffer \in 1 .. Size /\ inReadBuffer' = inReadBuffer - 1
  <2>1. inReadBuffer - 1 \in 0 .. SizeMod - 1
    BY SizeAssumption DEF RingOK
  <2>2. (inReadBuffer - 1) % SizeMod = inReadBuffer - 1
    BY <2>1, SizeAssumption
  <2> QED BY <2>2, SizeAssumption DEF RingOK, PopLocked
<1>2. readBeginIndex' \in 0 .. Size - 1
  <2>1. readBeginIndex + 1 \in Nat
    BY SizeAssumption DEF RingOK
  <2> QED BY <2>1, WrapType DEF PopLocked
<1>3. buffer[readBeginIndex] \in Value
  BY DEF RingOK, Buffers
<1>4. RingOK'
  <2>1. ret' \in Return
    BY <1>3 DEF PopLocked, Return
  <2>2. inReadBuffer' \in 0 .. Size
    BY <1>1, SizeAssumption
  <2> QED BY <1>2, <2>1, <2>2 DEF RingOK, PopLocked
<1>5. /\ queue # <<>>
      /\ Head(queue) = buffer[readBeginIndex]
      /\ queue' = Tail(queue)
  BY <1>1, ContentsTail DEF RingOK, PopLocked, queue
<1>6. Fifo!Pop
  BY <1>5, Zenon DEF Fifo!Pop, PopLocked
<1> QED BY <1>1, <1>4, <1>6

\* The locked part of a push into a buffer that is not full appends.
LEMMA PushStep ==
    ASSUME RingOK, inReadBuffer < Size, NEW v \in Value, NEW op \in {"push", "overwrite"},
           PushLocked(op, v)
    PROVE  /\ RingOK'
           /\ inReadBuffer' = inReadBuffer + 1
           /\ Len(queue) < Size
           /\ queue' = Append(queue, v)
<1>1. /\ inReadBuffer \in 0 .. Size - 1
      /\ readBeginIndex \in 0 .. Size - 1
  BY SizeAssumption DEF RingOK
<1>2. (inReadBuffer + 1) % SizeMod = inReadBuffer + 1
  BY <1>1, SizeAssumption
<1>3. WriteIndex = (readBeginIndex + inReadBuffer) % Size
  <2>1. (readBeginIndex + inReadBuffer) % SizeMod = readBeginIndex + inReadBuffer
    BY <1>1, SizeAssumption
  <2> QED BY <2>1 DEF WriteIndex
<1>4. inReadBuffer' = inReadBuffer + 1 /\ readBeginIndex' = readBeginIndex
  BY <1>2 DEF PushLocked
<1>5. buffer' = [buffer EXCEPT ![(readBeginIndex + inReadBuffer) % Size] = v]
  BY <1>3 DEF PushLocked
<1>6. buffer' \in Buffers
  BY <1>5, Zenon DEF Buffers, RingOK
<1>7. ret' \in Return
  BY Zenon DEF PushLocked, Return, Ops
<1>8. RingOK'
  BY <1>1, <1>4, <1>6, <1>7, SizeAssumption DEF RingOK
<1>9. queue' = Append(queue, v)
  BY <1>1, <1>4, <1>5, ContentsAppend, Zenon DEF RingOK, queue
<1> QED BY <1>4, <1>8, <1>9, QueueLength

\* Overwriting a full buffer drops the oldest value and appends.
LEMMA OverwriteStep ==
    ASSUME RingOK, inReadBuffer = Size, NEW v \in Value, OverwriteLocked(v)
    PROVE  RingOK' /\ Fifo!PushBackOverwrite(v) /\ UNCHANGED inReadBuffer
<1> DEFINE r == readBeginIndex
           r1 == (r + 1) % Size
<1>1. r \in 0 .. Size - 1 /\ Size \in 1 .. Size /\ Size - 1 \in 0 .. Size - 1
  BY SizeAssumption DEF RingOK
<1>2. r1 = IF r + 1 < Size THEN r + 1 ELSE r + 1 - Size
  BY <1>1, Wrap, SizeAssumption
<1>3. r1 \in 0 .. Size - 1
  BY <1>1, <1>2, SizeAssumption
<1>4. (r1 + (Size - 1)) % Size = r
  <2>1. r1 + (Size - 1) \in 0 .. 2 * Size - 1
    BY <1>3, SizeAssumption
  <2> HIDE DEF r1
  <2> DEFINE a == r1 + (Size - 1)
  <2>2. a = r + Size \/ (a = r /\ r < Size)
    BY <1>1, <1>2, SizeAssumption
  <2> HIDE DEF a
  <2>3. a % Size = IF a < Size THEN a ELSE a - Size
    BY <2>1, Wrap DEF a
  <2>4. a % Size = r
    BY <1>1, <2>2, <2>3, SizeAssumption
  <2> QED BY <2>4 DEF a
<1> HIDE DEF r1
<1>5. /\ Contents(buffer, r, Size) # <<>>
      /\ Contents(buffer, r1, Size - 1) = Tail(Contents(buffer, r, Size))
  BY <1>1, ContentsTail DEF RingOK, r1
<1>6. Contents([buffer EXCEPT ![r] = v], r1, (Size - 1) + 1)
        = Append(Contents(buffer, r1, Size - 1), v)
  BY <1>1, <1>3, <1>4, ContentsAppend, ZenonT(30) DEF RingOK
<1>7. (Size - 1) + 1 = Size
  BY SizeAssumption
<1>8. queue' = Append(Tail(queue), v)
  BY <1>5, <1>6, <1>7, Zenon DEF OverwriteLocked, queue, r1
<1>9. RingOK'
  <2>1. ret' \in Return
    BY DEF OverwriteLocked, Return, Ops
  <2>2. buffer' \in Buffers
    BY DEF OverwriteLocked, Buffers, RingOK
  <2> QED BY <1>3, <2>1, <2>2 DEF RingOK, OverwriteLocked, r1
<1> QED BY <1>8, <1>9, QueueLength DEF Fifo!PushBackOverwrite, OverwriteLocked

\* A refused call changes no value.
LEMMA RefuseStep ==
    ASSUME RingOK, NEW op \in Ops, Refuse(op)
    PROVE  RingOK' /\ UNCHANGED <<queue, inReadBuffer>>
<1>1. ret' \in Return
  BY Zenon DEF Refuse, Return
<1> QED BY <1>1 DEF Refuse, ring, RingOK, queue

-----------------------------------------------------------------------------
\* A call that no interrupt can come into is a step of the queue; only pops
\* lower the count and only pushes raise it.
LEMMA AtomicCallStep ==
    ASSUME RingOK, NEW ops \in SUBSET Ops, AtomicCall(ops)
    PROVE  /\ RingOK'
           /\ Fifo!Next
           /\ "pop" \notin ops => inReadBuffer' >= inReadBuffer
           /\ ops \cap {"push", "overwrite"} = {} => inReadBuffer' <= inReadBuffer
<1>0. inReadBuffer \in Nat /\ inReadBuffer <= Size
  BY SizeAssumption DEF RingOK
<1>1. ASSUME "pop" \in ops, Ringbuffer_pop
      PROVE  RingOK' /\ Fifo!Pop /\ inReadBuffer' <= inReadBuffer
  <2>1. CASE inReadBuffer = 0 /\ Refuse("pop")
    <3>1. RingOK' /\ UNCHANGED <<queue, inReadBuffer>>
      BY <2>1, RefuseStep DEF Ops
    <3>2. queue = <<>>
      BY <2>1, QueueLength
    <3> QED BY <1>0, <2>1, <3>1, <3>2 DEF Fifo!Pop, Refuse
  <2>2. CASE inReadBuffer # 0 /\ PopLocked
    BY <1>0, <2>2, PopStep
  <2> QED BY <1>1, <2>1, <2>2 DEF Ringbuffer_pop
<1>2. ASSUME "push" \in ops, NEW v \in Value, Ringbuffer_pushBack(v)
      PROVE  RingOK' /\ Fifo!PushBack(v) /\ inReadBuffer' >= inReadBuffer
  <2>1. CASE isBufferFull /\ Refuse("push")
    <3>1. RingOK' /\ UNCHANGED <<queue, inReadBuffer>>
      BY <2>1, RefuseStep DEF Ops
    <3>2. Len(queue) = Size
      BY <1>0, <2>1, QueueLength, SizeAssumption DEF isBufferFull
    <3> QED BY <1>0, <2>1, <3>1, <3>2 DEF Fifo!PushBack, Refuse
  <2>2. CASE ~isBufferFull /\ PushLocked("push", v)
    <3>1. inReadBuffer < Size
      BY <1>0, <2>2, SizeAssumption DEF isBufferFull
    <3>2. /\ RingOK' /\ inReadBuffer' = inReadBuffer + 1
          /\ Len(queue) < Size /\ queue' = Append(queue, v)
      BY <2>2, <3>1, PushStep
    <3> QED BY <1>0, <2>2, <3>2 DEF Fifo!PushBack, PushLocked
  <2> QED BY <1>2, <2>1, <2>2 DEF Ringbuffer_pushBack
<1>3. ASSUME "overwrite" \in ops, NEW v \in Value, Ringbuffer_pushBackOverwrite(v)
      PROVE  RingOK' /\ Fifo!PushBackOverwrite(v) /\ inReadBuffer' >= inReadBuffer
  <2>1. CASE isBufferFull /\ OverwriteLocked(v)
    BY <1>0, <2>1, OverwriteStep, SizeAssumption DEF isBufferFull
  <2>2. CASE ~isBufferFull /\ PushLocked("overwrite", v)
    <3>1. inReadBuffer < Size
      BY <1>0, <2>2, SizeAssumption DEF isBufferFull
    <3>2. /\ RingOK' /\ inReadBuffer' = inReadBuffer + 1
          /\ Len(queue) < Size /\ queue' = Append(queue, v)
      BY <2>2, <3>1, PushStep
    <3> QED BY <1>0, <2>2, <3>2 DEF Fifo!PushBackOverwrite, PushLocked
  <2> QED BY <1>3, <2>1, <2>2 DEF Ringbuffer_pushBackOverwrite
<1> QED BY <1>1, <1>2, <1>3 DEF AtomicCall, Fifo!Next

\* The invariant gives the calls what they need.
LEMMA IInvRing == IInv => RingOK
BY SizeAssumption DEF IInv, TypeOK, CheckStillTrue, RingOK, Buffers

\* The usages are safe to start with, and the buffer is empty.
LEMMA InitIInv ==
    ASSUME \A u \in Usages : SafeUsage(u)
    PROVE  Init => IInv /\ Fifo!Init
<1> SUFFICES ASSUME Init
             PROVE  IInv /\ Fifo!Init
  OBVIOUS
<1>1. SafeUsage(usage)
  BY DEF Init
<1>2. TypeOK
  BY <1>1, SizeAssumption DEF Init, TypeOK, SafeUsage, Return
<1>3. IInv
  BY <1>1, <1>2, SizeAssumption DEF Init, IInv, CheckStillTrue
<1>4. queue = <<>>
  BY <1>3, IInvRing, QueueLength DEF Init
<1> QED BY <1>3, <1>4 DEF Init, Fifo!Init

\* Each step keeps the invariant and is a step, or a stutter, of the queue.
LEMMA NextIInv ==
    ASSUME IInv, [Next]_vars
    PROVE  IInv' /\ [Fifo!Next]_Fifo!vars
<1>0. RingOK /\ inReadBuffer \in Nat /\ usage \in Usage
  BY IInvRing DEF RingOK, IInv, TypeOK
<1>1. ASSUME RingOK', UNCHANGED usage, arg' \in Value, pc' \in {"idle", "pop", "push"},
             pc' = "pop" => "pop" \in usage.kernel /\ inReadBuffer' > 0,
             pc' = "push" => "push" \in usage.kernel /\ inReadBuffer' < Size
      PROVE  IInv'
  <2>1. inReadBuffer' \in 0 .. SizeMod - 1 /\ inReadBuffer' <= Size
    BY <1>1, SizeAssumption DEF RingOK
  <2>2. TypeOK'
    BY <1>0, <1>1, <2>1 DEF TypeOK, RingOK, Buffers
  <2>3. SafeUsage(usage)'
    BY <1>1 DEF IInv, SafeUsage
  <2> QED BY <1>1, <2>1, <2>2, <2>3 DEF IInv, CheckStillTrue
<1>2. CASE Irq
  <2>1. usage.irq \in SUBSET Ops /\ AtomicCall(usage.irq) /\ UNCHANGED <<usage, pc, arg>>
    BY <1>0, <1>2 DEF Irq, Usage
  <2>2. /\ RingOK' /\ Fifo!Next
        /\ "pop" \notin usage.irq => inReadBuffer' >= inReadBuffer
        /\ usage.irq \cap {"push", "overwrite"} = {} => inReadBuffer' <= inReadBuffer
    BY <1>0, <2>1, AtomicCallStep
  <2>3. inReadBuffer' \in Nat
    BY <2>2 DEF RingOK
  <2>4. pc' = "pop" => "pop" \in usage.kernel /\ inReadBuffer' > 0
    BY <1>0, <2>1, <2>2, <2>3 DEF IInv, SafeUsage, CheckStillTrue
  <2>5. pc' = "push" => "push" \in usage.kernel /\ inReadBuffer' < Size
    BY <1>0, <2>1, <2>2, <2>3, SizeAssumption DEF IInv, SafeUsage, CheckStillTrue
  <2>6. arg' \in Value /\ pc' \in {"idle", "pop", "push"}
    BY <2>1 DEF IInv, TypeOK
  <2> QED BY <1>1, <2>1, <2>2, <2>4, <2>5, <2>6
<1>3. CASE Protected
  <2>1. usage.protected \in SUBSET Ops /\ AtomicCall(usage.protected) /\ pc = "idle"
          /\ UNCHANGED <<usage, pc, arg>>
    BY <1>0, <1>3 DEF Protected, Usage
  <2>2. RingOK' /\ Fifo!Next
    BY <1>0, <2>1, AtomicCallStep
  <2> QED BY <1>1, <2>1, <2>2 DEF IInv, TypeOK
<1>4. CASE PopCheck
  <2>1. pc = "idle" /\ "pop" \in usage.kernel /\ UNCHANGED <<usage, arg>> /\ arg \in Value
    BY <1>4 DEF PopCheck, IInv, TypeOK
  <2>2. CASE inReadBuffer = 0 /\ Refuse("pop") /\ UNCHANGED pc
    <3>1. RingOK' /\ UNCHANGED <<queue, inReadBuffer>>
      BY <1>0, <2>2, RefuseStep DEF Ops
    <3>2. Fifo!Next
      BY <1>0, <2>2, <3>1, QueueLength DEF Fifo!Next, Fifo!Pop, Refuse
    <3> QED BY <1>1, <2>1, <2>2, <3>1, <3>2
  <2>3. CASE inReadBuffer # 0 /\ pc' = "pop"
               /\ UNCHANGED <<buffer, readBeginIndex, inReadBuffer, ret>>
    <3>1. RingOK' /\ UNCHANGED Fifo!vars
      BY <1>0, <2>3 DEF RingOK, Fifo!vars, queue
    <3> QED BY <1>0, <1>1, <2>1, <2>3, <3>1
  <2> QED BY <1>4, <2>2, <2>3 DEF PopCheck
<1>5. CASE PopFinish
  <2>1. pc = "pop" /\ PopLocked /\ pc' = "idle" /\ UNCHANGED <<usage, arg>> /\ arg \in Value
    BY <1>5 DEF PopFinish, IInv, TypeOK
  <2>2. inReadBuffer > 0
    BY <2>1 DEF IInv, CheckStillTrue
  <2>3. RingOK' /\ Fifo!Pop
    BY <1>0, <2>1, <2>2, PopStep
  <2> QED BY <1>1, <2>1, <2>3 DEF Fifo!Next
<1>6. CASE PushFinish
  <2>1. pc = "push" /\ PushLocked("push", arg) /\ pc' = "idle" /\ UNCHANGED <<usage, arg>>
          /\ arg \in Value
    BY <1>6 DEF PushFinish, IInv, TypeOK
  <2>2. inReadBuffer < Size
    BY <2>1 DEF IInv, CheckStillTrue
  <2>3. RingOK' /\ Len(queue) < Size /\ queue' = Append(queue, arg)
    BY <1>0, <2>1, <2>2, PushStep
  <2>4. Fifo!PushBack(arg)
    BY <2>1, <2>3 DEF Fifo!PushBack, PushLocked
  <2> QED BY <1>1, <2>1, <2>3, <2>4 DEF Fifo!Next
<1>7. ASSUME NEW v \in Value, PushCheck(v)
      PROVE  IInv' /\ [Fifo!Next]_Fifo!vars
  <2>1. pc = "idle" /\ "push" \in usage.kernel /\ UNCHANGED usage /\ arg \in Value
    BY <1>7 DEF PushCheck, IInv, TypeOK
  <2>2. CASE isBufferFull /\ Refuse("push") /\ UNCHANGED <<pc, arg>>
    <3>1. RingOK' /\ UNCHANGED <<queue, inReadBuffer>>
      BY <1>0, <2>2, RefuseStep DEF Ops
    <3>2. Len(queue) = Size
      BY <1>0, <2>2, QueueLength, SizeAssumption DEF isBufferFull, RingOK
    <3>3. Fifo!PushBack(v)
      BY <2>2, <3>1, <3>2 DEF Fifo!PushBack, Refuse
    <3> QED BY <1>1, <2>1, <2>2, <3>1, <3>3 DEF Fifo!Next
  <2>3. CASE ~isBufferFull /\ pc' = "push" /\ arg' = v
               /\ UNCHANGED <<buffer, readBeginIndex, inReadBuffer, ret>>
    <3>1. RingOK' /\ UNCHANGED Fifo!vars
      BY <1>0, <2>3 DEF RingOK, Fifo!vars, queue
    <3>2. inReadBuffer' < Size
      BY <1>0, <2>3, SizeAssumption DEF isBufferFull
    <3> QED BY <1>1, <2>1, <2>3, <3>1, <3>2
  <2> QED BY <1>7, <2>2, <2>3 DEF PushCheck
<1>8. ASSUME NEW v \in Value, Overwrite(v)
      PROVE  IInv' /\ [Fifo!Next]_Fifo!vars
  <2>1. /\ pc = "idle" /\ UNCHANGED <<usage, pc, arg>> /\ arg \in Value
        /\ AtomicCall({"overwrite"})
    BY <1>8 DEF Overwrite, IInv, TypeOK, AtomicCall
  <2>2. RingOK' /\ Fifo!Next
    BY <1>0, <2>1, AtomicCallStep DEF Ops
  <2> QED BY <1>1, <2>1, <2>2
<1>9. CASE UNCHANGED vars
  <2>1. UNCHANGED Fifo!vars
    BY <1>9 DEF vars, Fifo!vars, queue
  <2>2. IInv'
    BY <1>9 DEF vars, IInv, TypeOK, CheckStillTrue, SafeUsage
  <2> QED BY <2>1, <2>2
<1> QED BY <1>2, <1>3, <1>4, <1>5, <1>6, <1>7, <1>8, <1>9 DEF Next

\* What the kernel code saw before it locked is still true when it does, whatever
\* the interrupt handlers of a safe usage did in between.
THEOREM CheckSafety ==
    ASSUME \A u \in Usages : SafeUsage(u)
    PROVE  Spec => [](TypeOK /\ CheckStillTrue)
<1>1. Init => IInv
  BY InitIInv
<1>2. IInv /\ [Next]_vars => IInv'
  BY NextIInv
<1>3. IInv => TypeOK /\ CheckStillTrue
  BY DEF IInv
<1> QED BY <1>1, <1>2, <1>3, PTL DEF Spec

\* readBeginIndex stays within the buffer and the count within its type, whatever the
\* size: no push or pop leaves an index that the next one would use beyond the buffer.
THEOREM IndicesInRange ==
    ASSUME \A u \in Usages : SafeUsage(u)
    PROVE  Spec => []TypeOK
BY CheckSafety, PTL

\* Under a safe usage the ring buffer is a first-in first-out queue.
THEOREM FifoRefinement ==
    ASSUME \A u \in Usages : SafeUsage(u)
    PROVE  Spec => ImplementsFifo
<1>1. Init => IInv /\ Fifo!Init
  BY InitIInv
<1>2. IInv /\ [Next]_vars => IInv'
  BY NextIInv
<1>3. IInv /\ [Next]_vars => [Fifo!Next]_Fifo!vars
  BY NextIInv
<1>4. Spec => Fifo!Spec
  BY <1>1, <1>2, <1>3, PTL DEF Spec, Fifo!Spec
<1> QED BY <1>4 DEF ImplementsFifo
=============================================================================
