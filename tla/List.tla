--------------------------------- MODULE List ---------------------------------
(***************************************************************************)
(* The circular doubly-linked lists (Stdlib/mugOS/List.c), as operators on *)
(* the pointers: head and tail of every list, next and prev of every node. *)
(* Lists and nodes are addresses (integers); the head of an empty list and *)
(* the ends of any list point to the list itself.                          *)
(***************************************************************************)
EXTENDS Integers, FiniteSets

NULL == 0

NoLists == [head |-> << >>, tail |-> << >>, next |-> << >>, prev |-> << >>]

Put(f, x, y) == [z \in DOMAIN f \cup {x} |-> IF z = x THEN y ELSE f[z]]

List_init(L, l) == [L EXCEPT !.head = Put(@, l, l), !.tail = Put(@, l, l)]

List_isEmpty(L, l) == L.head[l] = l

Only(L, l, n) ==
    [L EXCEPT !.head[l] = n, !.tail[l] = n, !.next = Put(@, n, l), !.prev = Put(@, n, l)]

List_pushFront(L, l, n) ==
    IF List_isEmpty(L, l) THEN Only(L, l, n)
      ELSE [L EXCEPT !.prev = Put(Put(@, L.head[l], n), n, l),
                     !.next = Put(@, n, L.head[l]), !.head[l] = n]

List_pushBack(L, l, n) ==
    IF List_isEmpty(L, l) THEN Only(L, l, n)
      ELSE [L EXCEPT !.next = Put(Put(@, L.tail[l], n), n, l),
                     !.prev = Put(@, n, L.tail[l]), !.tail[l] = n]

Cleared(L, n) == [L EXCEPT !.next[n] = NULL, !.prev[n] = NULL]

popUniqueElement(L, l) ==
    [Cleared(L, L.head[l]) EXCEPT !.head[l] = l, !.tail[l] = l]

popFrontInternal(L, l) ==
    LET second == L.next[L.head[l]]
    IN  Cleared([L EXCEPT !.head[l] = second, !.prev[second] = l], L.head[l])

popBackInternal(L, l) ==
    LET last == L.tail[l]
    IN  Cleared([L EXCEPT !.tail[l] = L.prev[last], !.next[L.prev[last]] = l], last)

List_popFront(L, l) ==
    CASE List_isEmpty(L, l) -> L
      [] ~List_isEmpty(L, l) /\ L.head[l] = L.tail[l] -> popUniqueElement(L, l)
      [] OTHER -> popFrontInternal(L, l)

List_popBack(L, l) ==
    CASE List_isEmpty(L, l) -> L
      [] ~List_isEmpty(L, l) /\ L.head[l] = L.tail[l] -> popUniqueElement(L, l)
      [] OTHER -> popBackInternal(L, l)

List_pop(L, l, n) ==
    CASE List_isEmpty(L, l) -> L
      [] n = L.head[l] /\ n = L.tail[l] -> popUniqueElement(L, l)
      [] n = L.head[l] /\ n # L.tail[l] -> popFrontInternal(L, l)
      [] n # L.head[l] /\ n = L.tail[l] -> popBackInternal(L, l)
      [] OTHER -> Cleared([L EXCEPT !.prev[L.next[n]] = L.prev[n],
                                    !.next[L.prev[n]] = L.next[n]], n)

\* Where List_foreach is after k steps, for k up to max.
Visit(L, l, max) ==
    LET at[k \in 0 .. max] ==
          IF k = 0 THEN L.head[l]
            ELSE IF at[k - 1] = l THEN l ELSE L.next[at[k - 1]]
    IN  at

Walk(L, l, max) == {Visit(L, l, max)[k] : k \in 0 .. max} \ {l}

\* The list l is s[1], ..., s[n]: these are distinct nodes, each linked to the one
\* after it and to the one before it, and the ends to the list itself.
Holds(L, l, n, s) ==
    LET node(i) == IF i \in 1 .. n THEN s[i] ELSE l
    IN  /\ \A i, j \in 1 .. n : s[i] = s[j] => i = j
        /\ L.head[l] = node(1) /\ L.tail[l] = node(n)
        /\ \A i \in 1 .. n : L.next[s[i]] = node(i + 1) /\ L.prev[s[i]] = node(i - 1)

\* A list that has these nodes, when it is followed from the head.
IsList(L, l, nodes) ==
    LET n == Cardinality(nodes)
        s == [k \in 1 .. n |-> Visit(L, l, n)[k - 1]]
    IN  {s[k] : k \in 1 .. n} = nodes /\ Holds(L, l, n, s)

\* The node's memory is released.
DropAll(f, nodes) == [x \in DOMAIN f \ nodes |-> f[x]]

Drop(f, n) == DropAll(f, {n})

Forget(L, n) == [L EXCEPT !.next = Drop(@, n), !.prev = Drop(@, n)]
=============================================================================
