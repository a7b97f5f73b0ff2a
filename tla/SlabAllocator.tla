---------------------------- MODULE SlabAllocator ----------------------------
(***************************************************************************)
(* The slab allocator (Stdlib/mugOS/SlabAllocator.c) and its clients.  The *)
(* functions of the code are operators from the state of the allocator (h) *)
(* to the state after them, with a result where they have one; an address  *)
(* is a number, page p starting at p * PAGE_SIZE.                          *)
(***************************************************************************)
EXTENDS List, FiniteSets, Sequences

CONSTANTS
    Pages,                  \* the numbers of the physical pages
    PAGE_SIZE, OBJ_ROUND,
    SLAB_STRUCT,            \* sizeof(struct Slab)
    SLAB_OFFSLAB_THRESHOLD, SLAB_TARGET_N_OBJ,
    KMALLOC_SIZES,          \* sizes of the kmalloc caches, in order
    CACHE_STRUCT,           \* sizeof(struct Cache)
    HASHMAP_DEFAULT_SIZE, REAP_TARGET,
    Sizes,                  \* the sizes clients ask for
    CacheSizes, Ctors,      \* the object sizes of the caches they create, with a constructor or not
    MaxObjects, MaxCaches   \* bounds on what they hold

ASSUME PagesAssumption == Pages \subseteq Nat \ {0}

\* A slab of one object would be full and among the partial ones.
ASSUME TargetAssumption == SLAB_TARGET_N_OBJ >= 2

VARIABLES
    h,          \* the allocator
    held        \* the objects of the clients, a set of [ptr, size, cache]

vars == <<h, held>>

Result(heap, res) == [h |-> heap, res |-> res]

CeilDiv(a, b) == (a + b - 1) \div b

roundMultiple(val, n) == CeilDiv(val, n) * n

Least(S) == CHOOSE x \in S : \A y \in S : x <= y

\* What is done with the result of a call.
With(result, do(_)) == CHOOSE r \in {do(v) : v \in {result}} : TRUE

-----------------------------------------------------------------------------
(***************************************************************************)
(* Pages, from the physical memory manager: the first run that is free.    *)
(***************************************************************************)
Runs(heap, n) == {p \in heap.free : p .. p + n - 1 \subseteq heap.free}

allocatePages(heap, n) ==
    IF Runs(heap, n) = {} THEN Result(heap, NULL)
      ELSE LET p == Least(Runs(heap, n))
           IN  Result([heap EXCEPT !.free = @ \ (p .. p + n - 1)], p)

freePages(heap, p, n) == [heap EXCEPT !.free = @ \cup (p .. p + n - 1)]

-----------------------------------------------------------------------------
(***************************************************************************)
(* The hashmap from pages to slabs: open addressing, going down.           *)
(***************************************************************************)
\* The terms shifted to the right are the same for all pages of 256 MB: they turn the
\* table round.
hash(page) == page * 127 * 127 * 127

Total(map) == Cardinality(DOMAIN map.entries)

None == [key |-> NULL, value |-> NULL]

hashmapTooFull(map) == map.freeEntries * 4 < Total(map)

\* The first index from that of the key downward which has one of the keys.
Probe(entries, page, keys) ==
    LET n == Cardinality(DOMAIN entries)
        hits == {k \in 0 .. n - 1 : entries[(hash(page) - k) % n].key \in keys}
    IN  IF hits = {} THEN NULL - 1 ELSE (hash(page) - Least(hits)) % n

\* The entries of the old table go to the new one in the order of their indices.
Rehash(old, new) ==
    LET add[i \in 0 .. Cardinality(DOMAIN old)] ==
          IF i = 0 THEN new
            ELSE IF old[i - 1].key = NULL THEN add[i - 1]
            ELSE [add[i - 1] EXCEPT ![Probe(add[i - 1], old[i - 1].key, {NULL})] = old[i - 1]]
    IN  add[Cardinality(DOMAIN old)]

TablePages(n) == CeilDiv(n * (PAGE_SIZE \div HASHMAP_DEFAULT_SIZE), PAGE_SIZE)

\* The old table is freed with its number of pages rounded to pages once more.
Hashmap_grow(heap) ==
    LET old == Total(heap.map)
        new == IF old = 0 THEN HASHMAP_DEFAULT_SIZE ELSE 2 * old
        entries == Rehash(heap.map.entries, [i \in 0 .. new - 1 |-> None])
        withTable(table) ==
          [table.h EXCEPT !.map = [entries |-> entries, page |-> table.res,
                                   freeEntries |-> @.freeEntries + new - old]]
        freed(grown) ==
          IF old = 0 THEN grown
            ELSE freePages(grown, heap.map.page, CeilDiv(TablePages(old), PAGE_SIZE))
    IN  With(allocatePages(heap, TablePages(new)), LAMBDA table :
          IF table.res = NULL THEN Result(heap, FALSE)
            ELSE Result(freed(withTable(table)), TRUE))

Hashmap_insert(heap, page, slab) ==
    With(IF hashmapTooFull(heap.map) \/ Total(heap.map) = 0
           THEN Hashmap_grow(heap) ELSE Result(heap, TRUE),
         LAMBDA g :
           IF ~g.res THEN Result(heap, FALSE)
             ELSE Result([g.h EXCEPT !.map.entries[Probe(g.h.map.entries, page, {NULL})] =
                                       [key |-> page, value |-> slab],
                                     !.map.freeEntries = @ - 1], TRUE))

\* The index of the entry, or -1.
Hashmap_find(heap, page) ==
    IF Total(heap.map) = 0 THEN -1
      ELSE With(Probe(heap.map.entries, page, {NULL, page}), LAMBDA i :
             IF heap.map.entries[i].key = NULL THEN -1 ELSE i)

\* Below index c, the first entry that is empty or may move to c; after it the loop ends.
MoveFrom(entries, c) ==
    LET n == Cardinality(DOMAIN entries)
        stays(i) ==
          LET target == hash(entries[i].key) % n
          IN  \/ i <= target /\ target < c
              \/ target < c /\ c < i
              \/ c < i /\ i <= target
        ends == {k \in 1 .. n - 1 : LET i == (c - k) % n
                                    IN  entries[i].key = NULL \/ ~stays(i)}
    IN  (c - Least(ends)) % n

\* Mutant: the entry is emptied and nothing else.
Hashmap_delete_NoMove(heap, i) ==
    IF i = -1 THEN heap
      ELSE [heap EXCEPT !.map.entries[i] = None, !.map.freeEntries = @ + 1]

\* Nothing after the entry that moved is looked at: it may be out of reach now (cut).
Hashmap_delete(heap, i) ==
    IF i = -1 THEN heap
      ELSE With(MoveFrom(heap.map.entries, i), LAMBDA from :
             LET entries == heap.map.entries
                 next == (from - 1) % Cardinality(DOMAIN entries)
             IN  [heap EXCEPT !.map.entries = [@ EXCEPT ![i] = entries[from], ![from] = None],
                              !.map.freeEntries = @ + 1,
                              !.cut = @ \/ (entries[from].key # NULL /\ entries[next].key # NULL)])

-----------------------------------------------------------------------------
(***************************************************************************)
(* Caches and slabs.  A cache and a slab are known by the address of their *)
(* structure; the static caches have the first addresses.                  *)
(***************************************************************************)
m_cacheCache == 1

m_kmallocCaches(i) == i + 1

m_caches == -1

FULL == 0
PARTIAL == 1
EMPTY == 2

\* The lists of a cache, and its node in m_caches.
SlabList(c, kind) == -(4 * c + kind)

CacheNode(c) == -(4 * c + 3)

CacheOf(node) == (-node - 3) \div 4

SLAB_ENDLIST_MARKER == -1

PageOf(ptr) == ptr \div PAGE_SIZE

initCache(heap, c, objsize, ctor) ==
    LET size == roundMultiple(objsize, OBJ_ROUND)
        off == size > SLAB_OFFSLAB_THRESHOLD
        pages == CeilDiv(SLAB_TARGET_N_OBJ * size, PAGE_SIZE)
        n == IF off THEN (pages * PAGE_SIZE) \div size
                    ELSE (pages * PAGE_SIZE - SLAB_STRUCT) \div (size + 1)
    IN  [heap EXCEPT !.caches = Put(@, c, [objSize |-> size, offslab |-> off, n_pages |-> pages,
                                           n_objects |-> n, ctor |-> ctor]),
                     !.L = List_init(List_init(List_init(@, SlabList(c, FULL)),
                                               SlabList(c, PARTIAL)), SlabList(c, EMPTY))]

isSlabFull(slab) == slab.firstFree = SLAB_ENDLIST_MARKER

isSlabEmpty(slab) == slab.n_allocated = 0

\* A slab goes from one list of its cache to the front of another.
MoveSlab(heap, s, from, to) ==
    LET c == heap.slabs[s].owner
    IN  [heap EXCEPT !.L = List_pushFront(List_pop(@, SlabList(c, from), s), SlabList(c, to), s)]

\* Mutant: the index of a freed object is not linked to the list that was there.
freeObject_LosesList(heap, s, ptr) ==
    LET i == (ptr - heap.slabs[s].payload) \div heap.caches[heap.slabs[s].owner].objSize
    IN  [heap EXCEPT !.slabs[s].freeObjects[i] = SLAB_ENDLIST_MARKER, !.slabs[s].firstFree = i,
                     !.slabs[s].n_allocated = @ - 1]

freeObject(heap, s, ptr) ==
    LET i == (ptr - heap.slabs[s].payload) \div heap.caches[heap.slabs[s].owner].objSize
    IN  [heap EXCEPT !.slabs[s].freeObjects[i] = heap.slabs[s].firstFree, !.slabs[s].firstFree = i,
                     !.slabs[s].n_allocated = @ - 1]

freeCacheInSlab(heap, s, ptr) ==
    With(freeObject(heap, s, ptr), LAMBDA freed :
      CASE isSlabFull(heap.slabs[s]) -> MoveSlab(freed, s, FULL, PARTIAL)
        [] ~isSlabFull(heap.slabs[s]) /\ isSlabEmpty(freed.slabs[s]) ->
             MoveSlab(freed, s, PARTIAL, EMPTY)
        [] OTHER -> freed)

getKmallocCache(size) == Least({i \in DOMAIN KMALLOC_SIZES : size <= KMALLOC_SIZES[i]})

kfree(heap, ptr) ==
    With(Hashmap_find(heap, PageOf(ptr)), LAMBDA i :
      LET s == heap.map.entries[i].value
          c == heap.slabs[s].owner
      IN  IF i = -1 \/ c # m_kmallocCaches(getKmallocCache(heap.caches[c].objSize))
            THEN [heap EXCEPT !.panic = TRUE]
            ELSE freeCacheInSlab(heap, s, ptr))

\* A slab whose structure is not kept in its pages calls kmalloc for it: kmalloced is
\* the result of that call.
allocateSlab(heap, c, kmalloced) ==
    LET cache == heap.caches[c]
        n == cache.n_objects
        slab(page) ==
          [owner |-> c, n_allocated |-> 0, firstFree |-> 0, page |-> page,
           payload |-> IF cache.offslab THEN page * PAGE_SIZE
                         ELSE roundMultiple(page * PAGE_SIZE + SLAB_STRUCT + n, OBJ_ROUND),
           freeObjects |-> [i \in 0 .. n - 1 |->
                              IF i = n - 1 THEN SLAB_ENDLIST_MARKER ELSE i + 1]]
        placed(g, s, page) == Result([g EXCEPT !.slabs = Put(@, s, slab(page))], s)
        withStruct(struct) ==
          With(allocatePages(struct.h, cache.n_pages), LAMBDA pages :
            CASE cache.offslab /\ pages.res = NULL -> Result(kfree(struct.h, struct.res), NULL)
              [] ~cache.offslab /\ pages.res = NULL -> Result(heap, NULL)
              [] OTHER -> placed(pages.h, IF cache.offslab THEN struct.res
                                            ELSE pages.res * PAGE_SIZE, pages.res))
    IN  With(IF cache.offslab THEN kmalloced ELSE Result(heap, NULL),
             LAMBDA struct :
               IF cache.offslab /\ struct.res = NULL THEN Result(struct.h, NULL)
                 ELSE withStruct(struct))

\* The pages of a slab are entered one by one; a failure undoes the entries made
\* so far and leaves the slab allocated (leak).
growCache(heap, c, kmalloced) ==
    LET n == heap.caches[c].n_pages
        page(g, s, i) == PageOf(g.slabs[s].payload) + i
        insertAll(g, s) ==
          LET insert[i \in 0 .. n] ==
                IF i = 0 THEN Result(g, TRUE)
                  ELSE With(insert[i - 1], LAMBDA r :
                         IF r.res THEN Hashmap_insert(r.h, page(g, s, i - 1), s) ELSE r)
          IN  insert[n]
        lost(g, s) == [pages |-> page(g, s, 0) .. page(g, s, n - 1),
                       struct |-> IF heap.caches[c].offslab THEN s ELSE NULL]
        undo(g, s) ==
          LET delete[i \in 0 .. n] ==
                IF i = 0 THEN [g EXCEPT !.slabs = Drop(@, s), !.leak = @ \cup {lost(g, s)}]
                  ELSE With(delete[i - 1], LAMBDA r :
                         Hashmap_delete(r, Hashmap_find(r, page(g, s, i - 1))))
          IN  delete[n]
        entered(r, s) ==
          IF r.res THEN Result([r.h EXCEPT !.L = List_pushFront(@, SlabList(c, EMPTY), s)], TRUE)
                   ELSE Result(undo(r.h, s), FALSE)
    IN  With(allocateSlab(heap, c, kmalloced), LAMBDA new :
          IF new.res = NULL THEN Result(new.h, FALSE)
            ELSE With(insertAll(new.h, new.res), LAMBDA r : entered(r, new.res)))

\* What freeObjects has for an allocated object is not read again: it is forgotten.
allocateObject(heap, s) ==
    LET slab == heap.slabs[s]
    IN  Result([heap EXCEPT !.slabs[s].firstFree = slab.freeObjects[slab.firstFree],
                            !.slabs[s].freeObjects[slab.firstFree] = SLAB_ENDLIST_MARKER,
                            !.slabs[s].n_allocated = @ + 1],
               slab.payload + slab.firstFree * heap.caches[slab.owner].objSize)

Cache_mallocWith(heap, c, kmalloced) ==
    LET partial == ~List_isEmpty(heap.L, SlabList(c, PARTIAL))
        take(g, s) ==
          With(allocateObject(g, s), LAMBDA o :
            CASE ~partial -> Result(MoveSlab(o.h, s, EMPTY, PARTIAL), o.res)
              [] partial /\ isSlabFull(o.h.slabs[s]) ->
                   Result(MoveSlab(o.h, s, PARTIAL, FULL), o.res)
              [] OTHER -> o)
    IN  With(IF ~partial /\ List_isEmpty(heap.L, SlabList(c, EMPTY))
               THEN growCache(heap, c, kmalloced) ELSE Result(heap, TRUE),
             LAMBDA g :
               IF ~g.res THEN Result(g.h, NULL)
                 ELSE take(g.h, g.h.L.head[SlabList(c, IF partial THEN PARTIAL ELSE EMPTY)]))

\* The structures of slabs are allocated from caches that keep theirs in the slab.
kmallocStruct(heap, size) ==
    Cache_mallocWith(heap, m_kmallocCaches(getKmallocCache(size)), Result(heap, NULL))

Cache_malloc(heap, c) ==
    Cache_mallocWith(heap, c, kmallocStruct(heap, SLAB_STRUCT + heap.caches[c].n_objects))

kmalloc(heap, size) ==
    IF size = 0 \/ size > KMALLOC_SIZES[Len(KMALLOC_SIZES)] THEN Result(heap, NULL)
      ELSE Cache_malloc(heap, m_kmallocCaches(getKmallocCache(size)))

Cache_free(heap, ptr) ==
    With(Hashmap_find(heap, PageOf(ptr)), LAMBDA i :
      IF i = -1 THEN heap ELSE freeCacheInSlab(heap, heap.map.entries[i].value, ptr))

freeSlab(heap, s) ==
    LET slab == heap.slabs[s]
        cache == heap.caches[slab.owner]
    IN  With([freePages(heap, slab.page, cache.n_pages)
              EXCEPT !.slabs = Drop(@, s), !.L = Forget(@, s)],
             LAMBDA freed : IF cache.offslab THEN kfree(freed, s) ELSE freed)

\* The first slab of one of the lists of a cache is removed.
removeCacheSlab(heap, c, kind) ==
    LET s == heap.L.head[SlabList(c, kind)]
        delete[i \in 0 .. heap.caches[c].n_pages] ==
          IF i = 0 THEN [heap EXCEPT !.L = List_pop(@, SlabList(c, kind), s)]
            ELSE With(delete[i - 1], LAMBDA r :
                   Hashmap_delete(r, Hashmap_find(r, PageOf(heap.slabs[s].payload) + i - 1)))
    IN  freeSlab(delete[heap.caches[c].n_pages], s)

SlabsIn(heap, c, kind) == Walk(heap.L, SlabList(c, kind), Cardinality(Pages))

removeSlabs(heap, c, kind, n) ==
    LET remove[i \in 0 .. n] == IF i = 0 THEN heap ELSE removeCacheSlab(remove[i - 1], c, kind)
    IN  remove[n]

shrinkCache(heap, c, n) == removeSlabs(heap, c, EMPTY, n)

getReapablePages(heap, c) ==
    LET n == Cardinality(SlabsIn(heap, c, EMPTY)) * heap.caches[c].n_pages
    IN  IF heap.caches[c].ctor THEN n \div 2 ELSE n

\* Of the caches with most pages to reap, the first in the list; half if there is much.
SlabAllocator_reapAndTear(heap) ==
    LET max == Cardinality(DOMAIN heap.caches)
        at == Visit(heap.L, m_caches, max)
        reapable == [k \in {j \in 0 .. max : at[j] # m_caches} |->
                       getReapablePages(heap, CacheOf(at[k]))]
        first(n) == Least({k \in DOMAIN n : \A j \in DOMAIN n : n[j] <= n[k]})
        reap(c, pages) ==
          shrinkCache(heap, c, (IF pages > REAP_TARGET THEN pages \div 2 ELSE pages)
                                 \div heap.caches[c].n_pages)
    IN  With(reapable, LAMBDA n :
          IF \A k \in DOMAIN n : n[k] = 0 THEN heap
            ELSE With(first(n), LAMBDA k : reap(CacheOf(at[k]), n[k])))

Cache_create(heap, objsize, ctor) ==
    With(Cache_malloc(heap, m_cacheCache), LAMBDA r :
      IF r.res = NULL THEN r
        ELSE Result([initCache(r.h, r.res, objsize, ctor)
                     EXCEPT !.L = List_pushFront(@, m_caches, CacheNode(r.res))], r.res))

Cache_destroy(heap, c) ==
    LET empty(g, kind) == removeSlabs(g, c, kind, Cardinality(SlabsIn(g, c, kind)))
        lists == {SlabList(c, kind) : kind \in {FULL, PARTIAL, EMPTY}}
        unlisted(L) == Forget(List_pop(L, m_caches, CacheNode(c)), CacheNode(c))
        gone(bare) ==
          [bare EXCEPT !.caches = Drop(@, c),
                       !.L = [unlisted(@) EXCEPT !.head = DropAll(@, lists), !.tail = DropAll(@, lists)]]
    IN  Cache_free(gone(empty(empty(empty(heap, EMPTY), PARTIAL), FULL)), c)

\* Mutant: the sizes are compared the wrong way round.
krealloc_Keeps(heap, ptr, size) ==
    LET old(i) == heap.caches[heap.slabs[heap.map.entries[i].value].owner].objSize
    IN  IF old(Hashmap_find(heap, PageOf(ptr))) <= size THEN Result(heap, ptr)
          ELSE With(kmalloc(heap, size), LAMBDA new : Result(kfree(new.h, ptr), new.res))

\* The object is kept if its cache has large enough ones.
krealloc(heap, ptr, size) ==
    With(Hashmap_find(heap, PageOf(ptr)), LAMBDA i :
      LET old == heap.caches[heap.slabs[heap.map.entries[i].value].owner].objSize
      IN  CASE i = -1 -> Result([heap EXCEPT !.panic = TRUE], NULL)
            [] i # -1 /\ old >= size -> Result(heap, ptr)
            [] OTHER -> With(kmalloc(heap, size), LAMBDA new :
                          IF new.res = NULL THEN new ELSE Result(kfree(new.h, ptr), new.res)))

-----------------------------------------------------------------------------
(***************************************************************************)
(* The clients.                                                            *)
(***************************************************************************)
SlabAllocator_init ==
    LET bare == [free |-> Pages, map |-> [entries |-> << >>, page |-> NULL, freeEntries |-> 0],
                 caches |-> << >>, slabs |-> << >>, L |-> List_init(NoLists, m_caches),
                 panic |-> FALSE, leak |-> {}, cut |-> FALSE]
        add[i \in 0 .. Len(KMALLOC_SIZES)] ==
          IF i = 0 THEN initCache(bare, m_cacheCache, CACHE_STRUCT, FALSE)
            ELSE LET c == m_kmallocCaches(i)
                 IN  [initCache(add[i - 1], c, KMALLOC_SIZES[i], FALSE)
                      EXCEPT !.L = List_pushFront(@, m_caches, CacheNode(c))]
    IN  add[Len(KMALLOC_SIZES)]

KMALLOC == 0

Held(ptr, size, cache) == [ptr |-> ptr, size |-> size, cache |-> cache]

Keep(r, size, cache) ==
    /\ h' = r.h
    /\ held' = IF r.res = NULL THEN held ELSE held \cup {Held(r.res, size, cache)}

\* The caches that clients have created.
Created == DOMAIN h.caches \ (1 .. Len(KMALLOC_SIZES) + 1)

Init == h = SlabAllocator_init /\ held = {}

Allocate(size) ==
    /\ Cardinality(held) < MaxObjects
    /\ Keep(kmalloc(h, size), size, KMALLOC)

Release(o) ==
    /\ o.cache = KMALLOC
    /\ h' = kfree(h, o.ptr)
    /\ held' = held \ {o}

Reallocate(o, size) ==
    /\ o.cache = KMALLOC
    /\ \E r \in {krealloc(h, o.ptr, size)} :
         /\ h' = r.h
         /\ held' = IF r.res = NULL THEN held
                      ELSE (held \ {o}) \cup {Held(r.res, size, KMALLOC)}

Create(objsize, ctor) ==
    /\ Cardinality(Created) < MaxCaches
    /\ h' = Cache_create(h, objsize, ctor).h
    /\ UNCHANGED held

\* A cache is destroyed with the objects that are still in it.
Destroy(c) ==
    /\ h' = Cache_destroy(h, c)
    /\ held' = {o \in held : o.cache # c}

AllocateIn(c) ==
    /\ Cardinality(held) < MaxObjects
    /\ Keep(Cache_malloc(h, c), h.caches[c].objSize, c)

ReleaseIn(o) ==
    /\ o.cache # KMALLOC
    /\ h' = Cache_free(h, o.ptr)
    /\ held' = held \ {o}

Reap == h' = SlabAllocator_reapAndTear(h) /\ UNCHANGED held

\* After a cut an entry of a slab that is gone may come back, and the code reads
\* memory that is not a slab any more: nothing is said of that.
Next ==
    /\ ~h.panic /\ ~h.cut
    /\ \/ \E size \in Sizes : Allocate(size)
       \/ \E o \in held : Release(o) \/ ReleaseIn(o)
       \/ \E o \in held, size \in Sizes : Reallocate(o, size)
       \/ \E size \in CacheSizes, ctor \in Ctors : Create(size, ctor)
       \/ \E c \in Created : Destroy(c) \/ AllocateIn(c)
       \/ Reap

Spec == Init /\ [][Next]_vars

-----------------------------------------------------------------------------
Slabs == DOMAIN h.slabs

SlabPages(s) == h.slabs[s].page .. h.slabs[s].page + h.caches[h.slabs[s].owner].n_pages - 1

\* The objects in use: those of the clients, the structures of slabs kept elsewhere
\* and of caches.
InUse ==
    {[ptr |-> o.ptr, size |-> o.size] : o \in held}
      \cup {[ptr |-> s, size |-> SLAB_STRUCT + h.caches[h.slabs[s].owner].n_objects] :
              s \in {t \in Slabs : h.caches[h.slabs[t].owner].offslab}}
      \cup {[ptr |-> l.struct, size |-> SLAB_STRUCT] : l \in {k \in h.leak : k.struct # NULL}}
      \cup {[ptr |-> c, size |-> CACHE_STRUCT] : c \in Created}

\* The free objects of a slab along its free list.
FreeObjects(s) ==
    LET n == h.caches[h.slabs[s].owner].n_objects
        at[k \in 0 .. n] ==
          IF k = 0 THEN h.slabs[s].firstFree
            ELSE IF at[k - 1] = SLAB_ENDLIST_MARKER THEN at[k - 1]
                 ELSE h.slabs[s].freeObjects[at[k - 1]]
    IN  {at[k] : k \in 0 .. n} \ {SLAB_ENDLIST_MARKER}

KindOf(s) ==
    CASE FreeObjects(s) = {} -> FULL
      [] Cardinality(FreeObjects(s)) = h.caches[h.slabs[s].owner].n_objects -> EMPTY
      [] OTHER -> PARTIAL

\* After any calls every slab is in the list of its cache that its free objects
\* ask for, the lists are linked both ways, and the free list holds no object that
\* somebody has and (while pages are found) every other (Cache_malloc,
\* freeCacheInSlab, List_pop).
SlabsExact ==
    /\ \A c \in DOMAIN h.caches, kind \in {FULL, PARTIAL, EMPTY} :
         IsList(h.L, SlabList(c, kind),
                {s \in Slabs : h.slabs[s].owner = c /\ KindOf(s) = kind})
    /\ \A s \in Slabs :
         LET slab == h.slabs[s]
             cache == h.caches[slab.owner]
             used == {slab.payload + i * cache.objSize : i \in (0 .. cache.n_objects - 1) \ FreeObjects(s)}
             known == {o.ptr : o \in {u \in InUse : PageOf(u.ptr) \in SlabPages(s)}}
         IN  /\ known \subseteq used
             /\ ~h.cut => used = known
             /\ slab.n_allocated = Cardinality(used)

Bytes(o) == o.ptr .. o.ptr + o.size - 1

\* No byte has two owners: objects in use do not overlap, lie in pages of a slab
\* behind its own structure, and pages are free, of one slab (or one that growCache
\* lost), or of the table.
MemoryDisjoint ==
    /\ \A o \in InUse, u \in InUse : o # u => Bytes(o) \cap Bytes(u) = {}
    /\ \A o \in InUse : \E s \in Slabs :
         /\ PageOf(o.ptr) \in SlabPages(s) /\ PageOf(o.ptr + o.size - 1) \in SlabPages(s)
         /\ o.ptr >= h.slabs[s].payload
         /\ s \div PAGE_SIZE \in SlabPages(s) =>
              h.slabs[s].payload >= s + SLAB_STRUCT + h.caches[h.slabs[s].owner].n_objects
    /\ LET table == IF h.map.page = NULL THEN {}
                      ELSE h.map.page .. h.map.page + TablePages(Total(h.map)) - 1
           owners(p) == Cardinality({s \in Slabs : p \in SlabPages(s)})
                          + Cardinality({l \in h.leak : p \in l.pages})
                          + Cardinality({p} \cap table) + Cardinality({p} \cap h.free)
       IN  \A p \in Pages : owners(p) = 1

\* Every page of a slab leads to it through the hashmap, so that no object can
\* become impossible to free; the comment in Hashmap_delete says that it moves
\* back the elements that need it.
EveryPageFound ==
    \A s \in Slabs : \A p \in SlabPages(s) :
      /\ Hashmap_find(h, p) # -1
      /\ h.map.entries[Hashmap_find(h, p)].value = s

\* As long as no deletion stopped before the end of a bucket, every page of a slab
\* is found, kfree does not panic, and the count of free entries is exact.
FoundUnlessCut ==
    ~h.cut =>
      /\ EveryPageFound
      /\ ~h.panic
      /\ h.map.freeEntries = Cardinality({i \in DOMAIN h.map.entries : h.map.entries[i].key = NULL})
=============================================================================
