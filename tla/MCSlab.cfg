SPECIFICATION Spec
CONSTANTS
    Pages = {1, 2, 3, 4, 5, 6, 9, 10, 11, 12, 13, 14}
    PAGE_SIZE = 32
    OBJ_ROUND = 2
    SLAB_STRUCT = 2
    SLAB_OFFSLAB_THRESHOLD = 8
    SLAB_TARGET_N_OBJ = 2
    KMALLOC_SIZES <- MC_KMALLOC_SIZES
    CACHE_STRUCT = 8
    HASHMAP_DEFAULT_SIZE = 8
    REAP_TARGET = 2
    Sizes = {7, 64}
    CacheSizes = {64}
    Ctors = {TRUE}
    MaxObjects = 3
    MaxCaches = 1
INVARIANTS
    SlabsExact
    
    FoundUnlessCut
CHECK_DEADLOCK FALSE
