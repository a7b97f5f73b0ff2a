SPECIFICATION Spec
CONSTANTS
    WordBits = 2
    CounterMod = 64
    BitsPerPage = 4
    MMAP_MAX_ENTRIES = 4
    Types = {"usable", "acpi_reclaimable", "bootloader_reclaimable", "bad", "other"}
    MaxEntries = 3
    MaxLength = 3
    LimineMaps <- CommonMaps
INVARIANTS
    AssertsHold
    PagesHandedOver
    BitmapStorageSafe
    PagesConserved
CHECK_DEADLOCK FALSE
