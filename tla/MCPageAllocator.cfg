CONSTANTS
    U64 = 64
    PAGE_SIZE = 4
    TOTAL_PAGES = 8
    MIN_ALLOCATABLE_ADDRESS = 8
    MAX_USABLE_REGIONS = 3
    MAX_RESERVED_REGIONS = 2
    USABLE = USABLE
    OtherTypes = {RESERVED}
    MAX_RAM = 40
    NoMap = NoMap
    Reservations <- MCReservations
    MemoryMaps <- MCMemoryMaps
SPECIFICATION Spec
INVARIANTS
    TypeOK
    BitmapMatchesMetadata
    ReservedNeverFree
    PagesAccountedFor
    PageZeroNeverAllocated
