CONSTANTS
    U64 = 32
    PAGE_SIZE = 4
    TOTAL_PAGES = 6
    BITS = 2
    MIN_ALLOCATABLE_ADDRESS = 8
    MAX_USABLE_REGIONS = 3
    MAX_RESERVED_REGIONS = 2
    USABLE = USABLE
    OtherTypes = {RESERVED}
    MAX_RAM = 28
    NoMap = NoMap
    Reservations <- MCReservations
    MemoryMaps <- MCMemoryMaps
    Addresses <- MCAddresses
    Counts <- MCCounts
SPECIFICATION LoopsSpec
PROPERTIES
    ImplementsPageAllocator
