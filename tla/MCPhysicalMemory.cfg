CONSTANTS
    U64 = 64
    PAGE_SIZE = 4
    MIN_ALLOCATABLE_ADDRESS = 8
    MAX_USABLE_REGIONS = 2
    MAX_RESERVED_REGIONS = 5
    MAX_E820_ENTRIES = 3
    USABLE = USABLE
    OtherTypes = {RESERVED}
    MAX_RAM = 36
    NoMap = NoMap
    Reservations <- MCReservations
    MemoryMaps <- MCMemoryMaps
    Firmwares <- MCFirmwares
SPECIFICATION BootSpec
CHECK_DEADLOCK FALSE
INVARIANTS
    MemTypeOK
    UsableIsRam
    UsableRegionsExclusive
    NoPageLost
    EveryReservationKept
    MapIsFirmwareList
PROPERTIES
    MemoryGetsReady
