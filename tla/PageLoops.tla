----------------------------- MODULE PageLoops -----------------------------
(***************************************************************************)
(* The page allocator's loops                                              *)
(* (kernel/memory/physical_page_allocator.cpp).  PageAllocator takes each  *)
(* of its calls as one step on a set of pages; here the bitmap is the      *)
(* array of bytes it is in the kernel, and every round of every loop is a  *)
(* step: filling the arrays, freeing and reserving the regions page by     *)
(* page, looking for one page, counting up a run and then marking it,      *)
(* freeing a run.                                                          *)
(*                                                                         *)
(* One call runs at a time and no interrupt handler calls the allocator,   *)
(* so nobody sees a loop half done: the abstract step is taken when the    *)
(* loop ends.  `committed' keeps what the abstract variables are until     *)
(* then.                                                                   *)
(***************************************************************************)
EXTENDS PhysicalMemory

CONSTANTS
    TOTAL_PAGES,
    BITS,            \* bits of a byte of the bitmap (8)
    Addresses,       \* the addresses callers free from
    Counts           \* the numbers of pages callers ask for or free

MAX_PHYSICAL_MEMORY == TOTAL_PAGES * PAGE_SIZE
PageIndex == 0 .. (TOTAL_PAGES - 1)
BITMAP_SIZE_BYTES == TOTAL_PAGES \div BITS

ASSUME PageLoopsAssumption ==
    /\ TOTAL_PAGES \in Nat \ {0}
    /\ BITS \in Nat \ {0}
    /\ TOTAL_PAGES % BITS = 0
    /\ MAX_PHYSICAL_MEMORY <= U64
    /\ \A k \in DOMAIN Reservations :
          Reservations[k][2] <= MAX_PHYSICAL_MEMORY
    /\ Addresses \subseteq Address
    /\ Counts \subseteq 0 .. (TOTAL_PAGES + 1)

VARIABLES
    loop,            \* the loop that runs, "memory" before the first of
                     \* them and "none" between two calls
    n,               \* its index or its address
    region,          \* index of the region a region loop is in
    page_count,      \* argument of the call
    run_start,       \* current_run_start, or the call's start_address
    run_length,      \* current_run_length
    page_bitmap,     \* the bytes, each the sequence of its bits
    page_metadata,   \* [allocated, reserved] for each page
    live,            \* history: pages returned to a caller and not freed since
    committed        \* history: bitmap, metadata and live when no loop runs

locals == <<n, page_count, run_start, run_length>>
arrays == <<page_bitmap, page_metadata>>
loopsVars == <<memVars, loop, region, locals, arrays, live, committed>>

\* The bits of the bitmap, page by page.
bits(bytes) == [p \in PageIndex |-> bytes[p \div BITS][p % BITS]]

LoopsInit ==
    /\ MemInit
    /\ loop = "memory"
    /\ n = 0 /\ page_count = 0 /\ run_start = 0 /\ run_length = 0
    /\ region = 1
    /\ page_bitmap = [b \in 0 .. (BITMAP_SIZE_BYTES - 1) |->
                         [k \in 0 .. (BITS - 1) |-> FALSE]]
    /\ page_metadata = [p \in PageIndex |-> [allocated |-> FALSE, reserved |-> FALSE]]
    /\ live = {}
    /\ committed = [bitmap |-> bits(page_bitmap), metadata |-> page_metadata,
                    live |-> live]

\* A loop or a call is over: the abstract step.
Commit ==
    committed' = [bitmap |-> bits(page_bitmap'), metadata |-> page_metadata',
                  live |-> live']

\* A loop starts with its index at from.
Start(name, from) ==
    /\ loop' = name
    /\ n' = from
    /\ page_count' = 0 /\ run_start' = 0 /\ run_length' = 0

Return == Start("none", 0) /\ Commit

Continue(next) ==
    /\ n' = next
    /\ UNCHANGED <<loop, page_count, run_start, run_length, committed>>

-----------------------------------------------------------------------------
(***************************************************************************)
(* One page.                                                               *)
(***************************************************************************)

page_index(address) == address \div PAGE_SIZE

\* page_bitmap[byte_index] & mask, and the byte with that bit set or cleared.
bit(index) == page_bitmap[index \div BITS][index % BITS]

with_bit(index, set) ==
    [page_bitmap EXCEPT ![index \div BITS][index % BITS] = set]

is_page_used(address) ==
    page_index(address) >= TOTAL_PAGES \/ bit(page_index(address))

is_page_free(address) == ~ is_page_used(address)

mark_page_used(address) ==
    IF page_index(address) >= TOTAL_PAGES THEN UNCHANGED arrays
    ELSE /\ page_bitmap' = with_bit(page_index(address), TRUE)
         /\ page_metadata' =
               [page_metadata EXCEPT ![page_index(address)].allocated = TRUE]

\* mark_page_free changes something: the page is tracked, not flagged as
\* reserved, and allocated.
clears(address) ==
    /\ page_index(address) < TOTAL_PAGES
    /\ ~ page_metadata[page_index(address)].reserved
    /\ page_metadata[page_index(address)].allocated

mark_page_free(address) ==
    IF clears(address)
    THEN /\ page_bitmap' = with_bit(page_index(address), FALSE)
         /\ page_metadata' =
               [page_metadata EXCEPT ![page_index(address)].allocated = FALSE]
    ELSE UNCHANGED arrays

-----------------------------------------------------------------------------
(***************************************************************************)
(* initialize.                                                             *)
(***************************************************************************)

MemoryRuns ==
    /\ loop = "memory"
    /\ MemNext
    /\ UNCHANGED <<loop, region, locals, arrays, live, committed>>

Initialize ==
    /\ loop = "memory" /\ step = "ready"
    /\ Start("bytes", 0)
    /\ UNCHANGED <<memVars, region, arrays, live, committed>>

\* mark_all_regions_used, a byte of ones at a time.
FillByte ==
    /\ loop = "bytes" /\ n < BITMAP_SIZE_BYTES
    /\ page_bitmap' = [page_bitmap EXCEPT ![n] = [k \in 0 .. (BITS - 1) |-> TRUE]]
    /\ Continue(n + 1)
    /\ UNCHANGED <<memVars, region, page_metadata, live>>

BytesFilled ==
    /\ loop = "bytes" /\ n >= BITMAP_SIZE_BYTES
    /\ Start("metadata", 0)
    /\ UNCHANGED <<memVars, region, arrays, live, committed>>

\* init_metadata.
FillMetadata ==
    /\ loop = "metadata" /\ n < TOTAL_PAGES
    /\ page_metadata' =
          [page_metadata EXCEPT ![n] = [allocated |-> TRUE, reserved |-> FALSE]]
    /\ Continue(n + 1)
    /\ UNCHANGED <<memVars, region, page_bitmap, live>>

MetadataFilled ==
    /\ loop = "metadata" /\ n >= TOTAL_PAGES
    /\ Start("free_regions", 0)
    /\ region' = 1
    /\ UNCHANGED <<memVars, arrays, live>>
    /\ Commit

\* The address loops of mark_region_free and mark_region_used; the address
\* is kept as its distance n from the start of the region.
RegionLoop(name, regions) == loop = name /\ region <= Len(regions)
region_address(regions) == add_u64(regions[region].start, n)

FreeRegionPage ==
    /\ RegionLoop("free_regions", usable_regions)
    /\ region_address(usable_regions) < usable_regions[region].end
    /\ mark_page_free(region_address(usable_regions))
    /\ Continue(n + PAGE_SIZE)
    /\ UNCHANGED <<memVars, region, live>>

UseRegionPage ==
    /\ RegionLoop("use_regions", reserved_regions)
    /\ LET address == region_address(reserved_regions)
       IN  /\ address < reserved_regions[region].end
           /\ page_bitmap' = with_bit(page_index(address), TRUE)
           /\ page_metadata' = [page_metadata EXCEPT ![page_index(address)] =
                                   [allocated |-> TRUE, reserved |-> TRUE]]
    /\ Continue(n + PAGE_SIZE)
    /\ UNCHANGED <<memVars, region, live>>

RegionDone(name, regions) ==
    /\ RegionLoop(name, regions)
    /\ region_address(regions) >= regions[region].end
    /\ Start(name, 0)
    /\ region' = region + 1
    /\ UNCHANGED <<memVars, arrays, live>>
    /\ Commit

AllUsableDone ==
    /\ loop = "free_regions" /\ region > Len(usable_regions)
    /\ Start("use_regions", 0)
    /\ region' = 1
    /\ UNCHANGED <<memVars, arrays, live, committed>>

AllReservedDone ==
    /\ loop = "use_regions" /\ region > Len(reserved_regions)
    /\ Start("none", 0)
    /\ UNCHANGED <<memVars, region, arrays, live, committed>>

InitializeNext ==
    \/ MemoryRuns \/ Initialize
    \/ FillByte \/ BytesFilled \/ FillMetadata \/ MetadataFilled
    \/ FreeRegionPage \/ RegionDone("free_regions", usable_regions) \/ AllUsableDone
    \/ UseRegionPage \/ RegionDone("use_regions", reserved_regions) \/ AllReservedDone

-----------------------------------------------------------------------------
(***************************************************************************)
(* allocate_page and allocate_contiguous_pages.                            *)
(***************************************************************************)

AllocatePage ==
    /\ loop = "none"
    /\ Start("search", 0)
    /\ UNCHANGED <<memVars, region, arrays, live, committed>>

SearchUsed ==
    /\ loop = "search" /\ n < TOTAL_PAGES
    /\ is_page_used(n * PAGE_SIZE)
    /\ Continue(n + 1)
    /\ UNCHANGED <<memVars, region, arrays, live>>

\* The caller takes the address 0 for a failure.
SearchFree ==
    /\ loop = "search" /\ n < TOTAL_PAGES
    /\ is_page_free(n * PAGE_SIZE)
    /\ mark_page_used(n * PAGE_SIZE)
    /\ live' = IF n = 0 THEN live ELSE live \cup {n}
    /\ Return
    /\ UNCHANGED <<memVars, region>>

NoneFound ==
    /\ loop \in {"search", "count"} /\ n >= TOTAL_PAGES
    /\ UNCHANGED <<memVars, region, arrays, live>>
    /\ Return

\* A call for no page returns at once.
AllocateContiguousPages(count) ==
    /\ loop = "none"
    /\ count # 0
    /\ loop' = "count"
    /\ page_count' = count
    /\ UNCHANGED <<memVars, region, n, run_start, run_length, arrays, live, committed>>

\* Faulty variant of CountUsed: the run goes on across a used page.
CountUsed_no_reset ==
    /\ loop = "count" /\ n < TOTAL_PAGES
    /\ is_page_used(n * PAGE_SIZE)
    /\ n' = n + 1
    /\ UNCHANGED <<memVars, loop, region, page_count, run_start, run_length,
                   arrays, live, committed>>

CountUsed ==
    /\ loop = "count" /\ n < TOTAL_PAGES
    /\ is_page_used(n * PAGE_SIZE)
    /\ run_start' = 0 /\ run_length' = 0
    /\ n' = n + 1
    /\ UNCHANGED <<memVars, loop, region, page_count, arrays, live, committed>>

CountFree ==
    /\ loop = "count" /\ n < TOTAL_PAGES
    /\ is_page_free(n * PAGE_SIZE)
    /\ run_start' = IF run_length = 0 THEN n * PAGE_SIZE ELSE run_start
    /\ run_length' = run_length + 1
    /\ IF run_length' = page_count THEN loop' = "mark" /\ n' = 0
                                   ELSE n' = n + 1 /\ UNCHANGED loop
    /\ UNCHANGED <<memVars, region, page_count, arrays, live, committed>>

MarkRunPage ==
    /\ loop = "mark" /\ n < page_count
    /\ mark_page_used(add_u64(run_start, n * PAGE_SIZE))
    /\ Continue(n + 1)
    /\ UNCHANGED <<memVars, region, live>>

RunMarked ==
    /\ loop = "mark" /\ n >= page_count
    /\ UNCHANGED <<memVars, region, arrays>>
    /\ live' = IF run_start = 0 THEN live
               ELSE live \cup {page_index(run_start) + k : k \in 0 .. (page_count - 1)}
    /\ Return

-----------------------------------------------------------------------------
(***************************************************************************)
(* free_page and free_contiguous_pages.                                    *)
(***************************************************************************)

is_reserved_page(address) ==
    \E k \in DOMAIN reserved_regions :
        reserved_regions[k].start <= address /\ address < reserved_regions[k].end

\* The early returns of free_page.
may_free(address) ==
    /\ is_page_aligned(address) /\ address < MAX_PHYSICAL_MEMORY
    /\ ~ is_reserved_page(address)

\* live is a set of pages known to callers: a page freed leaves it.
free_page(address) ==
    IF may_free(address)
    THEN /\ mark_page_free(address)
         /\ live' = IF clears(address) THEN live \ {page_index(address)} ELSE live
    ELSE UNCHANGED <<arrays, live>>

FreePage(address) ==
    /\ loop = "none"
    /\ free_page(address)
    /\ Return
    /\ UNCHANGED <<memVars, region>>

\* No page and an unaligned address return at once.
FreeContiguousPages(address, count) ==
    /\ loop = "none"
    /\ count # 0 /\ is_page_aligned(address)
    /\ loop' = "free"
    /\ run_start' = address /\ page_count' = count
    /\ UNCHANGED <<memVars, region, n, run_length, arrays, live, committed>>

FreeRunPage ==
    /\ loop = "free" /\ n < page_count
    /\ free_page((run_start + PAGE_SIZE * n) % U64)
    /\ Continue(n + 1)
    /\ UNCHANGED <<memVars, region>>

RunFreed ==
    /\ loop = "free" /\ n >= page_count
    /\ UNCHANGED <<memVars, region, arrays, live>>
    /\ Return

-----------------------------------------------------------------------------
LoopsNext ==
    \/ InitializeNext
    \/ AllocatePage \/ SearchUsed \/ SearchFree \/ NoneFound
    \/ \E count \in Counts : AllocateContiguousPages(count)
    \/ CountUsed \/ CountFree \/ MarkRunPage \/ RunMarked
    \/ \E address \in Addresses : FreePage(address)
    \/ \E address \in Addresses, count \in Counts :
          FreeContiguousPages(address, count)
    \/ FreeRunPage \/ RunFreed

LoopsSpec == LoopsInit /\ [][LoopsNext]_loopsVars

-----------------------------------------------------------------------------
(***************************************************************************)
(* Refinement.                                                             *)
(***************************************************************************)

abstract_phase ==
    CASE loop \in {"memory", "bytes", "metadata"} -> "memory"
      [] loop = "free_regions" -> "free"
      [] loop = "use_regions"  -> "protect"
      [] OTHER                 -> "running"

Abstract == INSTANCE PageAllocator WITH
    phase         <- abstract_phase,
    page_bitmap   <- committed.bitmap,
    page_metadata <- committed.metadata,
    live          <- committed.live

\* Every loop, when it ends, has done what PageAllocator says its call does
\* in one step: the counting loop finds the lowest run of enough free pages
\* and marks it and no other page, page 0 or not; the last byte and the last
\* page are filled; a loop over a run that wraps or leaves the tracked memory
\* frees what it may and nothing else.
ImplementsPageAllocator == Abstract!Spec

=============================================================================
