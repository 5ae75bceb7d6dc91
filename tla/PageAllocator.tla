---------------------------- MODULE PageAllocator ----------------------------
(***************************************************************************)
(* The physical page allocator (kernel/memory/physical_page_allocator.cpp) *)
(* on top of the region tables of PhysicalMemory: a bitmap of used pages   *)
(* and an array of per-page metadata that must agree with it.              *)
(*                                                                         *)
(* initialize runs after memory::initialize, with interrupts off: one      *)
(* action fills both arrays, one action per usable region frees its pages, *)
(* one action per reserved region takes them back.  Then callers allocate  *)
(* and free.  The interface is total: free_page may be given any address,  *)
(* unaligned, out of range, reserved, free already or never handed out.    *)
(* The caller that exists, the shell, is module Shell.                     *)
(***************************************************************************)
EXTENDS PhysicalMemory, FiniteSetsExt

CONSTANT TOTAL_PAGES   \* pages tracked (131072: 512 MiB of 4 KiB pages)

MAX_PHYSICAL_MEMORY == TOTAL_PAGES * PAGE_SIZE
PageIndex == 0 .. (TOTAL_PAGES - 1)

(***************************************************************************)
(* mark_region_used writes page_metadata without a bounds check, so every  *)
(* reservation has to lie below MAX_PHYSICAL_MEMORY.                       *)
(***************************************************************************)
ASSUME PageAllocatorAssumption ==
    /\ TOTAL_PAGES \in Nat \ {0}
    /\ MAX_PHYSICAL_MEMORY <= U64
    /\ \A k \in DOMAIN Reservations :
          Reservations[k][2] <= MAX_PHYSICAL_MEMORY

VARIABLES
    phase,           \* "memory", "free", "protect" or "running"
    region,          \* index of the next region to mark
    page_bitmap,     \* TRUE: the page's bit is set, the page is used
    page_metadata,   \* [allocated, reserved] for each page
    live             \* history: pages returned to a caller and not freed since

allocVars == <<phase, region, page_bitmap, page_metadata, live>>
vars == <<memVars, allocVars>>

Metadata == [allocated: BOOLEAN, reserved: BOOLEAN]

\* Both arrays keep their length: whatever RAM the firmware reports beyond the
\* tracked pages and whatever addresses callers free, nothing behind the
\* arrays is written.
TypeOK ==
    /\ MemTypeOK
    /\ phase \in {"memory", "free", "protect", "running"}
    /\ region \in Nat \ {0}
    /\ page_bitmap \in [PageIndex -> BOOLEAN]
    /\ page_metadata \in [PageIndex -> Metadata]
    /\ live \in SUBSET PageIndex

\* Both arrays are zero when the kernel starts.
Init ==
    /\ MemInit
    /\ phase = "memory"
    /\ region = 1
    /\ page_bitmap = [p \in PageIndex |-> FALSE]
    /\ page_metadata = [p \in PageIndex |-> [allocated |-> FALSE, reserved |-> FALSE]]
    /\ live = {}

-----------------------------------------------------------------------------
(***************************************************************************)
(* Marking.  Each of these loops touches a page at most once, so a set of  *)
(* pages stands for it.  A page need not be tracked: usable RAM reaches    *)
(* beyond MAX_PHYSICAL_MEMORY, and nothing but a check of the index keeps  *)
(* the kernel from writing what lies behind its arrays.  Where there is no *)
(* check, such a write is here an element more in the array.               *)
(***************************************************************************)

\* An array after some elements have been written, inside its bounds or not
\* (elements @@ array, which the provers do not know).
written(array, elements) ==
    [p \in DOMAIN array \cup DOMAIN elements |->
        IF p \in DOMAIN elements THEN elements[p] ELSE array[p]]

\* The pages a region covers, tracked or not: its ends are page aligned, and
\* no page number is larger than its address.
region_pages(r) ==
    {p \in 0 .. r.end : r.start <= p * PAGE_SIZE /\ p * PAGE_SIZE < r.end}

\* The pages that pass the check page_index >= TOTAL_PAGES.
tracked(pages) == pages \cap PageIndex

\* The tracked pages of a region.
pages_of(r) == tracked(region_pages(r))

\* Faulty variant of mark_used: the metadata is forgotten.
mark_used_bitmap_only(pages) ==
    /\ page_bitmap' = written(page_bitmap, [p \in tracked(pages) |-> TRUE])
    /\ UNCHANGED page_metadata

\* Faulty variant of mark_used: one page too many.
mark_used_one_more(pages) ==
    LET more == tracked(pages \cup {p + 1 : p \in pages})
    IN  /\ page_bitmap' = written(page_bitmap, [p \in more |-> TRUE])
        /\ page_metadata' =
              written(page_metadata,
                      [p \in more |-> [page_metadata[p] EXCEPT !.allocated = TRUE]])

mark_used(pages) ==
    /\ page_bitmap' = written(page_bitmap, [p \in tracked(pages) |-> TRUE])
    /\ page_metadata' =
          written(page_metadata,
                  [p \in tracked(pages) |-> [page_metadata[p] EXCEPT !.allocated = TRUE]])

\* mark_region_used flags a page without a check of its own.
mark_reserved(pages) ==
    /\ page_bitmap' = written(page_bitmap, [p \in tracked(pages) |-> TRUE])
    /\ page_metadata' =
          written(page_metadata,
                  [p \in pages |-> [allocated |-> TRUE, reserved |-> TRUE]])

\* Faulty variant of clearable: mark_page_free does not check the index, and
\* finds behind the arrays what lets it go on.
clearable_unchecked(pages) ==
    {p \in pages : p \in PageIndex =>
                      ~ page_metadata[p].reserved /\ page_metadata[p].allocated}

\* The pages among them that mark_page_free does clear.
clearable(pages) ==
    {p \in tracked(pages) : ~ page_metadata[p].reserved /\ page_metadata[p].allocated}

mark_free(pages) ==
    /\ page_bitmap' = written(page_bitmap, [p \in clearable(pages) |-> FALSE])
    /\ page_metadata' =
          written(page_metadata,
                  [p \in clearable(pages) |-> [allocated |-> FALSE, reserved |-> FALSE]])

-----------------------------------------------------------------------------
(***************************************************************************)
(* initialize.                                                             *)
(***************************************************************************)

\* memory::initialize runs to its end first.
MemoryStep ==
    /\ phase = "memory"
    /\ MemNext
    /\ UNCHANGED allocVars

\* mark_all_regions_used and init_metadata.
MarkAllUsed ==
    /\ phase = "memory"
    /\ step = "ready"
    /\ page_bitmap' = [p \in PageIndex |-> TRUE]
    /\ page_metadata' = [p \in PageIndex |-> [allocated |-> TRUE, reserved |-> FALSE]]
    /\ phase' = "free"
    /\ region' = 1
    /\ UNCHANGED <<memVars, live>>

mark_region_free ==
    /\ phase = "free"
    /\ region <= Len(usable_regions)
    /\ mark_free(region_pages(usable_regions[region]))
    /\ region' = region + 1
    /\ UNCHANGED <<memVars, phase, live>>

AllUsableMarked ==
    /\ phase = "free"
    /\ region > Len(usable_regions)
    /\ phase' = "protect"
    /\ region' = 1
    /\ UNCHANGED <<memVars, page_bitmap, page_metadata, live>>

\* Faulty variant of mark_region_used: the pages are used but not flagged.
mark_region_used_unflagged ==
    /\ phase = "protect"
    /\ region <= Len(reserved_regions)
    /\ mark_used(region_pages(reserved_regions[region]))
    /\ region' = region + 1
    /\ UNCHANGED <<memVars, phase, live>>

mark_region_used ==
    /\ phase = "protect"
    /\ region <= Len(reserved_regions)
    /\ mark_reserved(region_pages(reserved_regions[region]))
    /\ region' = region + 1
    /\ UNCHANGED <<memVars, phase, live>>

AllReservedMarked ==
    /\ phase = "protect"
    /\ region > Len(reserved_regions)
    /\ phase' = "running"
    /\ UNCHANGED <<memVars, region, page_bitmap, page_metadata, live>>

Boot ==
    \/ MemoryStep \/ MarkAllUsed
    \/ mark_region_free \/ AllUsableMarked
    \/ mark_region_used \/ AllReservedMarked

bootStutter == UNCHANGED <<memVars, phase, region>>

-----------------------------------------------------------------------------
(***************************************************************************)
(* Allocation.  Both searches go upwards from page 0 and return the        *)
(* address of the lowest page, or lowest run, that fits; 0 is the failure. *)
(***************************************************************************)

free_pages == {p \in PageIndex : ~ page_bitmap[p]}

\* Faulty variant of free_runs: the last page of the run is not looked at.
free_runs_one_short(page_count) ==
    {p \in free_pages : p + page_count <= TOTAL_PAGES
                        /\ p .. (p + page_count - 2) \subseteq free_pages}

\* First pages of the runs of page_count free pages.
free_runs(page_count) ==
    {p \in free_pages : p + page_count <= TOTAL_PAGES
                        /\ p .. (p + page_count - 1) \subseteq free_pages}

\* Marks page_count pages from the lowest run and returns its address; a
\* caller that is given 0 takes it for a failure.
allocate(page_count, address) ==
    IF page_count # 0 /\ free_runs(page_count) # {}
    THEN LET first == Min(free_runs(page_count))
             pages == first .. (first + page_count - 1)
         IN  /\ mark_used(pages)
             /\ address = first * PAGE_SIZE
             /\ live' = IF address = 0 THEN live ELSE live \cup pages
    ELSE /\ address = 0
         /\ UNCHANGED <<page_bitmap, page_metadata, live>>

allocate_page(address) == allocate(1, address)

allocate_contiguous_pages(page_count, address) == allocate(page_count, address)

-----------------------------------------------------------------------------
(***************************************************************************)
(* Freeing.                                                                *)
(***************************************************************************)

owns_page(address) ==
    is_page_aligned(address) /\ address < MAX_PHYSICAL_MEMORY

is_reserved_page(address) ==
    /\ owns_page(address)
    /\ \E k \in DOMAIN reserved_regions :
          reserved_regions[k].start <= address /\ address < reserved_regions[k].end

\* The pages free_page hands to mark_page_free for a set of addresses.
freed_by(addresses) ==
    {a \div PAGE_SIZE : a \in {b \in addresses : owns_page(b) /\ ~ is_reserved_page(b)}}

free(addresses) ==
    /\ mark_free(freed_by(addresses))
    /\ live' = live \ clearable(freed_by(addresses))

free_page(address) == free({address})

free_contiguous_pages(address, page_count) ==
    IF page_count # 0 /\ is_page_aligned(address)
    THEN free({add_u64(address, PAGE_SIZE * k) : k \in 0 .. (page_count - 1)})
    ELSE UNCHANGED <<page_bitmap, page_metadata, live>>

-----------------------------------------------------------------------------
\* Bound on the page counts callers ask for: one more than there are pages.
PageCounts == 0 .. (TOTAL_PAGES + 1)

Returned == {p * PAGE_SIZE : p \in PageIndex}

AllocatePage ==
    /\ phase = "running"
    /\ \E address \in Returned : allocate_page(address)
    /\ bootStutter

AllocateContiguousPages(page_count) ==
    /\ phase = "running"
    /\ \E address \in Returned : allocate_contiguous_pages(page_count, address)
    /\ bootStutter

FreePage(address) ==
    /\ phase = "running"
    /\ free_page(address)
    /\ bootStutter

FreeContiguousPages(address, page_count) ==
    /\ phase = "running"
    /\ free_contiguous_pages(address, page_count)
    /\ bootStutter

Next ==
    \/ Boot
    \/ AllocatePage
    \/ \E n \in PageCounts : AllocateContiguousPages(n)
    \/ \E a \in Address : FreePage(a)
    \/ \E a \in Address, n \in PageCounts : FreeContiguousPages(a, n)

Spec == Init /\ [][Next]_vars

-----------------------------------------------------------------------------
(***************************************************************************)
(* Properties.                                                             *)
(***************************************************************************)

\* From the moment both arrays are filled the bitmap and the metadata agree
\* on every page: what is_page_used and is_metadata_allocated answer, and
\* PAGE-INFO prints side by side, is the same.
BitmapMatchesMetadata ==
    phase # "memory" =>
        \A p \in PageIndex : page_bitmap[p] = page_metadata[p].allocated

\* The pages of the reserved regions, from the region table.
reserved_pages ==
    UNION {pages_of(reserved_regions[k]) : k \in DOMAIN reserved_regions}

\* The pages of the usable regions, from the region table.
usable_pages ==
    UNION {pages_of(usable_regions[k]) : k \in DOMAIN usable_regions}

\* Once initialised, no page of a reserved region is ever free or handed
\* out, whatever addresses callers free; the flag in the metadata and the
\* region table, the allocator's two sources for it, never disagree.
ReservedNeverFree ==
    phase = "running" =>
        /\ reserved_pages \cap (free_pages \cup live) = {}
        /\ \A p \in PageIndex : page_metadata[p].reserved <=> p \in reserved_pages

\* Every page of a usable region that is not reserved is either free or in
\* the hands of a caller: none is lost, and none is both, so a page handed
\* out cannot be handed out again before it is freed.
PagesAccountedFor ==
    phase = "running" =>
        /\ usable_pages \ reserved_pages \subseteq free_pages \cup live
        /\ live \cap free_pages = {}

\* With a map from the firmware, page 0 is reserved and so never allocated:
\* the address 0 that allocate_page returns is always a failure.
PageZeroNeverAllocated ==
    (phase = "running" /\ memory_map # NoMap) => 0 \notin free_pages \cup live

=============================================================================
