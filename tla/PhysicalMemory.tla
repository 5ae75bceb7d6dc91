--------------------------- MODULE PhysicalMemory ---------------------------
(***************************************************************************)
(* The firmware memory map turned into the kernel's two region tables      *)
(* (kernel/memory/physical_memory.cpp, initialize and reserve_region).     *)
(*                                                                         *)
(* initialize runs once, at boot, with interrupts off.  It is modelled as  *)
(* the loop it is: one action per entry of the map, then one per call of   *)
(* reserve_region.  A region is its [start, end) pair; the stored length   *)
(* is always end - start and the name of a reservation is only printed.    *)
(***************************************************************************)
EXTENDS Pages, Sequences, Functions

CONSTANTS
    MIN_ALLOCATABLE_ADDRESS,  \* nothing below it is handed out (1 MiB)
    MAX_USABLE_REGIONS,       \* capacity of usable_regions (32)
    MAX_RESERVED_REGIONS,     \* capacity of reserved_regions (32)
    Reservations,             \* the reserve_region calls, as <<start, end>>
    USABLE,                   \* the E820 type of free RAM
    OtherTypes,               \* every other E820 type
    MAX_RAM,                  \* no entry of the map reaches beyond it
    MemoryMaps,               \* the memory maps the firmware may report
    NoMap                     \* a null boot_info or a null map pointer

Entry == [base_addr: Address, length: Address, type: {USABLE} \cup OtherTypes]
Region == [start: Address, end: Address]

(***************************************************************************)
(* A physical address has at most 52 bits, so neither base_addr + length   *)
(* nor rounding up to a page can wrap a u64: MAX_RAM plays that part here. *)
(* The table has room for every reserve_region call, and one of them is    *)
(* the memory below MIN_ALLOCATABLE_ADDRESS.                               *)
(***************************************************************************)
ASSUME PhysicalMemoryAssumption ==
    /\ MIN_ALLOCATABLE_ADDRESS \in Address \ {0}
    /\ MAX_USABLE_REGIONS \in Nat
    /\ MAX_RESERVED_REGIONS \in Nat
    /\ MAX_RAM \in Nat
    /\ MIN_ALLOCATABLE_ADDRESS <= MAX_RAM
    /\ MAX_RAM + PAGE_SIZE <= U64
    /\ USABLE \notin OtherTypes
    /\ NoMap \notin Seq(Entry)
    /\ MemoryMaps \subseteq Seq(Entry) \cup {NoMap}
    /\ \A m \in MemoryMaps \ {NoMap} : \A k \in DOMAIN m :
          m[k].base_addr + m[k].length <= MAX_RAM
    /\ Reservations \in Seq(Address \X Address)
    /\ \A k \in DOMAIN Reservations : Reservations[k][2] <= MAX_RAM
    /\ Len(Reservations) <= MAX_RESERVED_REGIONS
    /\ <<0, MIN_ALLOCATABLE_ADDRESS>> \in Range(Reservations)

VARIABLES
    memory_map,        \* what boot_info points at; never written
    step,              \* "scan", "reserve" or "ready"
    i,                 \* loop index of the scan, then of the reservations
    usable_regions,    \* the table and its count
    reserved_regions   \* the table and its count

memVars == <<memory_map, step, i, usable_regions, reserved_regions>>

MemTypeOK ==
    /\ memory_map \in MemoryMaps
    /\ step \in {"scan", "reserve", "ready"}
    /\ i \in Nat \ {0}
    /\ usable_regions \in Seq(Region)
    /\ Len(usable_regions) <= MAX_USABLE_REGIONS
    /\ reserved_regions \in Seq(Region)
    /\ Len(reserved_regions) <= MAX_RESERVED_REGIONS

MemInit ==
    /\ memory_map \in MemoryMaps
    /\ step = "scan"
    /\ i = 1
    /\ usable_regions = <<>>
    /\ reserved_regions = <<>>

-----------------------------------------------------------------------------
(***************************************************************************)
(* One round of the loop over the map.                                     *)
(***************************************************************************)

region_end(entry) == add_u64(entry.base_addr, entry.length)

\* Faulty variant of skipped: the type of the entry is not looked at.
skipped_any_type(entry) ==
    entry.length = 0 \/ region_end(entry) <= MIN_ALLOCATABLE_ADDRESS

\* The three reasons to skip an entry before the table is looked at.
skipped(entry) ==
    \/ entry.type # USABLE
    \/ entry.length = 0
    \/ region_end(entry) <= MIN_ALLOCATABLE_ADDRESS

clipped_start(entry) ==
    IF entry.base_addr < MIN_ALLOCATABLE_ADDRESS THEN MIN_ALLOCATABLE_ADDRESS
                                                 ELSE entry.base_addr

\* Faulty variant of usable_region: both ends rounded down.
usable_region_rounded_down(entry) ==
    [start |-> align_page_down(clipped_start(entry)),
     end   |-> align_page_down(region_end(entry))]

\* The whole pages of an entry: its start rounded up, its end rounded down.
usable_region(entry) ==
    [start |-> align_page_up(clipped_start(entry)),
     end   |-> align_page_down(region_end(entry))]

\* Faulty variant of usable_table_full: off by one.
usable_table_full_late == Len(usable_regions) > MAX_USABLE_REGIONS

usable_table_full == Len(usable_regions) >= MAX_USABLE_REGIONS

\* boot_info or its map pointer is null: return with both tables empty.
NoBootInfo ==
    /\ step = "scan"
    /\ memory_map = NoMap
    /\ step' = "ready"
    /\ UNCHANGED <<memory_map, i, usable_regions, reserved_regions>>

Scanning == step = "scan" /\ memory_map # NoMap /\ i <= Len(memory_map)

SkipEntry ==
    /\ Scanning
    /\ \/ skipped(memory_map[i])
       \/ /\ ~ usable_table_full
          /\ usable_region(memory_map[i]).start >= usable_region(memory_map[i]).end
    /\ i' = i + 1
    /\ UNCHANGED <<memory_map, step, usable_regions, reserved_regions>>

AddRegion ==
    /\ Scanning
    /\ ~ skipped(memory_map[i])
    /\ ~ usable_table_full
    /\ usable_region(memory_map[i]).start < usable_region(memory_map[i]).end
    /\ usable_regions' = Append(usable_regions, usable_region(memory_map[i]))
    /\ i' = i + 1
    /\ UNCHANGED <<memory_map, step, reserved_regions>>

\* The loop ends at the end of the map, or breaks on a full table.
EndScan ==
    /\ step = "scan" /\ memory_map # NoMap
    /\ \/ i > Len(memory_map)
       \/ /\ i <= Len(memory_map)
          /\ ~ skipped(memory_map[i])
          /\ usable_table_full
    /\ step' = "reserve"
    /\ i' = 1
    /\ UNCHANGED <<memory_map, usable_regions, reserved_regions>>

-----------------------------------------------------------------------------
(***************************************************************************)
(* The reserve_region calls that follow the loop.                          *)
(***************************************************************************)

\* Faulty variant of reserved_region: both ends rounded down.
reserved_region_rounded_down(reservation) ==
    [start |-> align_page_down(reservation[1]),
     end   |-> align_page_down(reservation[2])]

reserved_region(reservation) ==
    [start |-> align_page_down(reservation[1]),
     end   |-> align_page_up(reservation[2])]

\* Faulty variant of reserved_table_full: off by one.
reserved_table_full_early == Len(reserved_regions) >= MAX_RESERVED_REGIONS - 1

reserved_table_full == Len(reserved_regions) >= MAX_RESERVED_REGIONS

reserve_region ==
    /\ step = "reserve"
    /\ i <= Len(Reservations)
    /\ LET r == reserved_region(Reservations[i])
       IN  reserved_regions' =
             IF r.start < r.end /\ ~ reserved_table_full
             THEN Append(reserved_regions, r)
             ELSE reserved_regions
    /\ i' = i + 1
    /\ UNCHANGED <<memory_map, step, usable_regions>>

EndInitialize ==
    /\ step = "reserve"
    /\ i > Len(Reservations)
    /\ step' = "ready"
    /\ UNCHANGED <<memory_map, i, usable_regions, reserved_regions>>

MemNext ==
    \/ NoBootInfo \/ SkipEntry \/ AddRegion \/ EndScan
    \/ reserve_region \/ EndInitialize

MemSpec == MemInit /\ [][MemNext]_memVars

-----------------------------------------------------------------------------
(***************************************************************************)
(* Properties.                                                             *)
(***************************************************************************)

Within(a, b) == b.start <= a.start /\ a.end <= b.end
Disjoint(a, b) == a.end <= b.start \/ b.end <= a.start

\* The bytes an entry of the map describes, as a region.
extent(entry) ==
    [start |-> entry.base_addr, end |-> entry.base_addr + entry.length]

\* The firmware reports no byte twice.
NonOverlapping(map) ==
    \A j, k \in DOMAIN map : j # k => Disjoint(extent(map[j]), extent(map[k]))

(***************************************************************************)
(* Every region of usable_regions is made of whole pages, none of them     *)
(* below MIN_ALLOCATABLE_ADDRESS, inside one entry that the firmware says  *)
(* is free RAM: rounding, clipping and the order of the checks never let a *)
(* byte of anything else in.                                               *)
(***************************************************************************)
UsableRegionOK(r) ==
    /\ is_page_aligned(r.start) /\ is_page_aligned(r.end)
    /\ r.start < r.end
    /\ MIN_ALLOCATABLE_ADDRESS <= r.start
    /\ \E k \in DOMAIN memory_map :
          memory_map[k].type = USABLE /\ Within(r, extent(memory_map[k]))

UsableIsRam == \A k \in DOMAIN usable_regions : UsableRegionOK(usable_regions[k])

(***************************************************************************)
(* With a map that reports no byte twice, no page is in two usable regions *)
(* and none touches an entry of another type, whatever the order of the    *)
(* entries.                                                                *)
(***************************************************************************)
UsableRegionsExclusive ==
    (memory_map # NoMap /\ NonOverlapping(memory_map)) =>
      /\ \A j, k \in DOMAIN usable_regions :
            j # k => Disjoint(usable_regions[j], usable_regions[k])
      /\ \A j \in DOMAIN usable_regions, k \in DOMAIN memory_map :
            memory_map[k].type # USABLE =>
               Disjoint(usable_regions[j], extent(memory_map[k]))

(***************************************************************************)
(* No RAM is lost: once the scan is over and unless the table is full,     *)
(* every whole page of a usable entry above MIN_ALLOCATABLE_ADDRESS lies   *)
(* in one of the regions kept.                                             *)
(***************************************************************************)
Page(address) == [start |-> address, end |-> address + PAGE_SIZE]

NoPageLost ==
    (/\ step # "scan" /\ memory_map # NoMap
     /\ Len(usable_regions) < MAX_USABLE_REGIONS) =>
      \A k \in DOMAIN memory_map : \A a \in Address :
         (/\ memory_map[k].type = USABLE
          /\ is_page_aligned(a) /\ MIN_ALLOCATABLE_ADDRESS <= a
          /\ Within(Page(a), extent(memory_map[k]))) =>
            \E j \in DOMAIN usable_regions : Within(Page(a), usable_regions[j])

(***************************************************************************)
(* When initialize returns after reading a map, every byte of every        *)
(* reservation is inside one reserved region, although reserve_region may  *)
(* drop a call without telling its caller.                                 *)
(***************************************************************************)
EveryReservationKept ==
    (step = "ready" /\ memory_map # NoMap) =>
      \A k \in DOMAIN Reservations :
         Reservations[k][1] < Reservations[k][2] =>
            \E j \in DOMAIN reserved_regions :
               Within([start |-> Reservations[k][1], end |-> Reservations[k][2]],
                      reserved_regions[j])

=============================================================================
