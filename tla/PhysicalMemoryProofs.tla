------------------------ MODULE PhysicalMemoryProofs ------------------------
(***************************************************************************)
(* Proofs about PhysicalMemory, for every page size, memory map and table  *)
(* size that meet its assumptions.                                         *)
(***************************************************************************)
EXTENDS PhysicalMemory, TLAPS

-----------------------------------------------------------------------------
(***************************************************************************)
(* Page arithmetic.                                                        *)
(***************************************************************************)

\* Division with remainder by the page size (page.cpp takes remainders only).
LEMMA PageDivision ==
    ASSUME NEW a \in Nat
    PROVE  /\ a \div PAGE_SIZE \in Nat
           /\ a % PAGE_SIZE \in 0 .. (PAGE_SIZE - 1)
           /\ a = PAGE_SIZE * (a \div PAGE_SIZE) + (a % PAGE_SIZE)
  BY PagesAssumption

\* A multiple of the page size is page aligned.
LEMMA MultiplesAreAligned ==
    ASSUME NEW q \in Nat
    PROVE  is_page_aligned(PAGE_SIZE * q)
  BY PagesAssumption DEF is_page_aligned

\* align_page_down gives the page boundary at or just below an address.
LEMMA AlignDown ==
    ASSUME NEW a \in Nat
    PROVE  /\ align_page_down(a) \in Nat
           /\ align_page_down(a) <= a
           /\ a < align_page_down(a) + PAGE_SIZE
           /\ is_page_aligned(align_page_down(a))
  <1>1. align_page_down(a) = PAGE_SIZE * (a \div PAGE_SIZE)
    BY PageDivision, PagesAssumption DEF align_page_down
  <1>2. is_page_aligned(align_page_down(a))
    BY <1>1, PageDivision, MultiplesAreAligned
  <1> QED
    BY <1>2, PageDivision, PagesAssumption DEF align_page_down

\* align_page_up gives the page boundary at or just above an address, unless
\* rounding up wraps.
LEMMA AlignUp ==
    ASSUME NEW a \in Nat, a + PAGE_SIZE <= U64
    PROVE  /\ align_page_up(a) \in Nat
           /\ a <= align_page_up(a)
           /\ align_page_up(a) < a + PAGE_SIZE
           /\ is_page_aligned(align_page_up(a))
  <1>1. CASE a % PAGE_SIZE = 0
    BY <1>1, PagesAssumption DEF align_page_up, is_page_aligned
  <1>2. CASE a % PAGE_SIZE # 0
    <2>1. align_page_up(a) = a + (PAGE_SIZE - (a % PAGE_SIZE))
      BY <1>2, PageDivision, PagesAssumption DEF align_page_up, add_u64
    <2>2. align_page_up(a) = PAGE_SIZE * (a \div PAGE_SIZE) + PAGE_SIZE
      BY <2>1, PageDivision, PagesAssumption
    <2>3. align_page_up(a) = PAGE_SIZE * (a \div PAGE_SIZE + 1)
      BY <2>2, PageDivision, PagesAssumption
    <2>4. is_page_aligned(align_page_up(a))
      BY <2>3, PageDivision, MultiplesAreAligned
    <2> QED
      BY <1>2, <2>1, <2>4, PageDivision, PagesAssumption
  <1> QED
    BY <1>1, <1>2

\* Two page boundaries less than a page apart are in order.
LEMMA BoundariesApart ==
    ASSUME NEW a \in Nat, NEW b \in Nat,
           is_page_aligned(a), is_page_aligned(b), a < b + PAGE_SIZE
    PROVE  a <= b
  <1> DEFINE p == a \div PAGE_SIZE
             q == b \div PAGE_SIZE
  <1>1. a = PAGE_SIZE * p /\ b = PAGE_SIZE * q /\ p \in Nat /\ q \in Nat
    BY PageDivision, PagesAssumption DEF is_page_aligned
  <1> HIDE DEF p, q
  <1>2. PAGE_SIZE * p < PAGE_SIZE * (q + 1)
    BY <1>1, PagesAssumption
  <1>3. p < q + 1
    BY <1>1, <1>2, PagesAssumption
  <1> QED
    BY <1>1, <1>3, PagesAssumption
-----------------------------------------------------------------------------
(***************************************************************************)
(* One entry of the map, one reservation.                                  *)
(***************************************************************************)

\* The bounds that keep address arithmetic from wrapping.
LEMMA RamFits ==
    /\ U64 \in Nat /\ MAX_RAM \in Nat /\ PAGE_SIZE \in Nat \ {0}
    /\ MAX_RAM + PAGE_SIZE <= U64
  BY PhysicalMemoryAssumption, PagesAssumption

\* The entries of a map are typed and end below MAX_RAM, so the sum
\* base_addr + length does not wrap.
LEMMA EntryFacts ==
    ASSUME NEW m \in MemoryMaps, m # NoMap, NEW k \in DOMAIN m
    PROVE  /\ m \in Seq(Entry)
           /\ m[k] \in Entry
           /\ m[k].base_addr \in Nat
           /\ m[k].length \in Nat
           /\ m[k].base_addr + m[k].length <= MAX_RAM
           /\ region_end(m[k]) = m[k].base_addr + m[k].length
  <1>1. m \in Seq(Entry) /\ m[k] \in Entry
    BY PhysicalMemoryAssumption
  <1>2. m[k].base_addr \in Nat /\ m[k].length \in Nat
    BY <1>1, PagesAssumption DEF Entry, Address
  <1>3. m[k].base_addr + m[k].length <= MAX_RAM
    BY PhysicalMemoryAssumption
  <1> QED
    BY <1>1, <1>2, <1>3, PhysicalMemoryAssumption, PagesAssumption
    DEF region_end, add_u64

\* What AddRegion appends lies inside its entry and is made of whole pages
\* above MIN_ALLOCATABLE_ADDRESS.
LEMMA UsableRegionFacts ==
    ASSUME NEW e \in Entry,
           e.base_addr \in Nat, e.length \in Nat,
           e.base_addr + e.length <= MAX_RAM,
           region_end(e) = e.base_addr + e.length,
           ~ skipped(e),
           usable_region(e).start < usable_region(e).end
    PROVE  /\ usable_region(e) \in Region
           /\ e.type = USABLE
           /\ Within(usable_region(e), extent(e))
           /\ MIN_ALLOCATABLE_ADDRESS <= usable_region(e).start
           /\ is_page_aligned(usable_region(e).start)
           /\ is_page_aligned(usable_region(e).end)
  <1> DEFINE start == clipped_start(e)
             end == e.base_addr + e.length
  <1>1. /\ e.type = USABLE
        /\ MIN_ALLOCATABLE_ADDRESS < end
        /\ MIN_ALLOCATABLE_ADDRESS \in Nat
    BY PhysicalMemoryAssumption, PagesAssumption DEF skipped, Address
  <1>2. /\ start \in Nat /\ e.base_addr <= start
        /\ MIN_ALLOCATABLE_ADDRESS <= start /\ start <= MAX_RAM
    BY <1>1, PhysicalMemoryAssumption DEF clipped_start
  <1>3. end \in Nat /\ end <= MAX_RAM
    OBVIOUS
  <1> DEFINE r == usable_region(e)
  <1>5. /\ r = [start |-> r.start, end |-> r.end]
        /\ r.start = align_page_up(start) /\ r.end = align_page_down(end)
    BY DEF usable_region
  <1> HIDE DEF start, end, r
  <1>6. start + PAGE_SIZE <= U64
    BY <1>2, RamFits
  <1>7. /\ r.start \in Nat /\ start <= r.start /\ is_page_aligned(r.start)
        /\ r.end \in Nat /\ r.end <= end /\ is_page_aligned(r.end)
    BY <1>2, <1>3, <1>5, <1>6, AlignUp, AlignDown
  <1>8. r.start \in Address /\ r.end \in Address
    <2>1. r.start < r.end
      BY DEF r
    <2> QED
      BY <1>3, <1>7, <2>1, RamFits DEF Address
  <1>9. r \in Region
    BY <1>5, <1>8 DEF Region
  <1>10. Within(r, extent(e))
    BY <1>2, <1>3, <1>7 DEF Within, extent, end
  <1> QED
    BY <1>1, <1>2, <1>7, <1>9, <1>10 DEF r

\* The ends of a region are numbers.
LEMMA RegionBounds ==
    ASSUME NEW r \in Region
    PROVE  r.start \in Nat /\ r.end \in Nat
  BY PagesAssumption DEF Region, Address

\* A region made of pages of an entry is disjoint from whatever the entry is
\* disjoint from.
LEMMA WithinDisjoint ==
    ASSUME NEW a, NEW b, NEW c,
           a.start \in Nat, a.end \in Nat, b.start \in Nat, b.end \in Nat,
           c.start \in Nat, c.end \in Nat,
           Within(a, b), Disjoint(b, c)
    PROVE  Disjoint(a, c) /\ Disjoint(c, a)
  BY DEF Within, Disjoint

\* What reserve_region records for a call that is not empty covers it.
LEMMA ReservedRegionFacts ==
    ASSUME NEW k \in DOMAIN Reservations
    PROVE  /\ Reservations[k][1] \in Nat /\ Reservations[k][2] \in Nat
           /\ reserved_region(Reservations[k]) \in [start: Nat, end: Nat]
           /\ reserved_region(Reservations[k]).start <= Reservations[k][1]
           /\ Reservations[k][2] <= reserved_region(Reservations[k]).end
           /\ reserved_region(Reservations[k]).start
                 < reserved_region(Reservations[k]).end
              => reserved_region(Reservations[k]) \in Region
  <1> DEFINE start == Reservations[k][1]
             end == Reservations[k][2]
             r == reserved_region(Reservations[k])
  <1>1. start \in Nat /\ end \in Nat /\ end <= MAX_RAM
    <2>1. Reservations[k] \in Address \X Address
      BY PhysicalMemoryAssumption
    <2> QED
      BY <2>1, PhysicalMemoryAssumption, PagesAssumption DEF Address
  <1>2. /\ r = [start |-> r.start, end |-> r.end]
        /\ r.start = align_page_down(start) /\ r.end = align_page_up(end)
    BY DEF reserved_region
  <1> HIDE DEF start, end, r
  <1>3. /\ r.start \in Nat /\ r.start <= start
        /\ r.end \in Nat /\ end <= r.end /\ r.end < end + PAGE_SIZE
    BY <1>1, <1>2, RamFits, AlignUp, AlignDown
  <1>4. r.start < r.end => r \in Region
    BY <1>1, <1>2, <1>3, RamFits DEF Region, Address
  <1> QED
    BY <1>1, <1>2, <1>3, <1>4 DEF start, end, r

\* Rounding loses no page: a page inside an entry that AddRegion does not
\* skip is inside the region it makes.
LEMMA PageInUsableRegion ==
    ASSUME NEW e \in Entry, NEW a \in Nat,
           e.base_addr \in Nat, e.length \in Nat,
           e.base_addr + e.length <= MAX_RAM,
           region_end(e) = e.base_addr + e.length,
           is_page_aligned(a), MIN_ALLOCATABLE_ADDRESS <= a,
           Within(Page(a), extent(e))
    PROVE  Within(Page(a), usable_region(e))
  <1> DEFINE start == clipped_start(e)
             end == e.base_addr + e.length
  <1>1. /\ start \in Nat /\ start <= a /\ start <= MAX_RAM
        /\ end \in Nat /\ end <= MAX_RAM /\ a + PAGE_SIZE <= end
    <2>1. MIN_ALLOCATABLE_ADDRESS \in Nat /\ MIN_ALLOCATABLE_ADDRESS <= MAX_RAM
      BY PhysicalMemoryAssumption, PagesAssumption DEF Address
    <2>2. e.base_addr <= a /\ a + PAGE_SIZE <= end
      BY DEF Within, Page, extent
    <2> QED
      BY <2>1, <2>2, RamFits DEF clipped_start
  <1> HIDE DEF start, end
  <1> DEFINE up == align_page_up(start)
             down == align_page_down(end)
  <1>2. /\ up \in Nat /\ up < start + PAGE_SIZE /\ is_page_aligned(up)
        /\ down \in Nat /\ end < down + PAGE_SIZE /\ is_page_aligned(down)
    <2>1. start + PAGE_SIZE <= U64
      BY <1>1, RamFits
    <2> QED
      BY <1>1, <2>1, AlignUp, AlignDown
  <1>3. usable_region(e) = [start |-> up, end |-> down]
    BY DEF usable_region, start, end
  <1> HIDE DEF up, down
  <1>4. up <= a
    <2>1. up < a + PAGE_SIZE
      BY <1>1, <1>2, RamFits
    <2> QED
      BY <1>2, <2>1, BoundariesApart
  <1>5. a + PAGE_SIZE <= down
    <2>1. is_page_aligned(a + PAGE_SIZE)
      <3>1. a = PAGE_SIZE * (a \div PAGE_SIZE) /\ a \div PAGE_SIZE \in Nat
        BY PageDivision, RamFits DEF is_page_aligned
      <3>2. a + PAGE_SIZE = PAGE_SIZE * (a \div PAGE_SIZE + 1)
        BY <3>1, RamFits
      <3> QED
        BY <3>1, <3>2, MultiplesAreAligned
    <2>2. a + PAGE_SIZE < down + PAGE_SIZE /\ a + PAGE_SIZE \in Nat
      BY <1>1, <1>2, RamFits
    <2> QED
      BY <1>2, <2>1, <2>2, BoundariesApart
  <1> QED
    BY <1>3, <1>4, <1>5 DEF Within, Page

-----------------------------------------------------------------------------
(***************************************************************************)
(* The inductive invariant.                                                *)
(*                                                                         *)
(* That regions are disjoint is not inductive by itself: while the scan is *)
(* on, the regions kept must also be disjoint from the entries to come.    *)
(* That no page is lost is, during the scan, a statement about the entries *)
(* already seen.  That no reservation is dropped needs the table not to    *)
(* run ahead of the calls.                                                 *)
(***************************************************************************)
AheadDisjoint ==
    (step = "scan" /\ memory_map # NoMap /\ NonOverlapping(memory_map)) =>
      \A j \in DOMAIN usable_regions, k \in DOMAIN memory_map :
         k >= i => Disjoint(usable_regions[j], extent(memory_map[k]))

Covered(k) ==
    \A a \in Address :
       (/\ memory_map[k].type = USABLE
        /\ is_page_aligned(a) /\ MIN_ALLOCATABLE_ADDRESS <= a
        /\ Within(Page(a), extent(memory_map[k]))) =>
          \E j \in DOMAIN usable_regions : Within(Page(a), usable_regions[j])

SeenCovered ==
    (step = "scan" /\ memory_map # NoMap) =>
      \A k \in DOMAIN memory_map : k < i => Covered(k)

Kept(k) ==
    Reservations[k][1] < Reservations[k][2] =>
       \E j \in DOMAIN reserved_regions :
          Within([start |-> Reservations[k][1], end |-> Reservations[k][2]],
                 reserved_regions[j])

ReservedSoFar ==
    /\ step = "scan" => reserved_regions = <<>>
    /\ step = "reserve" => /\ memory_map # NoMap
                           /\ Len(reserved_regions) < i
                           /\ \A k \in DOMAIN Reservations : k < i => Kept(k)

\* Nothing but the whole pages around a reservation is ever reserved.
ReservedRounded ==
    \A j \in DOMAIN reserved_regions : \E k \in DOMAIN Reservations :
        reserved_regions[j] = reserved_region(Reservations[k])

MemInv ==
    /\ MemTypeOK
    /\ UsableIsRam
    /\ UsableRegionsExclusive
    /\ AheadDisjoint
    /\ SeenCovered
    /\ NoPageLost
    /\ ReservedSoFar
    /\ ReservedRounded
    /\ EveryReservationKept

\* Rounding up takes no reservation beyond a page boundary: when all of them
\* end within the first limit pages, so do the reserved regions.
LEMMA ReservedWithin ==
    ASSUME MemInv, NEW limit \in Nat, NEW j \in DOMAIN reserved_regions,
           \A k \in DOMAIN Reservations : Reservations[k][2] <= limit * PAGE_SIZE
    PROVE  \A p \in Nat : p * PAGE_SIZE < reserved_regions[j].end => p < limit
  <1>1. PICK k \in DOMAIN Reservations :
           reserved_regions[j] = reserved_region(Reservations[k])
    BY DEF MemInv, ReservedRounded
  <1> DEFINE a == Reservations[k][2]
             end == reserved_regions[j].end
             top == PAGE_SIZE * limit
  <1>2. a \in Nat /\ a + PAGE_SIZE <= U64 /\ end = align_page_up(a)
    <2>1. a \in Nat /\ a <= MAX_RAM
      BY ReservedRegionFacts, PhysicalMemoryAssumption
    <2> QED
      BY <1>1, <2>1, RamFits DEF reserved_region
  <1>3. PAGE_SIZE \in Nat \ {0} /\ top \in Nat /\ is_page_aligned(top)
    BY PagesAssumption, MultiplesAreAligned
  <1>4. a <= top
    BY <1>3
  <1> HIDE DEF a, end, top
  <1>5. end \in Nat /\ end < a + PAGE_SIZE /\ is_page_aligned(end)
    BY <1>2, AlignUp
  <1>6. end < top + PAGE_SIZE
    BY <1>2, <1>3, <1>4, <1>5
  <1>7. end <= top
    BY <1>3, <1>5, <1>6, BoundariesApart
  <1>8. ASSUME NEW p \in Nat, p * PAGE_SIZE < end
        PROVE  p < limit
    <2>1. PAGE_SIZE * p < PAGE_SIZE * limit
      BY <1>3, <1>5, <1>7, <1>8 DEF top
    <2> QED
      BY <1>3, <2>1
  <1> QED
    BY <1>8 DEF end

\* The initial states: both tables are empty.
LEMMA MemInvInit == MemInit => MemInv
  <1> SUFFICES ASSUME MemInit PROVE MemInv
    OBVIOUS
  <1>1. MemTypeOK
    BY PhysicalMemoryAssumption DEF MemInit, MemTypeOK
  <1>2. SeenCovered
    BY PhysicalMemoryAssumption DEF MemInit, SeenCovered
  <1> QED
    BY <1>1, <1>2 DEF MemInit, MemInv, UsableIsRam, UsableRegionsExclusive,
                AheadDisjoint, NoPageLost, ReservedSoFar, ReservedRounded,
                EveryReservationKept

\* A step that leaves the usable regions and the map alone keeps what is
\* said about them, if it does not go back to scanning.
LEMMA UsableUntouched ==
    ASSUME MemInv, UNCHANGED <<memory_map, usable_regions>>,
           step' # "scan" \/ (step = "scan" /\ i' \in Nat /\ i' >= i)
    PROVE  UsableIsRam' /\ UsableRegionsExclusive' /\ AheadDisjoint'
  <1>1. UsableIsRam'
    BY DEF MemInv, UsableIsRam, UsableRegionOK
  <1>2. UsableRegionsExclusive'
    BY DEF MemInv, UsableRegionsExclusive
  <1>3. AheadDisjoint'
    <2> SUFFICES ASSUME step' = "scan", memory_map # NoMap,
                        NonOverlapping(memory_map),
                        NEW j \in DOMAIN usable_regions,
                        NEW k \in DOMAIN memory_map, k >= i'
                 PROVE  Disjoint(usable_regions[j], extent(memory_map[k]))
      BY DEF AheadDisjoint
    <2>1. k \in Nat /\ i \in Nat
      BY EntryFacts, PhysicalMemoryAssumption DEF MemInv, MemTypeOK
    <2>2. k >= i
      BY <2>1
    <2> QED
      BY <2>2 DEF MemInv, AheadDisjoint
  <1> QED
    BY <1>1, <1>2, <1>3

\* A step that neither scans nor touches the usable regions loses no page.
LEMMA CoverUntouched ==
    ASSUME MemInv, UNCHANGED <<memory_map, usable_regions>>,
           step' # "scan", step # "scan" \/ memory_map = NoMap
    PROVE  SeenCovered' /\ NoPageLost'
  BY DEF MemInv, SeenCovered, NoPageLost

\* A scanning step loses no page if none of the entry it is at is lost.
LEMMA ScanCovers ==
    ASSUME MemInv, NEW m \in Nat, m = i, step = "scan", i' = m + 1,
           UNCHANGED <<memory_map, step>>, memory_map # NoMap,
           \A j \in DOMAIN usable_regions :
              j \in DOMAIN usable_regions' /\ usable_regions'[j] = usable_regions[j],
           Covered(m)'
    PROVE  SeenCovered' /\ NoPageLost'
  <1>1. SeenCovered'
    <2> SUFFICES ASSUME NEW k \in DOMAIN memory_map, k < m + 1
                 PROVE  Covered(k)'
      BY DEF SeenCovered
    <2>1. k \in Nat
      BY EntryFacts, PhysicalMemoryAssumption DEF MemInv, MemTypeOK
    <2>2. CASE k = m
      BY <2>2
    <2>3. CASE k < m
      BY <2>3 DEF MemInv, SeenCovered, Covered
    <2> QED
      BY <2>1, <2>2, <2>3
  <1>2. NoPageLost'
    BY DEF NoPageLost
  <1> QED
    BY <1>1, <1>2

\* A step that leaves the reservations alone.
LEMMA ReservedUntouched ==
    ASSUME MemInv, UNCHANGED <<memory_map, reserved_regions, step>>, step = "scan"
    PROVE  ReservedSoFar' /\ ReservedRounded' /\ EveryReservationKept'
  BY DEF MemInv, ReservedSoFar, ReservedRounded, EveryReservationKept

\* AddRegion: the new region is inside its entry, which no earlier region
\* and no other entry touches.
LEMMA AddRegionKeeps ==
    ASSUME MemInv, AddRegion
    PROVE  MemInv'
  <1> DEFINE e == memory_map[i]
             n == Len(usable_regions)
  <1> PICK r : r = usable_region(e)
    OBVIOUS
  <1>1. /\ memory_map \in MemoryMaps /\ memory_map # NoMap
        /\ i \in DOMAIN memory_map /\ i \in Nat
        /\ step = "scan" /\ step' = "scan"
        /\ usable_regions \in Seq(Region) /\ n \in Nat
    <2>1. memory_map \in Seq(Entry)
      BY PhysicalMemoryAssumption DEF AddRegion, Scanning, MemInv, MemTypeOK
    <2> QED
      BY <2>1 DEF AddRegion, Scanning, MemInv, MemTypeOK
  <1>2. /\ e \in Entry /\ e.base_addr \in Nat /\ e.length \in Nat
        /\ e.base_addr + e.length <= MAX_RAM
        /\ region_end(e) = e.base_addr + e.length
    BY <1>1, EntryFacts
  <1>3. ~ skipped(e) /\ r.start < r.end
    BY DEF AddRegion
  <1>4. /\ r \in Region /\ e.type = USABLE /\ Within(r, extent(e))
        /\ MIN_ALLOCATABLE_ADDRESS <= r.start
        /\ is_page_aligned(r.start) /\ is_page_aligned(r.end)
    BY <1>2, <1>3, UsableRegionFacts
  <1>5. /\ usable_regions' = Append(usable_regions, r) /\ n < MAX_USABLE_REGIONS
        /\ i' = i + 1
        /\ UNCHANGED <<memory_map, step, reserved_regions>>
    BY <1>1, PhysicalMemoryAssumption DEF AddRegion, usable_table_full
  <1>6. /\ usable_regions' \in Seq(Region) /\ Len(usable_regions') = n + 1
        /\ DOMAIN usable_regions' = 1 .. (n + 1)
        /\ DOMAIN usable_regions = 1 .. n
        /\ usable_regions'[n + 1] = r
        /\ \A j \in 1 .. n : usable_regions'[j] = usable_regions[j]
    BY <1>1, <1>4, <1>5
  <1>7. MemTypeOK'
    BY <1>1, <1>5, <1>6, PhysicalMemoryAssumption DEF MemInv, MemTypeOK
  <1>8. UsableIsRam'
    <2>1. UsableRegionOK(r)'
      BY <1>1, <1>3, <1>4, <1>5 DEF UsableRegionOK
    <2>2. ASSUME NEW j \in 1 .. n PROVE UsableRegionOK(usable_regions[j])'
      BY <1>5, <1>6 DEF MemInv, UsableIsRam, UsableRegionOK
    <2> SUFFICES ASSUME NEW j \in 1 .. (n + 1)
                 PROVE  UsableRegionOK(usable_regions[j])'
      BY <1>6 DEF UsableIsRam
    <2>3. CASE j = n + 1
      BY <2>1, <2>3, <1>5, <1>6 DEF UsableRegionOK
    <2>4. CASE j # n + 1
      BY <2>2, <2>4, <1>1
    <2> QED
      BY <2>3, <2>4
  <1>9. ASSUME NonOverlapping(memory_map), NEW k \in DOMAIN memory_map, k # i
        PROVE  Disjoint(r, extent(memory_map[k])) /\ Disjoint(extent(memory_map[k]), r)
    <2>1. /\ extent(e).start \in Nat /\ extent(e).end \in Nat
          /\ extent(memory_map[k]).start \in Nat /\ extent(memory_map[k]).end \in Nat
          /\ r.start \in Nat /\ r.end \in Nat
      BY <1>1, <1>2, <1>4, EntryFacts, RegionBounds DEF extent
    <2>2. Disjoint(extent(e), extent(memory_map[k]))
      BY <1>1, <1>9 DEF NonOverlapping
    <2> QED
      BY <1>4, <2>1, <2>2, WithinDisjoint
  <1>10. ASSUME NonOverlapping(memory_map), NEW j \in 1 .. n
         PROVE  Disjoint(r, usable_regions[j]) /\ Disjoint(usable_regions[j], r)
    <2>1. Disjoint(usable_regions[j], extent(e))
      BY <1>1, <1>6, <1>10 DEF MemInv, AheadDisjoint
    <2>2. Disjoint(extent(e), usable_regions[j])
      BY <2>1 DEF Disjoint
    <2>3. /\ extent(e).start \in Nat /\ extent(e).end \in Nat
          /\ usable_regions[j].start \in Nat /\ usable_regions[j].end \in Nat
          /\ r.start \in Nat /\ r.end \in Nat
      BY <1>1, <1>2, <1>4, <1>6, RegionBounds DEF extent
    <2> QED
      BY <1>4, <2>2, <2>3, WithinDisjoint
  <1>11. UsableRegionsExclusive'
    <2> SUFFICES ASSUME NonOverlapping(memory_map)
        PROVE  /\ \A j, k \in 1 .. (n + 1) :
                     j # k => Disjoint(usable_regions'[j], usable_regions'[k])
               /\ \A j \in 1 .. (n + 1), k \in DOMAIN memory_map :
                     memory_map[k].type # USABLE =>
                       Disjoint(usable_regions'[j], extent(memory_map[k]))
      BY <1>5, <1>6 DEF UsableRegionsExclusive
    <2>1. ASSUME NEW j \in 1 .. (n + 1), NEW k \in 1 .. (n + 1), j # k
          PROVE  Disjoint(usable_regions'[j], usable_regions'[k])
      <3>1. CASE j = n + 1
        BY <1>1, <1>6, <1>10, <2>1, <3>1
      <3>2. CASE k = n + 1
        BY <1>1, <1>6, <1>10, <2>1, <3>2
      <3>3. CASE j # n + 1 /\ k # n + 1
        BY <1>1, <1>6, <2>1, <3>3 DEF MemInv, UsableRegionsExclusive
      <3> QED
        BY <3>1, <3>2, <3>3
    <2>2. ASSUME NEW j \in 1 .. (n + 1), NEW k \in DOMAIN memory_map,
                 memory_map[k].type # USABLE
          PROVE  Disjoint(usable_regions'[j], extent(memory_map[k]))
      <3>1. CASE j = n + 1
        BY <1>1, <1>4, <1>6, <1>9, <2>2, <3>1
      <3>2. CASE j # n + 1
        BY <1>1, <1>6, <2>2, <3>2 DEF MemInv, UsableRegionsExclusive
      <3> QED
        BY <3>1, <3>2
    <2> QED
      BY <2>1, <2>2
  <1>12. AheadDisjoint'
    <2> SUFFICES ASSUME NonOverlapping(memory_map),
                        NEW j \in 1 .. (n + 1), NEW k \in DOMAIN memory_map,
                        k >= i + 1
                 PROVE  Disjoint(usable_regions'[j], extent(memory_map[k]))
      BY <1>5, <1>6 DEF AheadDisjoint
    <2>1. k \in Nat /\ k # i /\ k >= i
      BY <1>1, EntryFacts
    <2>2. CASE j = n + 1
      BY <1>6, <1>9, <2>1, <2>2
    <2>3. CASE j # n + 1
      BY <1>1, <1>6, <2>1, <2>3 DEF MemInv, AheadDisjoint
    <2> QED
      BY <2>2, <2>3
  <1>13. ReservedSoFar' /\ ReservedRounded' /\ EveryReservationKept'
    BY <1>1, <1>5, ReservedUntouched
  <1>14. SeenCovered' /\ NoPageLost'
    <2> PICK m \in Nat : m = i
      BY <1>1
    <2>1. ASSUME NEW a \in Address, is_page_aligned(a),
                 MIN_ALLOCATABLE_ADDRESS <= a, Within(Page(a), extent(e))
          PROVE  Within(Page(a), r)
      BY <1>2, <2>1, PageInUsableRegion, RamFits DEF Address
    <2>2. Covered(m)'
      BY <1>1, <1>5, <1>6, <2>1 DEF Covered
    <2> QED
      BY <1>1, <1>5, <1>6, <2>2, ScanCovers
  <1> QED
    BY <1>7, <1>8, <1>11, <1>12, <1>13, <1>14 DEF MemInv

\* SkipEntry: no whole page above MIN_ALLOCATABLE_ADDRESS is in the entry.
LEMMA SkipEntryCovers ==
    ASSUME MemInv, SkipEntry
    PROVE  SeenCovered' /\ NoPageLost'
  <1> PICK m \in Nat : m = i
    BY DEF MemInv, MemTypeOK
  <1>1. /\ memory_map \in MemoryMaps /\ memory_map # NoMap
        /\ m \in DOMAIN memory_map
        /\ step = "scan" /\ i' = m + 1
        /\ UNCHANGED <<memory_map, step, usable_regions>>
    <2>1. memory_map \in Seq(Entry) /\ m # 0
      BY PhysicalMemoryAssumption DEF SkipEntry, Scanning, MemInv, MemTypeOK
    <2> QED
      BY <2>1 DEF SkipEntry, Scanning, MemInv, MemTypeOK
  <1> PICK e \in Entry : e = memory_map[m]
    BY <1>1, EntryFacts
  <1>2. /\ e.base_addr \in Nat /\ e.length \in Nat
        /\ e.base_addr + e.length <= MAX_RAM
        /\ region_end(e) = e.base_addr + e.length
    BY <1>1, EntryFacts
  <1>3. ASSUME NEW a \in Address, e.type = USABLE, is_page_aligned(a),
               MIN_ALLOCATABLE_ADDRESS <= a, Within(Page(a), extent(e))
        PROVE  FALSE
    <2>1. /\ a \in Nat /\ PAGE_SIZE \in Nat \ {0}
          /\ MIN_ALLOCATABLE_ADDRESS \in Nat
      BY RamFits, PhysicalMemoryAssumption DEF Address
    <2>2. e.base_addr <= a /\ a + PAGE_SIZE <= e.base_addr + e.length
      BY <1>3 DEF Within, Page, extent
    <2>3. ~ skipped(e)
      BY <1>2, <1>3, <2>1, <2>2 DEF skipped
    <2>4. usable_region(e).start >= usable_region(e).end
      BY <2>3 DEF SkipEntry
    <2>5. Within(Page(a), usable_region(e))
      BY <1>2, <1>3, <2>1, PageInUsableRegion
    <2>6. usable_region(e).start <= a /\ a + PAGE_SIZE <= usable_region(e).end
      BY <2>5 DEF Within, Page
    <2>7. usable_region(e).start \in Int /\ usable_region(e).end \in Int
      <3>1. clipped_start(e) \in Nat /\ clipped_start(e) + PAGE_SIZE <= U64
        BY <1>2, <2>1, RamFits, PhysicalMemoryAssumption DEF clipped_start
      <3> QED
        BY <1>2, <3>1, AlignUp, AlignDown DEF usable_region
    <2> QED
      BY <2>1, <2>4, <2>6, <2>7
  <1>4. Covered(m)'
    BY <1>1, <1>3 DEF Covered
  <1> QED
    BY <1>1, <1>4, ScanCovers

\* reserve_region: the table has room, and the region it adds covers the
\* call.
LEMMA ReserveRegionKeeps ==
    ASSUME MemInv, reserve_region
    PROVE  MemInv'
  <1> DEFINE n == Len(reserved_regions)
  <1> PICK m : m = i
    OBVIOUS
  <1> DEFINE r == reserved_region(Reservations[m])
  <1>1. /\ step = "reserve" /\ step' = "reserve" /\ i' = m + 1
        /\ UNCHANGED <<memory_map, usable_regions>>
        /\ memory_map # NoMap
        /\ reserved_regions \in Seq(Region) /\ n \in Nat
        /\ m = i /\ m \in Nat \ {0} /\ m <= Len(Reservations)
        /\ n < m
    BY DEF reserve_region, MemInv, MemTypeOK, ReservedSoFar
  <1>2. m \in DOMAIN Reservations /\ n < MAX_RESERVED_REGIONS
    BY <1>1, PhysicalMemoryAssumption
  <1>3. /\ r.start <= Reservations[m][1] /\ Reservations[m][2] <= r.end
        /\ r.start \in Nat /\ r.end \in Nat
        /\ Reservations[m][1] \in Nat /\ Reservations[m][2] \in Nat
        /\ r.start < r.end => r \in Region
    BY <1>2, ReservedRegionFacts
  <1>4. reserved_regions' = IF r.start < r.end THEN Append(reserved_regions, r)
                                               ELSE reserved_regions
    BY <1>1, <1>2, PhysicalMemoryAssumption DEF reserve_region, reserved_table_full
  <1> HIDE DEF r
  <1>5. /\ reserved_regions' \in Seq(Region)
        /\ Len(reserved_regions') <= n + 1
        /\ \A j \in DOMAIN reserved_regions :
              /\ j \in DOMAIN reserved_regions'
              /\ reserved_regions'[j] = reserved_regions[j]
    BY <1>1, <1>3, <1>4
  <1>6. MemTypeOK'
    BY <1>1, <1>2, <1>5, PhysicalMemoryAssumption DEF MemInv, MemTypeOK
  <1>7. UsableIsRam' /\ UsableRegionsExclusive' /\ AheadDisjoint'
    BY <1>1, UsableUntouched
  <1>8. Kept(m)'
    <2> SUFFICES ASSUME Reservations[m][1] < Reservations[m][2]
                 PROVE  \E j \in DOMAIN reserved_regions' :
                           Within([start |-> Reservations[m][1],
                                   end |-> Reservations[m][2]],
                                  reserved_regions'[j])
      BY <1>1, <1>2 DEF Kept
    <2>1. r.start < r.end
      BY <1>3
    <2>2. n + 1 \in DOMAIN reserved_regions' /\ reserved_regions'[n + 1] = r
      BY <1>1, <1>3, <1>4, <2>1
    <2> QED
      BY <1>3, <2>2 DEF Within
  <1>9. ReservedSoFar'
    <2>1. ASSUME NEW k \in DOMAIN Reservations, k < m, Kept(k)
          PROVE  Kept(k)'
      BY <1>5, <2>1 DEF Kept
    <2>2. ASSUME NEW k \in DOMAIN Reservations, k < m + 1
          PROVE  Kept(k)'
      <3>1. k \in Nat
        BY PhysicalMemoryAssumption
      <3>2. CASE k = m
        BY <1>8, <3>2 DEF Kept
      <3>3. CASE k < m
        BY <1>1, <2>1, <3>3 DEF MemInv, ReservedSoFar
      <3> QED
        BY <1>1, <2>2, <3>1, <3>2, <3>3
    <2> QED
      BY <1>1, <1>5, <2>2 DEF ReservedSoFar
  <1>10. EveryReservationKept'
    BY <1>1 DEF EveryReservationKept
  <1>11. SeenCovered' /\ NoPageLost'
    BY <1>1, CoverUntouched
  <1>12. ReservedRounded'
    <2> SUFFICES ASSUME NEW j \in DOMAIN reserved_regions'
                 PROVE  \E k \in DOMAIN Reservations :
                           reserved_regions'[j] = reserved_region(Reservations[k])
      BY DEF ReservedRounded, reserved_region
    <2>1. CASE j \in DOMAIN reserved_regions
      BY <1>5, <2>1 DEF MemInv, ReservedRounded
    <2>2. CASE j \notin DOMAIN reserved_regions
      <3>1. r.start < r.end /\ j = n + 1
        BY <1>1, <1>3, <1>4, <2>2
      <3>2. reserved_regions'[j] = r
        BY <1>1, <1>3, <1>4, <3>1
      <3> QED
        BY <1>2, <3>2 DEF r
    <2> QED
      BY <2>1, <2>2
  <1> QED
    BY <1>6, <1>7, <1>9, <1>10, <1>11, <1>12 DEF MemInv

-----------------------------------------------------------------------------
(***************************************************************************)
(* The theorems.                                                           *)
(***************************************************************************)

\* Every step of initialize keeps the invariant.
LEMMA MemInvStep == MemInv /\ [MemNext]_memVars => MemInv'
  <1> SUFFICES ASSUME MemInv, [MemNext]_memVars PROVE MemInv'
    OBVIOUS
  <1>1. CASE NoBootInfo
    <2>1. MemTypeOK'
      BY <1>1 DEF NoBootInfo, MemInv, MemTypeOK
    <2>2. UsableIsRam' /\ UsableRegionsExclusive' /\ AheadDisjoint'
      BY <1>1, UsableUntouched DEF NoBootInfo
    <2>3. ReservedSoFar' /\ ReservedRounded' /\ EveryReservationKept'
      BY <1>1 DEF NoBootInfo, ReservedSoFar, ReservedRounded, EveryReservationKept, MemInv
    <2>4. SeenCovered' /\ NoPageLost'
      BY <1>1, CoverUntouched DEF NoBootInfo
    <2> QED
      BY <2>1, <2>2, <2>3, <2>4 DEF MemInv
  <1>2. CASE SkipEntry
    <2>1. MemTypeOK'
      BY <1>2 DEF SkipEntry, MemInv, MemTypeOK
    <2>2. UsableIsRam' /\ UsableRegionsExclusive' /\ AheadDisjoint'
      <3>1. i \in Nat
        BY DEF MemInv, MemTypeOK
      <3> QED
        BY <1>2, <3>1, UsableUntouched DEF SkipEntry, Scanning
    <2>3. ReservedSoFar' /\ ReservedRounded' /\ EveryReservationKept'
      BY <1>2, ReservedUntouched DEF SkipEntry, Scanning
    <2>4. SeenCovered' /\ NoPageLost'
      BY <1>2, SkipEntryCovers
    <2> QED
      BY <2>1, <2>2, <2>3, <2>4 DEF MemInv
  <1>3. CASE AddRegion
    BY <1>3, AddRegionKeeps
  <1>4. CASE EndScan
    <2>1. MemTypeOK'
      BY <1>4 DEF EndScan, MemInv, MemTypeOK
    <2>2. UsableIsRam' /\ UsableRegionsExclusive' /\ AheadDisjoint'
      BY <1>4, UsableUntouched DEF EndScan
    <2>3. ReservedSoFar'
      BY <1>4, PhysicalMemoryAssumption DEF EndScan, MemInv, ReservedSoFar
    <2>4. ReservedRounded' /\ EveryReservationKept'
      BY <1>4 DEF EndScan, ReservedRounded, EveryReservationKept, MemInv
    <2>5. SeenCovered'
      BY <1>4 DEF EndScan, SeenCovered
    <2>6. NoPageLost'
      <3> SUFFICES ASSUME Len(usable_regions) < MAX_USABLE_REGIONS
                   PROVE  \A k \in DOMAIN memory_map : Covered(k)
        BY <1>4 DEF EndScan, NoPageLost, Covered
      <3>1. i \in Nat /\ i > Len(memory_map) /\ memory_map \in Seq(Entry)
        BY <1>4, PhysicalMemoryAssumption
           DEF EndScan, usable_table_full, MemInv, MemTypeOK
      <3>2. \A k \in DOMAIN memory_map : k < i
        BY <3>1
      <3> QED
        BY <1>4, <3>2 DEF EndScan, MemInv, SeenCovered
    <2> QED
      BY <2>1, <2>2, <2>3, <2>4, <2>5, <2>6 DEF MemInv
  <1>5. CASE reserve_region
    BY <1>5, ReserveRegionKeeps
  <1>6. CASE EndInitialize
    <2>1. MemTypeOK'
      BY <1>6 DEF EndInitialize, MemInv, MemTypeOK
    <2>2. UsableIsRam' /\ UsableRegionsExclusive' /\ AheadDisjoint'
      BY <1>6, UsableUntouched DEF EndInitialize
    <2>3. ReservedSoFar' /\ ReservedRounded'
      BY <1>6 DEF EndInitialize, ReservedSoFar, ReservedRounded, MemInv
    <2>4. EveryReservationKept'
      <3>1. \A k \in DOMAIN Reservations : k < i
        BY <1>6, PhysicalMemoryAssumption DEF EndInitialize, MemInv, MemTypeOK
      <3>2. \A k \in DOMAIN Reservations : Kept(k)
        BY <1>6, <3>1 DEF EndInitialize, MemInv, ReservedSoFar
      <3> QED
        BY <1>6, <3>2 DEF EndInitialize, EveryReservationKept, Kept
    <2>5. SeenCovered' /\ NoPageLost'
      BY <1>6, CoverUntouched DEF EndInitialize
    <2> QED
      BY <2>1, <2>2, <2>3, <2>4, <2>5 DEF MemInv
  <1>7. CASE UNCHANGED memVars
    BY <1>7 DEF memVars, MemInv, MemTypeOK, UsableIsRam, UsableRegionOK,
                UsableRegionsExclusive, AheadDisjoint, SeenCovered, Covered,
                NoPageLost, ReservedSoFar, Kept, ReservedRounded, EveryReservationKept
  <1> QED
    BY <1>1, <1>2, <1>3, <1>4, <1>5, <1>6, <1>7 DEF MemNext

\* The invariant holds throughout physical_memory.cpp's initialize.
THEOREM MemInvariant == MemSpec => []MemInv
  BY MemInvInit, MemInvStep, PTL DEF MemSpec

\* Type correctness: in particular neither table is ever overrun.
THEOREM MemTypeCorrect == MemSpec => []MemTypeOK
  <1>1. MemInv => MemTypeOK
    BY DEF MemInv
  <1> QED
    BY <1>1, MemInvariant, PTL

\* For every page size and every map, what the kernel treats as usable is
\* whole pages of usable RAM, none below MIN_ALLOCATABLE_ADDRESS.
THEOREM UsableRegionsAreRam == MemSpec => []UsableIsRam
  <1>1. MemInv => UsableIsRam
    BY DEF MemInv
  <1> QED
    BY <1>1, MemInvariant, PTL

\* For every map without overlaps, no page is in two usable regions and no
\* usable region touches an entry of another type.
THEOREM UsableRegionsAreExclusive == MemSpec => []UsableRegionsExclusive
  <1>1. MemInv => UsableRegionsExclusive
    BY DEF MemInv
  <1> QED
    BY <1>1, MemInvariant, PTL

\* For every map that does not fill the table, every whole page of usable
\* RAM above MIN_ALLOCATABLE_ADDRESS is kept.
THEOREM NoUsablePageLost == MemSpec => []NoPageLost
  <1>1. MemInv => NoPageLost
    BY DEF MemInv
  <1> QED
    BY <1>1, MemInvariant, PTL

\* As long as the table is at least as long as the list of calls, no
\* reserve_region call is lost.
THEOREM ReservationsAreKept == MemSpec => []EveryReservationKept
  <1>1. MemInv => EveryReservationKept
    BY DEF MemInv
  <1> QED
    BY <1>1, MemInvariant, PTL

=============================================================================
