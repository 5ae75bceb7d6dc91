------------------------- MODULE PageAllocatorProofs -------------------------
(***************************************************************************)
(* Proofs about PageAllocator, for every number of tracked pages, every    *)
(* memory map and every list of reservations that meet its assumptions,    *)
(* and for callers that free whatever addresses they like.                 *)
(***************************************************************************)
EXTENDS PageAllocator, PhysicalMemoryProofs, WellFoundedInduction

-----------------------------------------------------------------------------
(***************************************************************************)
(* The inductive invariant.                                                *)
(*                                                                         *)
(* What the allocator promises once it runs is built up by initialize: the *)
(* pages of the usable regions become free one region after the other, and *)
(* then those of the reserved regions are taken back and flagged.  The     *)
(* flag, not the region table, is what stops mark_page_free, so the        *)
(* invariant speaks of the flag and only says at the end that the two are  *)
(* the same.                                                               *)
(***************************************************************************)
flagged == {p \in PageIndex : page_metadata[p].reserved}

\* The region tables are complete before the allocator reads them.
TablesReady == phase # "memory" => step = "ready"

\* Nothing is handed out before the allocator runs.
NothingLiveYet == phase # "running" => live = {}

\* No page is both free and handed out, and no flagged page is either.
Exclusive ==
    phase # "memory" =>
        /\ live \cap free_pages = {}
        /\ flagged \cap (free_pages \cup live) = {}

\* While regions are being freed, those before the current one are free.
FreedSoFar ==
    phase = "free" =>
        /\ flagged = {}
        /\ \A k \in DOMAIN usable_regions :
              k < region => pages_of(usable_regions[k]) \subseteq free_pages

\* While regions are being protected, those before the current one are
\* flagged; afterwards all are.
FlaggedSoFar ==
    phase \in {"protect", "running"} =>
        \A p \in PageIndex :
           p \in flagged <=> \E k \in DOMAIN reserved_regions :
                                /\ phase = "protect" => k < region
                                /\ p \in pages_of(reserved_regions[k])

\* What is usable and not flagged stays within reach.
UsableReachable ==
    phase \in {"protect", "running"} =>
        usable_pages \ flagged \subseteq free_pages \cup live

\* Without a map there is no usable region: the one case in which page 0 is
\* not reserved has no pages to lose.
NoMapNoRegions == memory_map = NoMap => usable_regions = <<>>

AllocInv ==
    /\ MemInv
    /\ NoMapNoRegions
    /\ TypeOK
    /\ TablesReady
    /\ NothingLiveYet
    /\ BitmapMatchesMetadata
    /\ Exclusive
    /\ FreedSoFar
    /\ FlaggedSoFar
    /\ UsableReachable

-----------------------------------------------------------------------------
(***************************************************************************)
(* What marking does.                                                      *)
(***************************************************************************)

\* The two arrays are typed and agree, as after mark_all_regions_used.
ArraysAgree ==
    /\ page_bitmap \in [PageIndex -> BOOLEAN]
    /\ page_metadata \in [PageIndex -> Metadata]
    /\ \A p \in PageIndex : page_bitmap[p] = page_metadata[p].allocated

\* Elements written inside the bounds of an array leave it its length.
LEMMA WrittenInside ==
    ASSUME NEW S, NEW T \in SUBSET S, NEW f, f = [x \in S |-> f[x]], NEW g, DOMAIN g = T
    PROVE  written(f, g) = [x \in S |-> IF x \in T THEN g[x] ELSE f[x]]
  BY DEF written

\* mark_page_used takes pages out of the free ones and flags none.
LEMMA MarkUsedEffect ==
    ASSUME ArraysAgree, NEW P \in SUBSET PageIndex, mark_used(P)
    PROVE  /\ ArraysAgree'
           /\ free_pages' = free_pages \ P
           /\ flagged' = flagged
  <1>1. /\ page_bitmap' = [p \in PageIndex |-> p \in P \/ page_bitmap[p]]
        /\ page_metadata' =
             [p \in PageIndex |->
                [allocated |-> p \in P \/ page_metadata[p].allocated,
                 reserved  |-> page_metadata[p].reserved]]
    <2> DEFINE marked == [p \in P |-> TRUE]
               updated == [p \in P |-> [page_metadata[p] EXCEPT !.allocated = TRUE]]
    <2>1. P = tracked(P)
      BY DEF tracked
    <2>2. /\ page_bitmap' = written(page_bitmap, marked)
          /\ page_metadata' = written(page_metadata, updated)
      BY <2>1 DEF mark_used
    <2>3. /\ page_bitmap' = [p \in PageIndex |-> IF p \in P THEN marked[p] ELSE page_bitmap[p]]
          /\ page_metadata' = [p \in PageIndex |-> IF p \in P THEN updated[p] ELSE page_metadata[p]]
      <3>1. /\ page_bitmap = [p \in PageIndex |-> page_bitmap[p]]
            /\ page_metadata = [p \in PageIndex |-> page_metadata[p]]
            /\ DOMAIN marked = P /\ DOMAIN updated = P
        BY DEF ArraysAgree
      <3> HIDE DEF marked, updated
      <3>2. page_bitmap' = [p \in PageIndex |-> IF p \in P THEN marked[p] ELSE page_bitmap[p]]
        BY <2>2, <3>1, WrittenInside
      <3>3. page_metadata' = [p \in PageIndex |-> IF p \in P THEN updated[p] ELSE page_metadata[p]]
        BY <2>2, <3>1, WrittenInside
      <3> QED
        BY <3>2, <3>3
    <2>4. ASSUME NEW p \in PageIndex
          PROVE  /\ (IF p \in P THEN marked[p] ELSE page_bitmap[p])
                       = (p \in P \/ page_bitmap[p])
                 /\ (IF p \in P THEN updated[p] ELSE page_metadata[p])
                       = [allocated |-> p \in P \/ page_metadata[p].allocated,
                          reserved  |-> page_metadata[p].reserved]
      <3>1. page_bitmap[p] \in BOOLEAN /\ page_metadata[p] \in Metadata
        BY DEF ArraysAgree
      <3>2. page_metadata[p] = [allocated |-> page_metadata[p].allocated,
                                reserved  |-> page_metadata[p].reserved]
            /\ page_metadata[p].allocated \in BOOLEAN
        BY <3>1 DEF Metadata
      <3>3. p \in P => updated[p] = [allocated |-> TRUE, reserved |-> page_metadata[p].reserved]
        BY <3>2
      <3> HIDE DEF updated
      <3> QED
        BY <3>1, <3>2, <3>3
    <2> HIDE DEF marked, updated
    <2> QED
      BY <2>3, <2>4
  <1>2. ArraysAgree'
    BY <1>1 DEF ArraysAgree, Metadata
  <1>3. free_pages' = free_pages \ P
    BY <1>1 DEF free_pages
  <1>4. flagged' = flagged
    BY <1>1 DEF flagged
  <1> QED
    BY <1>2, <1>3, <1>4

\* mark_region_used does the same and flags them.
LEMMA MarkReservedEffect ==
    ASSUME ArraysAgree, NEW P \in SUBSET PageIndex, mark_reserved(P)
    PROVE  /\ ArraysAgree'
           /\ free_pages' = free_pages \ P
           /\ flagged' = flagged \cup P
  <1>1. /\ page_bitmap' = [p \in PageIndex |-> p \in P \/ page_bitmap[p]]
        /\ page_metadata' =
             [p \in PageIndex |->
                [allocated |-> p \in P \/ page_metadata[p].allocated,
                 reserved  |-> p \in P \/ page_metadata[p].reserved]]
    <2> DEFINE marked == [p \in P |-> TRUE]
               flags == [p \in P |-> [allocated |-> TRUE, reserved |-> TRUE]]
    <2>1. P = tracked(P)
      BY DEF tracked
    <2>2. /\ page_bitmap' = written(page_bitmap, marked)
          /\ page_metadata' = written(page_metadata, flags)
      BY <2>1 DEF mark_reserved
    <2>3. /\ page_bitmap' = [p \in PageIndex |-> IF p \in P THEN marked[p] ELSE page_bitmap[p]]
          /\ page_metadata' = [p \in PageIndex |-> IF p \in P THEN flags[p] ELSE page_metadata[p]]
      <3>1. /\ page_bitmap = [p \in PageIndex |-> page_bitmap[p]]
            /\ page_metadata = [p \in PageIndex |-> page_metadata[p]]
            /\ DOMAIN marked = P /\ DOMAIN flags = P
        BY DEF ArraysAgree
      <3> HIDE DEF marked, flags
      <3>2. page_bitmap' = [p \in PageIndex |-> IF p \in P THEN marked[p] ELSE page_bitmap[p]]
        BY <2>2, <3>1, WrittenInside
      <3>3. page_metadata' = [p \in PageIndex |-> IF p \in P THEN flags[p] ELSE page_metadata[p]]
        BY <2>2, <3>1, WrittenInside
      <3> QED
        BY <3>2, <3>3
    <2>4. ASSUME NEW p \in PageIndex
          PROVE  /\ (IF p \in P THEN marked[p] ELSE page_bitmap[p])
                       = (p \in P \/ page_bitmap[p])
                 /\ (IF p \in P THEN flags[p] ELSE page_metadata[p])
                       = [allocated |-> p \in P \/ page_metadata[p].allocated,
                          reserved  |-> p \in P \/ page_metadata[p].reserved]
      <3>1. page_bitmap[p] \in BOOLEAN /\ page_metadata[p] \in Metadata
        BY DEF ArraysAgree
      <3>2. page_metadata[p] = [allocated |-> page_metadata[p].allocated,
                                reserved  |-> page_metadata[p].reserved]
            /\ page_metadata[p].allocated \in BOOLEAN
            /\ page_metadata[p].reserved \in BOOLEAN
        BY <3>1 DEF Metadata
      <3>3. p \in P => flags[p] = [allocated |-> TRUE, reserved |-> TRUE]
        OBVIOUS
      <3> HIDE DEF flags
      <3> QED
        BY <3>1, <3>2, <3>3
    <2> HIDE DEF marked, flags
    <2> QED
      BY <2>3, <2>4
  <1>2. ArraysAgree'
    BY <1>1 DEF ArraysAgree, Metadata
  <1>3. free_pages' = free_pages \ P
    BY <1>1 DEF free_pages
  <1>4. flagged' = flagged \cup P
    BY <1>1 DEF flagged
  <1> QED
    BY <1>2, <1>3, <1>4

\* mark_page_free frees all of them that are neither flagged nor free.
LEMMA MarkFreeEffect ==
    ASSUME ArraysAgree, NEW P \in SUBSET PageIndex, mark_free(P)
    PROVE  /\ ArraysAgree'
           /\ clearable(P) = (P \ flagged) \ free_pages
           /\ free_pages' = free_pages \cup (P \ flagged)
           /\ flagged' = flagged
  <1>1. /\ page_bitmap' =
             [p \in PageIndex |-> page_bitmap[p] /\ p \notin clearable(P)]
        /\ page_metadata' =
             [p \in PageIndex |->
                [allocated |-> page_metadata[p].allocated /\ p \notin clearable(P),
                 reserved  |-> page_metadata[p].reserved]]
    <2> DEFINE C == clearable(P)
               zeros == [p \in C |-> FALSE]
               blank == [p \in C |-> [allocated |-> FALSE, reserved |-> FALSE]]
    <2>1. C \in SUBSET PageIndex /\ \A p \in C : ~ page_metadata[p].reserved
      BY DEF clearable, tracked
    <2>2. /\ page_bitmap' = written(page_bitmap, zeros)
          /\ page_metadata' = written(page_metadata, blank)
      BY DEF mark_free
    <2>3. /\ page_bitmap' = [p \in PageIndex |-> IF p \in C THEN zeros[p] ELSE page_bitmap[p]]
          /\ page_metadata' = [p \in PageIndex |-> IF p \in C THEN blank[p] ELSE page_metadata[p]]
      <3>1. /\ page_bitmap = [p \in PageIndex |-> page_bitmap[p]]
            /\ page_metadata = [p \in PageIndex |-> page_metadata[p]]
            /\ DOMAIN zeros = C /\ DOMAIN blank = C
        BY DEF ArraysAgree
      <3> HIDE DEF C, zeros, blank
      <3>2. page_bitmap' = [p \in PageIndex |-> IF p \in C THEN zeros[p] ELSE page_bitmap[p]]
        BY <2>1, <2>2, <3>1, WrittenInside
      <3>3. page_metadata' = [p \in PageIndex |-> IF p \in C THEN blank[p] ELSE page_metadata[p]]
        BY <2>1, <2>2, <3>1, WrittenInside
      <3> QED
        BY <3>2, <3>3
    <2>4. ASSUME NEW p \in PageIndex
          PROVE  /\ (IF p \in C THEN zeros[p] ELSE page_bitmap[p])
                       = (page_bitmap[p] /\ p \notin C)
                 /\ (IF p \in C THEN blank[p] ELSE page_metadata[p])
                       = [allocated |-> page_metadata[p].allocated /\ p \notin C,
                          reserved  |-> page_metadata[p].reserved]
      <3>1. page_bitmap[p] \in BOOLEAN /\ page_metadata[p] \in Metadata
        BY DEF ArraysAgree
      <3>2. page_metadata[p] = [allocated |-> page_metadata[p].allocated,
                                reserved  |-> page_metadata[p].reserved]
            /\ page_metadata[p].allocated \in BOOLEAN
            /\ page_metadata[p].reserved \in BOOLEAN
        BY <3>1 DEF Metadata
      <3>3. p \in C => blank[p] = [allocated |-> FALSE, reserved |-> FALSE]
        OBVIOUS
      <3>4. p \in C => page_metadata[p].reserved = FALSE
        BY <2>1, <3>2
      <3> HIDE DEF blank, C
      <3> QED
        BY <3>1, <3>2, <3>3, <3>4
    <2> HIDE DEF C, zeros, blank
    <2>5. /\ page_bitmap' = [p \in PageIndex |-> page_bitmap[p] /\ p \notin C]
          /\ page_metadata' =
               [p \in PageIndex |->
                  [allocated |-> page_metadata[p].allocated /\ p \notin C,
                   reserved  |-> page_metadata[p].reserved]]
      BY <2>3, <2>4
    <2> QED
      BY <2>5 DEF C
  <1>2. ArraysAgree'
    BY <1>1 DEF ArraysAgree, Metadata
  <1>3. clearable(P) = (P \ flagged) \ free_pages
    BY DEF clearable, tracked, flagged, free_pages, ArraysAgree
  <1>4. free_pages' = free_pages \cup (P \ flagged)
    <2>1. free_pages' = free_pages \cup clearable(P)
      BY <1>1, <1>3 DEF free_pages
    <2> QED
      BY <1>3, <2>1
  <1>5. flagged' = flagged
    BY <1>1 DEF flagged
  <1> QED
    BY <1>2, <1>3, <1>4, <1>5

\* mark_page_free leaves alone what is not tracked.
LEMMA MarkFreeTracked ==
    ASSUME NEW P, mark_free(P)
    PROVE  mark_free(tracked(P))
  <1>1. clearable(tracked(P)) = clearable(P)
    BY DEF clearable, tracked
  <1> QED
    BY <1>1 DEF mark_free

\* mark_region_used, which checks nothing, is given tracked pages only: every
\* reservation lies below MAX_PHYSICAL_MEMORY, and its pages with it.
LEMMA ReservedPagesTracked ==
    ASSUME MemInv, NEW j \in DOMAIN reserved_regions
    PROVE  region_pages(reserved_regions[j]) = pages_of(reserved_regions[j])
  <1>1. TOTAL_PAGES \in Nat
        /\ \A k \in DOMAIN Reservations : Reservations[k][2] <= TOTAL_PAGES * PAGE_SIZE
    BY PageAllocatorAssumption DEF MAX_PHYSICAL_MEMORY
  <1>2. \A p \in Nat : p * PAGE_SIZE < reserved_regions[j].end => p < TOTAL_PAGES
    BY <1>1, ReservedWithin
  <1>3. ASSUME NEW p \in region_pages(reserved_regions[j])
        PROVE  p \in PageIndex
    <2>1. p \in 0 .. reserved_regions[j].end /\ p * PAGE_SIZE < reserved_regions[j].end
      BY DEF region_pages
    <2>2. reserved_regions[j].end \in Nat
      <3>1. reserved_regions[j] \in Region
        BY DEF MemInv, MemTypeOK
      <3> QED
        BY <3>1, PagesAssumption DEF Region, Address
    <2>3. p \in Nat
      BY <2>1, <2>2
    <2> QED
      BY <1>1, <1>2, <2>1, <2>3 DEF PageIndex
  <1> QED
    BY <1>3 DEF pages_of, tracked

-----------------------------------------------------------------------------
(***************************************************************************)
(* What the searches find and what free_page accepts.                      *)
(***************************************************************************)

\* A nonempty set of numbers has a least one: the first page found going
\* upwards exists.
LEMMA LeastExists ==
    ASSUME NEW S \in SUBSET Nat, S # {}
    PROVE  Min(S) \in S /\ \A y \in S : Min(S) <= y
  <1>1. \E x \in S : \A y \in S : ~ (<<y, x>> \in OpToRel(<, Nat))
    BY NatLessThanWellFounded, WFMin
  <1>2. \A x \in Nat, y \in Nat : y < x => <<y, x>> \in OpToRel(<, Nat)
    BY DEF OpToRel
  <1>3. PICK x \in S : \A y \in S : ~ (<<y, x>> \in OpToRel(<, Nat))
    BY <1>1
  <1>4. \A y \in S : ~ (y < x)
    BY <1>2, <1>3
  <1>5. \A y \in S : x <= y
    BY <1>4
  <1> QED
    BY <1>5 DEF Min

\* An allocation either fails and changes nothing, or takes a run of free
\* pages and returns its address.
LEMMA AllocateOutcome ==
    ASSUME NEW n \in Nat, NEW address, allocate(n, address)
    PROVE  \/ address = 0 /\ UNCHANGED <<page_bitmap, page_metadata, live>>
           \/ \E first \in free_runs(n) :
                 /\ n # 0
                 /\ address = first * PAGE_SIZE
                 /\ mark_used(first .. (first + n - 1))
                 /\ live' = IF address = 0 THEN live
                                           ELSE live \cup (first .. (first + n - 1))
  <1>1. CASE n # 0 /\ free_runs(n) # {}
    <2>1. free_runs(n) \in SUBSET Nat
      BY PageAllocatorAssumption DEF free_runs, free_pages, PageIndex
    <2>2. Min(free_runs(n)) \in free_runs(n)
      BY <1>1, <2>1, LeastExists
    <2> QED
      BY <1>1, <2>2 DEF allocate
  <1>2. CASE ~ (n # 0 /\ free_runs(n) # {})
    BY <1>2 DEF allocate
  <1> QED
    BY <1>1, <1>2

\* What matters of it here: the caller takes a successful allocation for a
\* failure only if page 0 is in it.
LEMMA AllocateEffect ==
    ASSUME NEW n \in Nat, NEW address, allocate(n, address)
    PROVE  \/ UNCHANGED <<page_bitmap, page_metadata, live>>
           \/ \E P \in SUBSET free_pages :
                 mark_used(P) /\ (live' = live \cup P \/ (live' = live /\ 0 \in P))
  <1>1. CASE \E first \in free_runs(n) :
               /\ n # 0
               /\ address = first * PAGE_SIZE
               /\ mark_used(first .. (first + n - 1))
               /\ live' = IF address = 0 THEN live
                                         ELSE live \cup (first .. (first + n - 1))
    <2>1. PICK first \in free_runs(n) :
               /\ n # 0
               /\ address = first * PAGE_SIZE
               /\ mark_used(first .. (first + n - 1))
               /\ live' = IF address = 0 THEN live
                                         ELSE live \cup (first .. (first + n - 1))
      BY <1>1
    <2> DEFINE P == first .. (first + n - 1)
    <2>2. first \in Nat /\ P \in SUBSET free_pages
      BY <2>1, PageAllocatorAssumption DEF free_runs, free_pages, PageIndex
    <2>3. address = 0 => 0 \in P
      BY <2>1, <2>2, PagesAssumption
    <2>4. mark_used(P) /\ live' = IF address = 0 THEN live ELSE live \cup P
      BY <2>1
    <2> HIDE DEF P
    <2> QED
      BY <2>2, <2>3, <2>4
  <1> QED
    BY <1>1, AllocateOutcome

\* The pages free_page hands on are tracked pages.
LEMMA FreedByTracked ==
    ASSUME NEW A \in SUBSET Address
    PROVE  freed_by(A) \in SUBSET PageIndex
  <1> SUFFICES ASSUME NEW a \in Address, owns_page(a)
               PROVE  a \div PAGE_SIZE \in PageIndex
    BY DEF freed_by
  <1> DEFINE q == a \div PAGE_SIZE
  <1>1. a \in Nat /\ TOTAL_PAGES \in Nat \ {0} /\ PAGE_SIZE \in Nat \ {0}
    BY PagesAssumption, PageAllocatorAssumption DEF Address
  <1>2. q \in Nat /\ a = PAGE_SIZE * q
    BY <1>1, PageDivision DEF owns_page, is_page_aligned
  <1>3. a < TOTAL_PAGES * PAGE_SIZE
    BY DEF owns_page, MAX_PHYSICAL_MEMORY
  <1> HIDE DEF q
  <1>4. PAGE_SIZE * q < PAGE_SIZE * TOTAL_PAGES
    BY <1>1, <1>2, <1>3
  <1>5. q < TOTAL_PAGES
    BY <1>1, <1>2, <1>4
  <1> QED
    BY <1>1, <1>2, <1>5 DEF PageIndex, q

\* A free either changes nothing or frees, of some tracked pages, those that
\* are not flagged.
LEMMA FreeEffect ==
    ASSUME NEW A \in SUBSET Address, free(A)
    PROVE  \E P \in SUBSET PageIndex : mark_free(P) /\ live' = live \ clearable(P)
  BY FreedByTracked DEF free

\* The addresses free_contiguous_pages goes through are addresses.
LEMMA FreeContiguousEffect ==
    ASSUME NEW a \in Address, NEW n \in PageCounts, free_contiguous_pages(a, n)
    PROVE  \/ UNCHANGED <<page_bitmap, page_metadata, live>>
           \/ \E P \in SUBSET PageIndex : mark_free(P) /\ live' = live \ clearable(P)
  <1> DEFINE A == {add_u64(a, PAGE_SIZE * k) : k \in 0 .. (n - 1)}
  <1>1. CASE n # 0 /\ is_page_aligned(a)
    <2>1. free(A)
      BY <1>1 DEF free_contiguous_pages
    <2>2. \A k \in 0 .. (n - 1) : add_u64(a, PAGE_SIZE * k) \in Address
      <3> TAKE k \in 0 .. (n - 1)
      <3>1. /\ k \in Nat /\ k <= TOTAL_PAGES /\ TOTAL_PAGES \in Nat
            /\ PAGE_SIZE \in Nat /\ U64 \in Nat /\ TOTAL_PAGES * PAGE_SIZE <= U64
        BY PageAllocatorAssumption, PagesAssumption DEF PageCounts, MAX_PHYSICAL_MEMORY
      <3>2. PAGE_SIZE * k \in Nat /\ PAGE_SIZE * k <= PAGE_SIZE * TOTAL_PAGES
        BY <3>1
      <3>3. PAGE_SIZE * TOTAL_PAGES = TOTAL_PAGES * PAGE_SIZE
        BY <3>1
      <3>4. PICK d : d = PAGE_SIZE * k
        OBVIOUS
      <3>5. d \in Nat /\ d <= U64
        BY <3>1, <3>2, <3>3, <3>4
      <3> QED
        BY <3>1, <3>4, <3>5 DEF add_u64, Address
    <2>3. A \in SUBSET Address
      BY <2>2
    <2> HIDE DEF A
    <2> QED
      BY <2>1, <2>3, FreeEffect
  <1>2. CASE ~ (n # 0 /\ is_page_aligned(a))
    BY <1>2 DEF free_contiguous_pages
  <1> QED
    BY <1>1, <1>2

-----------------------------------------------------------------------------
(***************************************************************************)
(* The steps.                                                              *)
(***************************************************************************)

\* Once the arrays are filled the invariant is about the tables, the sets of
\* free, flagged and live pages, and nothing else.
LEMMA InvAgrees ==
    ASSUME AllocInv, phase # "memory"
    PROVE  ArraysAgree /\ step = "ready" /\ live \in SUBSET PageIndex
  BY DEF AllocInv, TypeOK, TablesReady, BitmapMatchesMetadata, ArraysAgree

\* The tables keep their invariant when they do not change.
LEMMA MemInvStays ==
    ASSUME AllocInv, UNCHANGED memVars
    PROVE  MemInv'
  BY MemInvStep DEF AllocInv

\* The table-only operators do not change with the tables.
LEMMA TablesStay ==
    ASSUME UNCHANGED memVars
    PROVE  /\ UNCHANGED <<memory_map, step, usable_regions, reserved_regions>>
           /\ usable_pages' = usable_pages
           /\ reserved_pages' = reserved_pages
  BY DEF memVars, usable_pages, reserved_pages, pages_of

\* The initial states.
LEMMA AllocInvInit == Init => AllocInv
  <1> SUFFICES ASSUME Init PROVE AllocInv
    OBVIOUS
  <1>1. MemInv
    BY MemInvInit DEF Init
  <1>2. TypeOK
    <2>1. /\ page_bitmap \in [PageIndex -> BOOLEAN]
          /\ page_metadata \in [PageIndex -> Metadata]
      BY DEF Init, Metadata
    <2> QED
      BY <1>1, <2>1 DEF Init, TypeOK, MemInv
  <1> QED
    BY <1>1, <1>2
    DEF Init, MemInit, AllocInv, NoMapNoRegions, TablesReady, NothingLiveYet,
        BitmapMatchesMetadata, Exclusive, FreedSoFar, FlaggedSoFar, UsableReachable

\* While memory::initialize runs, the allocator's state does not move.
LEMMA MemoryStepKeeps ==
    ASSUME AllocInv, MemoryStep
    PROVE  AllocInv'
  <1>1. MemInv'
    BY MemInvStep DEF MemoryStep, AllocInv
  <1>2. phase = "memory" /\ phase' = "memory" /\ UNCHANGED allocVars
    BY DEF MemoryStep, allocVars
  <1>3. TypeOK'
    BY <1>1, <1>2 DEF MemInv, AllocInv, TypeOK, allocVars
  <1>4. NoMapNoRegions'
    BY DEF MemoryStep, MemNext, NoBootInfo, SkipEntry, AddRegion, EndScan,
           reserve_region, EndInitialize, Scanning, AllocInv, NoMapNoRegions
  <1> QED
    BY <1>1, <1>2, <1>3, <1>4
    DEF AllocInv, allocVars, TablesReady, NothingLiveYet, BitmapMatchesMetadata,
        Exclusive, FreedSoFar, FlaggedSoFar, UsableReachable

\* All pages are used, none is flagged.
LEMMA MarkAllUsedKeeps ==
    ASSUME AllocInv, MarkAllUsed
    PROVE  AllocInv'
  <1>1. /\ UNCHANGED memVars /\ live' = {} /\ phase' = "free" /\ region' = 1
        /\ step' = "ready"
    BY DEF MarkAllUsed, AllocInv, NothingLiveYet, memVars
  <1>2. MemInv'
    BY <1>1, MemInvStays
  <1>3. ArraysAgree'
    BY DEF MarkAllUsed, ArraysAgree, Metadata
  <1>4. free_pages' = {} /\ flagged' = {}
    BY DEF MarkAllUsed, free_pages, flagged
  <1>5. TypeOK'
    BY <1>1, <1>2, <1>3 DEF TypeOK, MemInv, ArraysAgree
  <1>6. FreedSoFar'
    <2>1. \A k \in DOMAIN usable_regions : ~ (k < 1)
      BY <1>1 DEF AllocInv, MemInv, MemTypeOK
    <2> QED
      BY <1>1, <1>4, <2>1 DEF FreedSoFar, memVars
  <1> QED
    BY <1>1, <1>2, <1>3, <1>4, <1>5, <1>6
    DEF AllocInv, NoMapNoRegions, memVars, ArraysAgree, TablesReady, NothingLiveYet, BitmapMatchesMetadata,
        Exclusive, FlaggedSoFar, UsableReachable

\* One more usable region is free, but for what does not exist yet: flags.
LEMMA MarkRegionFreeKeeps ==
    ASSUME AllocInv, mark_region_free
    PROVE  AllocInv'
  <1> PICK n : n = region
    OBVIOUS
  <1> DEFINE P == pages_of(usable_regions[n])
  <1>1. /\ UNCHANGED memVars /\ phase = "free" /\ phase' = "free"
        /\ n \in Nat \ {0} /\ region' = n + 1 /\ live = {} /\ live' = {}
        /\ mark_free(P)
    BY MarkFreeTracked DEF mark_region_free, AllocInv, TypeOK, NothingLiveYet, pages_of
  <1>2. MemInv' /\ UNCHANGED <<step, usable_regions, reserved_regions>>
    BY <1>1, MemInvStays, TablesStay
  <1>3. P \in SUBSET PageIndex
    BY DEF pages_of, tracked
  <1>4. ArraysAgree /\ step = "ready" /\ flagged = {}
    BY <1>1, InvAgrees DEF AllocInv, FreedSoFar
  <1>5. /\ ArraysAgree' /\ free_pages' = free_pages \cup P /\ flagged' = {}
    <2> HIDE DEF P
    <2> QED
      BY <1>1, <1>3, <1>4, MarkFreeEffect
  <1>6. TypeOK'
    BY <1>1, <1>2, <1>5 DEF TypeOK, MemInv, ArraysAgree
  <1>7. FreedSoFar'
    <2> SUFFICES ASSUME NEW k \in DOMAIN usable_regions, k < n + 1
                 PROVE  pages_of(usable_regions[k]) \subseteq free_pages'
      BY <1>1, <1>2, <1>5 DEF FreedSoFar, pages_of
    <2>1. k < n \/ k = n
      BY <1>1 DEF AllocInv, MemInv, MemTypeOK
    <2> QED
      BY <1>1, <1>5, <2>1 DEF AllocInv, FreedSoFar
  <1> QED
    BY <1>1, <1>2, <1>4, <1>5, <1>6, <1>7
    DEF AllocInv, NoMapNoRegions, memVars, ArraysAgree, TablesReady, NothingLiveYet, BitmapMatchesMetadata,
        Exclusive, FlaggedSoFar, UsableReachable

\* Every usable region is free now.
LEMMA AllUsableMarkedKeeps ==
    ASSUME AllocInv, AllUsableMarked
    PROVE  AllocInv'
  <1>1. /\ UNCHANGED memVars /\ phase = "free" /\ phase' = "protect"
        /\ region > Len(usable_regions) /\ region' = 1
        /\ region \in Nat \ {0}
        /\ UNCHANGED <<page_bitmap, page_metadata, live>> /\ live = {}
    BY DEF AllUsableMarked, AllocInv, TypeOK, NothingLiveYet
  <1>2. /\ MemInv' /\ UNCHANGED <<step, usable_regions, reserved_regions>>
        /\ usable_pages' = usable_pages
    BY <1>1, MemInvStays, TablesStay
  <1>3. ArraysAgree /\ step = "ready" /\ flagged = {}
    BY <1>1, InvAgrees DEF AllocInv, FreedSoFar
  <1>4. ArraysAgree' /\ free_pages' = free_pages /\ flagged' = {}
    BY <1>1, <1>3 DEF ArraysAgree, free_pages, flagged
  <1>5. TypeOK'
    BY <1>1, <1>2, <1>4 DEF TypeOK, MemInv, ArraysAgree
  <1>6. usable_pages \subseteq free_pages
    <2>1. \A k \in DOMAIN usable_regions : k < region
      BY <1>1 DEF AllocInv, MemInv, MemTypeOK
    <2>2. \A k \in DOMAIN usable_regions : pages_of(usable_regions[k]) \subseteq free_pages
      BY <1>1, <2>1 DEF AllocInv, FreedSoFar
    <2> QED
      BY <2>2 DEF usable_pages
  <1>7. FlaggedSoFar'
    <2>1. \A k \in DOMAIN reserved_regions : ~ (k < 1)
      BY DEF AllocInv, MemInv, MemTypeOK
    <2> QED
      BY <1>1, <1>2, <1>4, <2>1 DEF FlaggedSoFar
  <1> QED
    BY <1>1, <1>2, <1>3, <1>4, <1>5, <1>6, <1>7
    DEF AllocInv, NoMapNoRegions, memVars, ArraysAgree, TablesReady, NothingLiveYet, BitmapMatchesMetadata,
        Exclusive, FreedSoFar, UsableReachable

\* One more reserved region is taken back and flagged.
LEMMA MarkRegionUsedKeeps ==
    ASSUME AllocInv, mark_region_used
    PROVE  AllocInv'
  <1> PICK n : n = region
    OBVIOUS
  <1> DEFINE P == pages_of(reserved_regions[n])
  <1>1. /\ UNCHANGED memVars /\ phase = "protect" /\ phase' = "protect"
        /\ n \in Nat \ {0} /\ n <= Len(reserved_regions)
        /\ region' = n + 1 /\ live = {} /\ live' = {}
        /\ mark_reserved(P)
    <2>1. /\ UNCHANGED memVars /\ phase = "protect" /\ phase' = "protect"
          /\ n \in Nat \ {0} /\ n <= Len(reserved_regions)
          /\ region' = n + 1 /\ live = {} /\ live' = {}
          /\ mark_reserved(region_pages(reserved_regions[n]))
      BY DEF mark_region_used, AllocInv, TypeOK, NothingLiveYet
    <2>2. MemInv /\ n \in DOMAIN reserved_regions
      BY <2>1 DEF AllocInv, MemInv, MemTypeOK
    <2>3. region_pages(reserved_regions[n]) = P
      BY <2>2, ReservedPagesTracked
    <2> QED
      BY <2>1, <2>3
  <1>2. /\ MemInv' /\ UNCHANGED <<step, usable_regions, reserved_regions>>
        /\ usable_pages' = usable_pages
    BY <1>1, MemInvStays, TablesStay
  <1>3. P \in SUBSET PageIndex
    BY DEF pages_of, tracked
  <1>4. ArraysAgree /\ step = "ready"
    BY <1>1, InvAgrees
  <1>5. ArraysAgree' /\ free_pages' = free_pages \ P /\ flagged' = flagged \cup P
    <2> HIDE DEF P
    <2> QED
      BY <1>1, <1>3, <1>4, MarkReservedEffect
  <1>6. TypeOK'
    BY <1>1, <1>2, <1>5 DEF TypeOK, MemInv, ArraysAgree
  <1>7. Exclusive'
    BY <1>1, <1>5 DEF Exclusive, AllocInv
  <1>8. FlaggedSoFar'
    <2>1. \A k \in DOMAIN reserved_regions : k < n + 1 <=> (k < n \/ k = n)
      BY <1>1 DEF AllocInv, MemInv, MemTypeOK
    <2>2. n \in DOMAIN reserved_regions
      BY <1>1 DEF AllocInv, MemInv, MemTypeOK
    <2>3. \A p \in PageIndex :
             p \in flagged <=> \E k \in DOMAIN reserved_regions :
                                  k < n /\ p \in pages_of(reserved_regions[k])
      BY <1>1 DEF AllocInv, FlaggedSoFar
    <2>4. \A p \in PageIndex :
             p \in flagged' <=> \E k \in DOMAIN reserved_regions :
                                  k < n + 1 /\ p \in pages_of(reserved_regions[k])
      <3> SUFFICES ASSUME NEW p \in PageIndex
                   PROVE  p \in flagged' <=>
                            \E k \in DOMAIN reserved_regions :
                               k < n + 1 /\ p \in pages_of(reserved_regions[k])
        OBVIOUS
      <3>1. p \in flagged' <=> p \in flagged \/ p \in P
        BY <1>5
      <3> QED
        BY <2>1, <2>2, <2>3, <3>1
    <2> QED
      BY <1>1, <1>2, <2>4 DEF FlaggedSoFar, pages_of
  <1>9. UsableReachable'
    BY <1>1, <1>2, <1>5 DEF UsableReachable, AllocInv
  <1> QED
    BY <1>1, <1>2, <1>4, <1>5, <1>6, <1>7, <1>8, <1>9
    DEF AllocInv, NoMapNoRegions, memVars, ArraysAgree, TablesReady, NothingLiveYet, BitmapMatchesMetadata,
        FreedSoFar

\* Every reserved region is flagged now.
LEMMA AllReservedMarkedKeeps ==
    ASSUME AllocInv, AllReservedMarked
    PROVE  AllocInv'
  <1>1. /\ UNCHANGED memVars /\ phase = "protect" /\ phase' = "running"
        /\ region > Len(reserved_regions) /\ region \in Nat
        /\ UNCHANGED <<region, page_bitmap, page_metadata, live>>
    BY DEF AllReservedMarked, AllocInv, TypeOK
  <1>2. /\ MemInv' /\ UNCHANGED <<step, usable_regions, reserved_regions>>
        /\ usable_pages' = usable_pages
    BY <1>1, MemInvStays, TablesStay
  <1>3. ArraysAgree /\ step = "ready"
    BY <1>1, InvAgrees
  <1>4. ArraysAgree' /\ free_pages' = free_pages /\ flagged' = flagged
    BY <1>1, <1>3 DEF ArraysAgree, free_pages, flagged
  <1>5. TypeOK'
    BY <1>1, <1>2, <1>4 DEF TypeOK, MemInv, ArraysAgree, AllocInv
  <1>6. FlaggedSoFar'
    <2>1. \A k \in DOMAIN reserved_regions : k < region
      BY <1>1 DEF AllocInv, MemInv, MemTypeOK
    <2> QED
      BY <1>1, <1>2, <1>4, <2>1 DEF AllocInv, FlaggedSoFar, pages_of
  <1> QED
    BY <1>1, <1>2, <1>3, <1>4, <1>5, <1>6
    DEF AllocInv, NoMapNoRegions, memVars, ArraysAgree, TablesReady, NothingLiveYet, BitmapMatchesMetadata,
        Exclusive, FreedSoFar, UsableReachable

-----------------------------------------------------------------------------
(***************************************************************************)
(* The running allocator.                                                  *)
(***************************************************************************)

\* Whatever a call of the running allocator does, it keeps the invariant if
\* it keeps the arrays in agreement and the flags, keeps free and live pages
\* apart and loses no usable page.
LEMMA RunningKeeps ==
    ASSUME AllocInv, phase = "running", bootStutter,
           ArraysAgree', flagged' = flagged,
           live' \in SUBSET PageIndex,
           live' \cap free_pages' = {},
           flagged \cap (free_pages' \cup live') = {},
           usable_pages \ flagged \subseteq free_pages' \cup live'
    PROVE  AllocInv'
  <1>1. /\ UNCHANGED memVars /\ phase' = "running" /\ region' = region
        /\ step' = "ready"
    BY InvAgrees DEF bootStutter, memVars
  <1>2. /\ MemInv' /\ UNCHANGED <<step, usable_regions, reserved_regions>>
        /\ usable_pages' = usable_pages
    BY <1>1, MemInvStays, TablesStay
  <1>3. TypeOK'
    BY <1>1, <1>2 DEF TypeOK, MemInv, ArraysAgree, AllocInv
  <1>4. FlaggedSoFar'
    BY <1>1, <1>2 DEF AllocInv, FlaggedSoFar, pages_of
  <1>5. UsableReachable'
    BY <1>1, <1>2 DEF UsableReachable
  <1>6. NoMapNoRegions'
    BY <1>1, <1>2 DEF AllocInv, NoMapNoRegions, memVars
  <1> QED
    BY <1>1, <1>2, <1>3, <1>4, <1>5, <1>6
    DEF AllocInv, ArraysAgree, TablesReady, NothingLiveYet, BitmapMatchesMetadata,
        Exclusive, FreedSoFar

\* A call that fails or frees nothing.
LEMMA UnchangedKeeps ==
    ASSUME AllocInv, phase = "running", bootStutter,
           UNCHANGED <<page_bitmap, page_metadata, live>>
    PROVE  AllocInv'
  <1>1. ArraysAgree /\ live \in SUBSET PageIndex
    BY InvAgrees
  <1>2. ArraysAgree' /\ free_pages' = free_pages /\ flagged' = flagged
    BY <1>1 DEF ArraysAgree, free_pages, flagged
  <1> QED
    BY <1>1, <1>2, RunningKeeps DEF AllocInv, Exclusive, UsableReachable

\* With a map, page 0 is flagged from the end of initialize on.
LEMMA PageZeroFlagged ==
    ASSUME AllocInv, phase = "running", memory_map # NoMap
    PROVE  0 \in flagged
  <1>1. PICK k \in DOMAIN Reservations : Reservations[k] = <<0, MIN_ALLOCATABLE_ADDRESS>>
    BY PhysicalMemoryAssumption DEF Range
  <1>2. /\ Reservations[k][1] = 0 /\ Reservations[k][2] = MIN_ALLOCATABLE_ADDRESS
        /\ 0 < MIN_ALLOCATABLE_ADDRESS
    BY <1>1, PhysicalMemoryAssumption, PagesAssumption DEF Address
  <1>3. PICK j \in DOMAIN reserved_regions :
           Within([start |-> 0, end |-> MIN_ALLOCATABLE_ADDRESS], reserved_regions[j])
    BY <1>2, InvAgrees DEF AllocInv, MemInv, EveryReservationKept
  <1>4. reserved_regions[j] \in Region
    BY DEF AllocInv, MemInv, MemTypeOK
  <1>5. 0 \in PageIndex /\ 0 * PAGE_SIZE = 0
    BY PageAllocatorAssumption, PagesAssumption DEF PageIndex
  <1>6. 0 \in pages_of(reserved_regions[j])
    <2>1. /\ reserved_regions[j].start \in Nat /\ reserved_regions[j].end \in Nat
          /\ reserved_regions[j].start <= 0
          /\ MIN_ALLOCATABLE_ADDRESS <= reserved_regions[j].end
      BY <1>3, <1>4, PagesAssumption DEF Within, Region, Address
    <2>2. MIN_ALLOCATABLE_ADDRESS \in Nat
      BY PhysicalMemoryAssumption DEF Address
    <2>3. 0 < reserved_regions[j].end /\ 0 \in 0 .. reserved_regions[j].end
      BY <1>2, <2>1, <2>2
    <2>4. 0 \in region_pages(reserved_regions[j])
      BY <1>5, <2>1, <2>3 DEF region_pages
    <2> QED
      BY <1>5, <2>4 DEF pages_of, tracked
  <1> QED
    BY <1>5, <1>6 DEF AllocInv, FlaggedSoFar

\* allocate_page and allocate_contiguous_pages.
LEMMA AllocateKeeps ==
    ASSUME AllocInv, phase = "running", bootStutter,
           NEW n \in Nat, NEW address, allocate(n, address)
    PROVE  AllocInv'
  <1>1. ArraysAgree /\ live \in SUBSET PageIndex
    BY InvAgrees
  <1>2. CASE UNCHANGED <<page_bitmap, page_metadata, live>>
    BY <1>2, UnchangedKeeps
  <1>3. CASE \E P \in SUBSET free_pages :
                mark_used(P) /\ (live' = live \cup P \/ (live' = live /\ 0 \in P))
    <2>1. PICK P \in SUBSET free_pages :
             mark_used(P) /\ (live' = live \cup P \/ (live' = live /\ 0 \in P))
      BY <1>3
    <2>2. P \in SUBSET PageIndex
      BY DEF free_pages
    <2>3. ArraysAgree' /\ free_pages' = free_pages \ P /\ flagged' = flagged
      BY <1>1, <2>1, <2>2, MarkUsedEffect
    <2>4. /\ live' \in SUBSET PageIndex
          /\ live' \cap free_pages' = {}
          /\ flagged \cap (free_pages' \cup live') = {}
      BY <1>1, <2>1, <2>2, <2>3 DEF AllocInv, Exclusive
    <2>5. usable_pages \ flagged \subseteq free_pages' \cup live'
      <3>1. CASE live' = live \cup P
        BY <2>3, <3>1 DEF AllocInv, UsableReachable
      <3>2. CASE 0 \in P
        <4>1. memory_map = NoMap
          BY <3>2, PageZeroFlagged DEF AllocInv, Exclusive
        <4>2. usable_pages = {}
          BY <4>1 DEF AllocInv, NoMapNoRegions, usable_pages
        <4> QED
          BY <4>2
      <3> QED
        BY <2>1, <3>1, <3>2
    <2> QED
      BY <2>3, <2>4, <2>5, RunningKeeps
  <1> QED
    BY <1>2, <1>3, AllocateEffect

\* free_page and free_contiguous_pages: only pages that are not flagged go,
\* and they leave live as they become free.
LEMMA FreeKeeps ==
    ASSUME AllocInv, phase = "running", bootStutter,
           NEW P \in SUBSET PageIndex, mark_free(P), live' = live \ clearable(P)
    PROVE  AllocInv'
  <1>1. ArraysAgree /\ live \in SUBSET PageIndex
    BY InvAgrees
  <1>2. /\ ArraysAgree' /\ flagged' = flagged
        /\ clearable(P) = (P \ flagged) \ free_pages
        /\ free_pages' = free_pages \cup (P \ flagged)
    BY <1>1, MarkFreeEffect
  <1>3. /\ live' \in SUBSET PageIndex
        /\ live' \cap free_pages' = {}
        /\ flagged \cap (free_pages' \cup live') = {}
        /\ usable_pages \ flagged \subseteq free_pages' \cup live'
    BY <1>1, <1>2 DEF AllocInv, Exclusive, UsableReachable
  <1> QED
    BY <1>2, <1>3, RunningKeeps

-----------------------------------------------------------------------------
(***************************************************************************)
(* Theorems.                                                               *)
(***************************************************************************)

\* Every step keeps the invariant.
LEMMA AllocInvStep == AllocInv /\ [Next]_vars => AllocInv'
  <1> SUFFICES ASSUME AllocInv, [Next]_vars PROVE AllocInv'
    OBVIOUS
  <1>1. CASE UNCHANGED vars
    <2>1. UNCHANGED memVars /\ UNCHANGED allocVars
      BY <1>1 DEF vars
    <2>2. /\ MemInv' /\ usable_pages' = usable_pages
          /\ UNCHANGED <<memory_map, step, usable_regions, reserved_regions>>
      BY <2>1, MemInvStays, TablesStay
    <2>3. /\ UNCHANGED <<phase, region, page_bitmap, page_metadata, live>>
          /\ free_pages' = free_pages /\ flagged' = flagged
      BY <2>1 DEF allocVars, free_pages, flagged
    <2>4. TypeOK'
      BY <2>2, <2>3 DEF AllocInv, TypeOK, MemInv
    <2> QED
      BY <2>2, <2>3, <2>4
      DEF AllocInv, NoMapNoRegions, TablesReady, NothingLiveYet,
          BitmapMatchesMetadata, Exclusive, FreedSoFar, FlaggedSoFar,
          UsableReachable, pages_of
  <1>2. CASE Boot
    BY <1>2, MemoryStepKeeps, MarkAllUsedKeeps, MarkRegionFreeKeeps,
       AllUsableMarkedKeeps, MarkRegionUsedKeeps, AllReservedMarkedKeeps DEF Boot
  <1>3. CASE AllocatePage
    BY <1>3, AllocateKeeps DEF AllocatePage, allocate_page
  <1>4. CASE \E n \in PageCounts : AllocateContiguousPages(n)
    <2>1. PageCounts \subseteq Nat
      BY PageAllocatorAssumption DEF PageCounts
    <2> QED
      BY <1>4, <2>1, AllocateKeeps
      DEF AllocateContiguousPages, allocate_contiguous_pages
  <1>5. CASE \E a \in Address : FreePage(a)
    <2>1. PICK a \in Address : FreePage(a)
      BY <1>5
    <2>2. free({a}) /\ {a} \in SUBSET Address /\ phase = "running" /\ bootStutter
      BY <2>1 DEF FreePage, free_page
    <2> QED
      BY <2>2, FreeEffect, FreeKeeps
  <1>6. CASE \E a \in Address, n \in PageCounts : FreeContiguousPages(a, n)
    BY <1>6, FreeContiguousEffect, FreeKeeps, UnchangedKeeps DEF FreeContiguousPages
  <1> QED
    BY <1>1, <1>2, <1>3, <1>4, <1>5, <1>6 DEF Next

(***************************************************************************)
(* The invariant of the allocator, for every map, every number of pages    *)
(* and every caller.                                                       *)
(***************************************************************************)
THEOREM AllocInvariant == Spec => []AllocInv
  BY AllocInvInit, AllocInvStep, PTL DEF Spec

\* No page outside the two arrays is ever written, and no table grows beyond
\* its capacity: usable RAM may reach beyond the tracked pages, callers may
\* free any address, and mark_region_used flags what it is given unchecked.
THEOREM TypeCorrect == Spec => []TypeOK
  <1>1. AllocInv => TypeOK
    BY DEF AllocInv
  <1> QED
    BY <1>1, AllocInvariant, PTL

\* The bitmap and the metadata agree on every page from the moment both are
\* filled.
THEOREM BitmapAlwaysMatches == Spec => []BitmapMatchesMetadata
  <1>1. AllocInv => BitmapMatchesMetadata
    BY DEF AllocInv
  <1> QED
    BY <1>1, AllocInvariant, PTL

\* No page of a reserved region is ever free or handed out, whatever callers
\* free, and the flags are exactly the pages of the reserved regions.
THEOREM ReservedPagesStayReserved == Spec => []ReservedNeverFree
  <1>1. AllocInv => ReservedNeverFree
    <2> SUFFICES ASSUME AllocInv, phase = "running"
                 PROVE  /\ reserved_pages \cap (free_pages \cup live) = {}
                        /\ \A p \in PageIndex :
                              page_metadata[p].reserved <=> p \in reserved_pages
      BY DEF ReservedNeverFree
    <2>1. \A p \in PageIndex : p \in flagged <=> p \in reserved_pages
      BY DEF AllocInv, FlaggedSoFar, reserved_pages
    <2>2. reserved_pages \subseteq PageIndex
      BY DEF reserved_pages, pages_of, tracked
    <2>3. reserved_pages = flagged
      BY <2>1, <2>2 DEF flagged
    <2> QED
      BY <2>3 DEF AllocInv, Exclusive, flagged
  <1> QED
    BY <1>1, AllocInvariant, PTL

\* No usable page is lost and none is handed out twice.
THEOREM PagesAreAccountedFor == Spec => []PagesAccountedFor
  <1>1. AllocInv => PagesAccountedFor
    <2> SUFFICES ASSUME AllocInv, phase = "running"
                 PROVE  /\ usable_pages \ reserved_pages \subseteq free_pages \cup live
                        /\ live \cap free_pages = {}
      BY DEF PagesAccountedFor
    <2>1. flagged \subseteq reserved_pages
      BY DEF AllocInv, FlaggedSoFar, reserved_pages, flagged
    <2> QED
      BY <2>1 DEF AllocInv, Exclusive, UsableReachable
  <1> QED
    BY <1>1, AllocInvariant, PTL

\* With a map from the firmware the address 0 always means failure.
THEOREM PageZeroIsNeverAllocated == Spec => []PageZeroNeverAllocated
  <1>1. AllocInv => PageZeroNeverAllocated
    BY PageZeroFlagged DEF AllocInv, Exclusive, PageZeroNeverAllocated
  <1> QED
    BY <1>1, AllocInvariant, PTL

=============================================================================
