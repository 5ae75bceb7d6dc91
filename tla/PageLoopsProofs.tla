--------------------------- MODULE PageLoopsProofs ---------------------------
(***************************************************************************)
(* PageLoops implements PageAllocator: what the theorems about the         *)
(* allocator say of calls on sets of pages holds of the loops on bytes and *)
(* bits, for every number of pages and of bits in a byte.                  *)
(***************************************************************************)
EXTENDS PageLoops, PhysicalMemoryProofs

-----------------------------------------------------------------------------
(***************************************************************************)
(* The inductive invariant.                                                *)
(***************************************************************************)

\* The values of loop.
Loops == {"memory", "bytes", "metadata", "free_regions", "use_regions",
          "none", "search", "count", "mark", "free"}

PageMetadata == [allocated: BOOLEAN, reserved: BOOLEAN]

ArraysOK ==
    /\ page_bitmap \in [0 .. (BITMAP_SIZE_BYTES - 1) -> [0 .. (BITS - 1) -> BOOLEAN]]
    /\ page_metadata \in [PageIndex -> PageMetadata]

CommittedOK ==
    /\ committed = [bitmap |-> committed.bitmap, metadata |-> committed.metadata,
                    live |-> committed.live]
    /\ committed.bitmap \in [PageIndex -> BOOLEAN]
    /\ committed.metadata \in [PageIndex -> PageMetadata]

LoopsTypeOK ==
    /\ loop \in Loops
    /\ n \in Nat /\ page_count \in Nat /\ run_start \in Nat /\ run_length \in Nat
    /\ region \in Nat \ {0}
    /\ ArraysOK
    /\ CommittedOK

\* The region tables consist of whole pages.
WholePages(regions) ==
    \A k \in DOMAIN regions :
       /\ is_page_aligned(regions[k].start) /\ is_page_aligned(regions[k].end)
       /\ regions[k].start <= regions[k].end

(***************************************************************************)
(* What a loop has done to the arrays since the last step of PageAllocator *)
(* when it has passed the pages of a set: nothing, or what PageAllocator   *)
(* does to such a set at once.                                             *)
(***************************************************************************)
Untouched ==
    \A p \in PageIndex : /\ bit(p) <=> committed.bitmap[p]
                         /\ page_metadata[p] = committed.metadata[p]

MarkedUsed(pages) ==
    \A p \in PageIndex :
       /\ bit(p) <=> p \in pages \/ committed.bitmap[p]
       /\ page_metadata[p].allocated <=> p \in pages \/ committed.metadata[p].allocated
       /\ page_metadata[p].reserved <=> committed.metadata[p].reserved

MarkedReserved(pages) ==
    \A p \in PageIndex :
       /\ bit(p) <=> p \in pages \/ committed.bitmap[p]
       /\ page_metadata[p].allocated <=> p \in pages \/ committed.metadata[p].allocated
       /\ page_metadata[p].reserved <=> p \in pages \/ committed.metadata[p].reserved

\* The tracked pages among them that were allocated and not reserved.
cleared(pages) ==
    {p \in pages \cap PageIndex :
                   /\ ~ committed.metadata[p].reserved
                   /\ committed.metadata[p].allocated}

MarkedFree(pages) ==
    \A p \in PageIndex :
       /\ bit(p) <=> committed.bitmap[p] /\ p \notin cleared(pages)
       /\ page_metadata[p].allocated <=>
             committed.metadata[p].allocated /\ p \notin cleared(pages)
       /\ page_metadata[p].reserved <=> committed.metadata[p].reserved

-----------------------------------------------------------------------------
(***************************************************************************)
(* Each loop.                                                              *)
(***************************************************************************)

FillInv ==
    /\ loop = "bytes" =>
          /\ step = "ready"
          /\ \A b \in 0 .. (BITMAP_SIZE_BYTES - 1), k \in 0 .. (BITS - 1) :
                b < n => page_bitmap[b][k]
    /\ loop = "metadata" =>
          /\ step = "ready"
          /\ \A p \in PageIndex : bit(p)
          /\ \A p \in PageIndex :
                p < n => page_metadata[p] = [allocated |-> TRUE, reserved |-> FALSE]

\* The pages of the current region that its loop has passed.
passed(regions) ==
    {p \in PageIndex : /\ region <= Len(regions)
                       /\ regions[region].start <= p * PAGE_SIZE
                       /\ p * PAGE_SIZE < regions[region].start + n}

InRegion(regions) ==
    region <= Len(regions) =>
        is_page_aligned(n) /\ regions[region].start + n <= regions[region].end

RegionInv ==
    /\ loop = "free_regions" => /\ InRegion(usable_regions)
                                /\ MarkedFree(passed(usable_regions))
    /\ loop = "use_regions" => /\ InRegion(reserved_regions)
                               /\ MarkedReserved(passed(reserved_regions))

\* Between two calls a search would start at page 0.
SearchInv ==
    /\ loop \in {"memory", "none", "search", "count"} => Untouched
    /\ loop = "none" => n = 0 /\ page_count = 0 /\ run_start = 0 /\ run_length = 0
    /\ loop = "search" => n <= TOTAL_PAGES /\ \A p \in PageIndex : p < n => bit(p)

\* The run that is being counted ends at page n - 1 and is as long as it can
\* be, and no run before page n is long enough.
CountInv ==
    loop = "count" =>
        /\ page_count <= TOTAL_PAGES + 1
        /\ n <= TOTAL_PAGES /\ run_length < page_count /\ run_length <= n
        /\ \A p \in (n - run_length) .. (n - 1) : ~ bit(p)
        /\ run_length < n => bit(n - run_length - 1)
        /\ run_length # 0 => run_start = (n - run_length) * PAGE_SIZE
        /\ \A first \in Nat : first + page_count <= n =>
              \E p \in first .. (first + page_count - 1) : bit(p)

\* A run of count pages that were free.
free_run(p, count) ==
    /\ p + count <= TOTAL_PAGES
    /\ \A q \in p .. (p + count - 1) : ~ committed.bitmap[q]

\* The run found is the lowest of them, and its first n pages are marked.
run_first == page_index(run_start)

MarkInv ==
    loop = "mark" =>
        /\ n <= page_count /\ page_count # 0
        /\ run_start = run_first * PAGE_SIZE
        /\ run_first \in PageIndex /\ free_run(run_first, page_count)
        /\ \A p \in PageIndex : free_run(p, page_count) => run_first <= p
        /\ MarkedUsed(run_first .. (run_first + n - 1))

\* The pages that free_page hands to mark_page_free for the addresses of a
\* set, and those for the first count addresses of the run.
pages_freed(addresses) ==
    {page_index(a) : a \in {b \in addresses : may_free(b)}}

run_addresses(start, count) == {add_u64(start, PAGE_SIZE * k) : k \in 0 .. (count - 1)}

given_back(count) == pages_freed(run_addresses(run_start, count))

FreeInv ==
    IF loop = "free"
    THEN /\ n <= page_count /\ page_count # 0 /\ page_count <= TOTAL_PAGES + 1
         /\ run_start < U64 /\ is_page_aligned(run_start)
         /\ MarkedFree(given_back(n))
         /\ live = committed.live \ cleared(given_back(n))
    ELSE live = committed.live

LoopsInv ==
    /\ LoopsTypeOK
    /\ MemInv
    /\ WholePages(reserved_regions)
    /\ FillInv
    /\ RegionInv
    /\ SearchInv
    /\ CountInv
    /\ MarkInv
    /\ FreeInv

-----------------------------------------------------------------------------
(***************************************************************************)
(* What PageAllocator has of the modules below it is what is here.         *)
(***************************************************************************)

LEMMA SameTables ==
    /\ Abstract!MemInit <=> MemInit
    /\ Abstract!MemNext <=> MemNext
    /\ Abstract!memVars = memVars
  <1>1. Abstract!MemInit <=> MemInit
    BY DEF Abstract!MemInit, MemInit
  <1>2. Abstract!memVars = memVars
    BY DEF Abstract!memVars, memVars
  <1>3. /\ \A e : Abstract!skipped(e) <=> skipped(e)
        /\ \A e : Abstract!usable_region(e) = usable_region(e)
        /\ Abstract!usable_table_full <=> usable_table_full
    BY DEF Abstract!skipped, skipped, Abstract!region_end, region_end, Abstract!add_u64, add_u64,
           Abstract!usable_region, usable_region, Abstract!clipped_start, clipped_start,
           Abstract!align_page_up, align_page_up, Abstract!align_page_down, align_page_down,
           Abstract!is_page_aligned, is_page_aligned,
           Abstract!usable_table_full, usable_table_full
  <1>4. /\ \A r : Abstract!reserved_region(r) = reserved_region(r)
        /\ Abstract!reserved_table_full <=> reserved_table_full
    BY DEF Abstract!reserved_region, reserved_region, Abstract!add_u64, add_u64,
           Abstract!align_page_up, align_page_up, Abstract!align_page_down, align_page_down,
           Abstract!is_page_aligned, is_page_aligned,
           Abstract!reserved_table_full, reserved_table_full
  <1>5. /\ Abstract!SkipEntry <=> SkipEntry
        /\ Abstract!AddRegion <=> AddRegion
        /\ Abstract!EndScan <=> EndScan
    BY <1>3 DEF Abstract!SkipEntry, SkipEntry, Abstract!AddRegion, AddRegion,
                Abstract!EndScan, EndScan, Abstract!Scanning, Scanning
  <1>6. Abstract!reserve_region <=> reserve_region
    BY <1>4 DEF Abstract!reserve_region, reserve_region
  <1>7. /\ Abstract!NoBootInfo <=> NoBootInfo
        /\ Abstract!EndInitialize <=> EndInitialize
    BY DEF Abstract!NoBootInfo, NoBootInfo, Abstract!EndInitialize, EndInitialize
  <1> QED
    BY <1>1, <1>2, <1>5, <1>6, <1>7 DEF Abstract!MemNext, MemNext

LEMMA SamePages ==
    /\ Abstract!PageIndex = PageIndex
    /\ Abstract!MAX_PHYSICAL_MEMORY = MAX_PHYSICAL_MEMORY
    /\ Abstract!Address = Address
    /\ \A a, b : Abstract!add_u64(a, b) = add_u64(a, b)
    /\ \A a : Abstract!is_page_aligned(a) <=> is_page_aligned(a)
    /\ \A pages : Abstract!clearable(pages) = cleared(pages)
    /\ \A a : Abstract!owns_page(a) /\ ~ Abstract!is_reserved_page(a) <=> may_free(a)
    /\ \A S : Abstract!Min(S) = CHOOSE x \in S : \A y \in S : x <= y
  BY DEF Abstract!PageIndex, PageIndex, Abstract!MAX_PHYSICAL_MEMORY, MAX_PHYSICAL_MEMORY,
         Abstract!Address, Address, Abstract!add_u64, add_u64,
         Abstract!is_page_aligned, is_page_aligned, Abstract!clearable, Abstract!tracked, cleared,
         Abstract!owns_page, Abstract!is_reserved_page, may_free, is_reserved_page,
         Abstract!Min

-----------------------------------------------------------------------------
(***************************************************************************)
(* Pages and addresses, bits and bytes.                                    *)
(***************************************************************************)

LEMMA Sizes ==
    /\ TOTAL_PAGES \in Nat \ {0} /\ BITS \in Nat \ {0} /\ PAGE_SIZE \in Nat \ {0}
    /\ U64 \in Nat /\ BITMAP_SIZE_BYTES \in Nat
    /\ TOTAL_PAGES = BITS * BITMAP_SIZE_BYTES
    /\ MAX_PHYSICAL_MEMORY = TOTAL_PAGES * PAGE_SIZE
    /\ MAX_PHYSICAL_MEMORY \in Nat /\ MAX_PHYSICAL_MEMORY <= U64
    /\ PageIndex = 0 .. (TOTAL_PAGES - 1)
  BY PageLoopsAssumption, RamFits DEF BITMAP_SIZE_BYTES, MAX_PHYSICAL_MEMORY, PageIndex

\* A number is its quotient and its remainder.
LEMMA QuotientRemainder ==
    ASSUME NEW d \in Nat \ {0}, NEW q \in Nat, NEW r \in 0 .. (d - 1)
    PROVE  (d * q + r) \div d = q /\ (d * q + r) % d = r
  <1> DEFINE a == d * q + r
             x == a \div d
             y == a % d
  <1>1. a \in Nat /\ d * q \in Nat
    OBVIOUS
  <1>2. x \in Nat /\ y \in 0 .. (d - 1) /\ a = d * x + y
    BY <1>1
  <1>3. a = d * q + r
    OBVIOUS
  <1> HIDE DEF a, x, y
  <1>4. CASE x < q
    <2>1. d * (x + 1) <= d * q
      <3>1. x + 1 <= q
        BY <1>2, <1>4
      <3>2. \A u, v \in Nat : u <= v => d * u <= d * v
        OBVIOUS
      <3> QED
        BY <1>2, <3>1, <3>2
    <2> QED
      BY <1>2, <1>3, <2>1
  <1>5. CASE q < x
    <2>1. d * (q + 1) <= d * x
      <3>1. q + 1 <= x
        BY <1>2, <1>5
      <3>2. \A u, v \in Nat : u <= v => d * u <= d * v
        OBVIOUS
      <3> QED
        BY <1>2, <3>1, <3>2
    <2> QED
      BY <1>2, <1>3, <2>1
  <1>6. CASE x = q
    BY <1>2, <1>3, <1>6
  <1>7. x = q /\ y = r
    BY <1>2, <1>3, <1>4, <1>5, <1>6
  <1> QED
    BY <1>7 DEF a, x, y

\* The byte and the bit of a page are there, and are those of no other page.
LEMMA BitOfPage ==
    ASSUME NEW p \in Nat
    PROVE  /\ p \div BITS \in Nat /\ p % BITS \in 0 .. (BITS - 1)
           /\ p \in PageIndex <=> p \div BITS \in 0 .. (BITMAP_SIZE_BYTES - 1)
           /\ \A q \in Nat : p \div BITS = q \div BITS /\ p % BITS = q % BITS => p = q
  <1>1. \A q \in Nat : /\ q \div BITS \in Nat /\ q % BITS \in 0 .. (BITS - 1)
                       /\ q = BITS * (q \div BITS) + (q % BITS)
    BY Sizes
  <1> DEFINE b == p \div BITS
             k == p % BITS
  <1>2. b \in Nat /\ k \in 0 .. (BITS - 1) /\ p = BITS * b + k
    BY <1>1
  <1> HIDE DEF b, k
  <1>3. ASSUME p < TOTAL_PAGES
        PROVE  b < BITMAP_SIZE_BYTES
    <2> SUFFICES ASSUME BITMAP_SIZE_BYTES <= b PROVE FALSE
      BY <1>2, Sizes
    <2>1. BITS * BITMAP_SIZE_BYTES <= BITS * b
      BY <1>2, Sizes
    <2> QED
      BY <1>2, <1>3, <2>1, Sizes
  <1>4. ASSUME b < BITMAP_SIZE_BYTES
        PROVE  p < TOTAL_PAGES
    <2>1. BITS * (b + 1) <= BITS * BITMAP_SIZE_BYTES
      <3>1. b + 1 <= BITMAP_SIZE_BYTES
        BY <1>2, <1>4, Sizes
      <3> QED
        BY <1>2, <3>1, Sizes
    <2> QED
      BY <1>2, <2>1, Sizes
  <1>5. p \in PageIndex <=> b \in 0 .. (BITMAP_SIZE_BYTES - 1)
    BY <1>2, <1>3, <1>4, Sizes
  <1> QED
    BY <1>1, <1>2, <1>5 DEF b, k

\* The address of a page, and the page of an address.
LEMMA PageOfAddress ==
    /\ \A p \in Nat : /\ p * PAGE_SIZE \in Nat
                      /\ page_index(p * PAGE_SIZE) = p
                      /\ is_page_aligned(p * PAGE_SIZE)
    /\ \A a \in Nat : /\ page_index(a) \in Nat
                      /\ is_page_aligned(a) <=> a = page_index(a) * PAGE_SIZE
    /\ \A a \in Nat : page_index(a) \in PageIndex <=> a < MAX_PHYSICAL_MEMORY
  <1>1. ASSUME NEW p \in Nat
        PROVE  /\ p * PAGE_SIZE \in Nat
               /\ page_index(p * PAGE_SIZE) = p
               /\ is_page_aligned(p * PAGE_SIZE)
    <2>1. p * PAGE_SIZE = PAGE_SIZE * p + 0 /\ 0 \in 0 .. (PAGE_SIZE - 1)
      BY Sizes
    <2>2. (PAGE_SIZE * p + 0) \div PAGE_SIZE = p /\ (PAGE_SIZE * p + 0) % PAGE_SIZE = 0
      BY <2>1, QuotientRemainder, Sizes
    <2> QED
      BY <2>1, <2>2, Sizes DEF page_index, is_page_aligned
  <1>2. ASSUME NEW a \in Nat
        PROVE  /\ page_index(a) \in Nat
               /\ is_page_aligned(a) <=> a = page_index(a) * PAGE_SIZE
               /\ page_index(a) \in PageIndex <=> a < MAX_PHYSICAL_MEMORY
    <2> DEFINE q == a \div PAGE_SIZE
               r == a % PAGE_SIZE
    <2>1. q \in Nat /\ r \in 0 .. (PAGE_SIZE - 1) /\ a = PAGE_SIZE * q + r
      BY PageDivision
    <2>2. page_index(a) = q /\ (is_page_aligned(a) <=> r = 0)
      BY DEF page_index, is_page_aligned
    <2> HIDE DEF q, r
    <2>3. is_page_aligned(a) <=> a = q * PAGE_SIZE
      BY <2>1, <2>2, Sizes
    <2>4. q < TOTAL_PAGES => a < MAX_PHYSICAL_MEMORY
      <3> SUFFICES ASSUME q + 1 <= TOTAL_PAGES PROVE a < MAX_PHYSICAL_MEMORY
        BY <2>1, Sizes
      <3>1. PAGE_SIZE * (q + 1) <= PAGE_SIZE * TOTAL_PAGES
        BY <2>1, Sizes
      <3> QED
        BY <2>1, <3>1, Sizes
    <2>5. TOTAL_PAGES <= q => ~ (a < MAX_PHYSICAL_MEMORY)
      <3> SUFFICES ASSUME TOTAL_PAGES <= q PROVE MAX_PHYSICAL_MEMORY <= a
        BY <2>1, Sizes
      <3>1. PAGE_SIZE * TOTAL_PAGES <= PAGE_SIZE * q
        BY <2>1, Sizes
      <3> QED
        BY <2>1, <3>1, Sizes
    <2> QED
      BY <2>1, <2>2, <2>3, <2>4, <2>5, Sizes
  <1> QED
    BY <1>1, <1>2


-----------------------------------------------------------------------------
(***************************************************************************)
(* Marking one page more.                                                  *)
(***************************************************************************)

\* Writing a bit changes no other; beyond the bitmap there is none.
LEMMA BitWritten ==
    ASSUME LoopsTypeOK, NEW index \in Nat, NEW set \in BOOLEAN,
           page_bitmap' = with_bit(index, set)
    PROVE  /\ page_bitmap' \in [0 .. (BITMAP_SIZE_BYTES - 1) -> [0 .. (BITS - 1) -> BOOLEAN]]
           /\ \A p \in PageIndex : bit(p)' <=> IF p = index THEN set ELSE bit(p)
  <1> DEFINE b == index \div BITS
             k == index % BITS
             Byte == [0 .. (BITS - 1) -> BOOLEAN]
  <1>1. b \in Nat /\ k \in 0 .. (BITS - 1)
    BY BitOfPage
  <1>2. page_bitmap \in [0 .. (BITMAP_SIZE_BYTES - 1) -> Byte]
    BY DEF LoopsTypeOK, ArraysOK
  <1>3. page_bitmap' = [page_bitmap EXCEPT ![b][k] = set]
    BY DEF with_bit
  <1>4. ASSUME NEW p \in PageIndex
        PROVE  bit(p)' <=> IF p = index THEN set ELSE bit(p)
    <2> DEFINE c == p \div BITS
               j == p % BITS
    <2>1. /\ c \in 0 .. (BITMAP_SIZE_BYTES - 1) /\ j \in 0 .. (BITS - 1)
          /\ p = index <=> c = b /\ j = k
      <3>1. p \in Nat
        BY Sizes
      <3>2. c = b /\ j = k => p = index
        BY <3>1, BitOfPage
      <3>3. c \in 0 .. (BITMAP_SIZE_BYTES - 1) /\ j \in 0 .. (BITS - 1)
        BY <3>1, BitOfPage
      <3> QED
        BY <3>2, <3>3
    <2>2. bit(p) = page_bitmap[c][j] /\ bit(p)' = page_bitmap'[c][j]
      BY DEF bit
    <2> HIDE DEF b, k, c, j
    <2>3. CASE c = b /\ j = k
      BY <1>1, <1>2, <1>3, <2>1, <2>2, <2>3
    <2>4. CASE c = b /\ j # k
      BY <1>1, <1>2, <1>3, <2>1, <2>2, <2>4
    <2>5. CASE c # b
      BY <1>1, <1>2, <1>3, <2>1, <2>2, <2>5
    <2> QED
      BY <2>3, <2>4, <2>5
  <1> HIDE DEF b, k
  <1>5. page_bitmap' \in [0 .. (BITMAP_SIZE_BYTES - 1) -> Byte]
    <2>1. ASSUME NEW byte \in Byte
          PROVE  [byte EXCEPT ![k] = set] \in Byte
      OBVIOUS
    <2> HIDE DEF Byte
    <2>2. CASE b \in 0 .. (BITMAP_SIZE_BYTES - 1)
      BY <1>2, <1>3, <2>1, <2>2
    <2>3. CASE b \notin 0 .. (BITMAP_SIZE_BYTES - 1)
      BY <1>2, <1>3, <2>3
    <2> QED
      BY <2>2, <2>3
  <1> QED
    BY <1>4, <1>5

\* What a step makes of the arrays, when it has marked a set of pages since
\* the last step of PageAllocator.
MarksUsed(pages) ==
    \A p \in PageIndex :
       /\ bit(p)' <=> p \in pages \/ committed.bitmap[p]
       /\ page_metadata'[p].allocated <=> p \in pages \/ committed.metadata[p].allocated
       /\ page_metadata'[p].reserved <=> committed.metadata[p].reserved

MarksReserved(pages) ==
    \A p \in PageIndex :
       /\ bit(p)' <=> p \in pages \/ committed.bitmap[p]
       /\ page_metadata'[p].allocated <=> p \in pages \/ committed.metadata[p].allocated
       /\ page_metadata'[p].reserved <=> p \in pages \/ committed.metadata[p].reserved

MarksFree(pages) ==
    \A p \in PageIndex :
       /\ bit(p)' <=> committed.bitmap[p] /\ p \notin cleared(pages)
       /\ page_metadata'[p].allocated <=>
             committed.metadata[p].allocated /\ p \notin cleared(pages)
       /\ page_metadata'[p].reserved <=> committed.metadata[p].reserved

LEMMA UsedMarked ==
    ASSUME LoopsTypeOK, NEW address \in Nat, mark_page_used(address),
           NEW pages, MarkedUsed(pages)
    PROVE  ArraysOK' /\ MarksUsed(pages \cup {page_index(address)})
  <1> DEFINE index == page_index(address)
  <1>1. index \in Nat
    BY PageOfAddress
  <1>2. CASE index >= TOTAL_PAGES
    <2>1. index \notin PageIndex /\ UNCHANGED arrays
      BY <1>1, <1>2, Sizes DEF mark_page_used
    <2> QED
      BY <2>1 DEF arrays, ArraysOK, LoopsTypeOK, MarkedUsed, MarksUsed, bit
  <1>3. CASE ~ (index >= TOTAL_PAGES)
    <2>1. /\ page_bitmap' = with_bit(index, TRUE)
          /\ page_metadata' = [page_metadata EXCEPT ![index].allocated = TRUE]
          /\ index \in PageIndex
      BY <1>1, <1>3, Sizes DEF mark_page_used
    <2> HIDE DEF index
    <2>2. /\ page_metadata' \in [PageIndex -> PageMetadata]
          /\ \A p \in PageIndex :
                /\ page_metadata'[p].allocated <=> p = index \/ page_metadata[p].allocated
                /\ page_metadata'[p].reserved <=> page_metadata[p].reserved
      BY <2>1 DEF LoopsTypeOK, ArraysOK, PageMetadata
    <2>3. ArraysOK' /\ \A p \in PageIndex : bit(p)' <=> p = index \/ bit(p)
      BY <1>1, <2>1, <2>2, BitWritten DEF ArraysOK
    <2> QED
      BY <2>2, <2>3 DEF MarkedUsed, MarksUsed, index
  <1> QED
    BY <1>2, <1>3

LEMMA ReservedMarked ==
    ASSUME LoopsTypeOK, NEW index \in Nat,
           page_bitmap' = with_bit(index, TRUE),
           page_metadata' = [page_metadata EXCEPT ![index] =
                                [allocated |-> TRUE, reserved |-> TRUE]],
           NEW pages, MarkedReserved(pages)
    PROVE  ArraysOK' /\ MarksReserved(pages \cup {index})
  <1>1. /\ page_metadata' \in [PageIndex -> PageMetadata]
        /\ \A p \in PageIndex :
              /\ page_metadata'[p].allocated <=> p = index \/ page_metadata[p].allocated
              /\ page_metadata'[p].reserved <=> p = index \/ page_metadata[p].reserved
    BY DEF LoopsTypeOK, ArraysOK, PageMetadata
  <1>2. ArraysOK' /\ \A p \in PageIndex : bit(p)' <=> p = index \/ bit(p)
    BY <1>1, BitWritten DEF ArraysOK
  <1> QED
    BY <1>1, <1>2 DEF MarkedReserved, MarksReserved

\* mark_page_free clears the page exactly when it has not been cleared yet
\* and may be.
LEMMA FreeMarked ==
    ASSUME LoopsTypeOK, NEW address \in Nat, mark_page_free(address),
           NEW pages, MarkedFree(pages)
    PROVE  /\ ArraysOK' /\ MarksFree(pages \cup {page_index(address)})
           /\ page_index(address) \in PageIndex =>
                 (clears(address) <=> /\ page_index(address) \in cleared({page_index(address)})
                                      /\ page_index(address) \notin cleared(pages))
  <1> DEFINE index == page_index(address)
  <1>1. index \in Nat /\ (index \in PageIndex <=> index < TOTAL_PAGES)
    <2>1. index \in Nat
      BY PageOfAddress
    <2> HIDE DEF index
    <2> QED
      BY <2>1, Sizes
  <1>2. index \in PageIndex =>
           (clears(address) <=> /\ ~ committed.metadata[index].reserved
                                /\ committed.metadata[index].allocated
                                /\ index \notin cleared(pages))
    BY <1>1 DEF clears, MarkedFree
  <1>3. CASE clears(address)
    <2>1. /\ page_bitmap' = with_bit(index, FALSE)
          /\ page_metadata' = [page_metadata EXCEPT ![index].allocated = FALSE]
          /\ index \in PageIndex
      BY <1>1, <1>3 DEF mark_page_free, clears
    <2>2. cleared(pages \cup {index}) = cleared(pages) \cup {index}
      BY <1>2, <1>3, <2>1 DEF cleared
    <2> HIDE DEF index
    <2>3. /\ page_metadata' \in [PageIndex -> PageMetadata]
          /\ \A p \in PageIndex :
                /\ page_metadata'[p].allocated <=> p # index /\ page_metadata[p].allocated
                /\ page_metadata'[p].reserved <=> page_metadata[p].reserved
      BY <2>1 DEF LoopsTypeOK, ArraysOK, PageMetadata
    <2>4. ArraysOK' /\ \A p \in PageIndex : bit(p)' <=> p # index /\ bit(p)
      BY <1>1, <2>1, <2>3, BitWritten DEF ArraysOK
    <2>5. MarksFree(pages \cup {index})
      BY <2>2, <2>3, <2>4 DEF MarkedFree, MarksFree
    <2> QED
      BY <1>2, <2>4, <2>5 DEF index, cleared
  <1>4. CASE ~ clears(address)
    <2>1. UNCHANGED arrays
      BY <1>4 DEF mark_page_free
    <2>2. index \in PageIndex => cleared(pages \cup {index}) = cleared(pages)
      BY <1>2, <1>4 DEF cleared
    <2>3. \A p \in PageIndex : p \in cleared(pages \cup {index}) <=> p \in cleared(pages)
      BY <2>2 DEF cleared
    <2>4. ArraysOK' /\ \A p \in PageIndex : bit(p)' <=> bit(p)
      BY <2>1 DEF arrays, ArraysOK, LoopsTypeOK, bit
    <2>5. MarksFree(pages \cup {index})
      BY <2>1, <2>3, <2>4 DEF MarkedFree, MarksFree, arrays
    <2> QED
      BY <1>2, <2>4, <2>5 DEF cleared
  <1> QED
    BY <1>3, <1>4


\* A loop in its middle: the next state has what the step has marked.
LEMMA StillMarked ==
    ASSUME NEW pages, committed' = committed
    PROVE  /\ MarksUsed(pages) => MarkedUsed(pages)'
           /\ MarksReserved(pages) => MarkedReserved(pages)'
           /\ MarksFree(pages) => MarkedFree(pages)'
  BY DEF MarksUsed, MarkedUsed, MarksReserved, MarkedReserved, MarksFree, MarkedFree, cleared

\* A loop at its end: its last step marks what the loop has marked.
LEMMA AllMarked ==
    ASSUME NEW pages, UNCHANGED arrays
    PROVE  /\ MarkedUsed(pages) => MarksUsed(pages)
           /\ MarkedReserved(pages) => MarksReserved(pages)
           /\ MarkedFree(pages) => MarksFree(pages)
  BY DEF MarksUsed, MarkedUsed, MarksReserved, MarkedReserved, MarksFree, MarkedFree,
         arrays, bit

\* Nothing marked is any of the three with no page.
LEMMA NothingMarked ==
    LoopsTypeOK /\ Untouched => MarkedUsed({}) /\ MarkedReserved({}) /\ MarkedFree({})
  BY DEF LoopsTypeOK, ArraysOK, CommittedOK, PageMetadata, Untouched, MarkedUsed,
         MarkedReserved, MarkedFree, cleared

-----------------------------------------------------------------------------
(***************************************************************************)
(* The step of PageAllocator at the end of a loop.                         *)
(***************************************************************************)

LEMMA Committed ==
    ASSUME ArraysOK', Commit
    PROVE  /\ CommittedOK' /\ Untouched' /\ committed'.live = live'
           /\ committed'.bitmap = [p \in PageIndex |-> bit(p)']
           /\ committed'.metadata = page_metadata'
           /\ \A p \in PageIndex : bit(p)' \in BOOLEAN
  <1>1. /\ committed' = [bitmap |-> bits(page_bitmap'), metadata |-> page_metadata',
                         live |-> live']
        /\ bits(page_bitmap') = [p \in PageIndex |-> bit(p)']
    BY DEF Commit, bits, bit
  <1>2. \A p \in PageIndex : bit(p)' \in BOOLEAN
    <2> TAKE p \in PageIndex
    <2>1. p \in Nat
      BY Sizes
    <2>2. p \div BITS \in 0 .. (BITMAP_SIZE_BYTES - 1) /\ p % BITS \in 0 .. (BITS - 1)
      BY <2>1, BitOfPage
    <2> QED
      BY <2>2 DEF bit, ArraysOK
  <1>3. CommittedOK'
    BY <1>1, <1>2 DEF CommittedOK, ArraysOK
  <1>4. Untouched'
    BY <1>1 DEF Untouched
  <1> QED
    BY <1>1, <1>2, <1>3, <1>4

\* Metadata is known by its two flags.
LEMMA TwoFlags ==
    ASSUME NEW m \in PageMetadata, NEW a \in BOOLEAN, NEW r \in BOOLEAN,
           m.allocated <=> a, m.reserved <=> r
    PROVE  m = [allocated |-> a, reserved |-> r]
  <1>1. /\ m = [allocated |-> m.allocated, reserved |-> m.reserved]
        /\ m.allocated \in BOOLEAN /\ m.reserved \in BOOLEAN
    BY DEF PageMetadata
  <1>2. m.allocated = a /\ m.reserved = r
    BY <1>1
  <1> QED
    BY <1>1, <1>2

\* An array in which elements inside its bounds have been written.
LEMMA WrittenTo ==
    ASSUME NEW S, NEW T \in SUBSET S, NEW f, f = [x \in S |-> f[x]],
           NEW g, DOMAIN g = T, NEW h, h = [x \in S |-> h[x]],
           \A x \in S : h[x] = IF x \in T THEN g[x] ELSE f[x]
    PROVE  h = Abstract!written(f, g)
  <1>1. Abstract!written(f, g) = [x \in S |-> IF x \in T THEN g[x] ELSE f[x]]
    BY DEF Abstract!written
  <1> QED
    BY <1>1

\* What PageAllocator's marking writes, element by element.
LEMMA CommittedArrays ==
    ASSUME LoopsTypeOK, NEW T \in SUBSET PageIndex, NEW used, NEW flags,
           DOMAIN used = T, DOMAIN flags = T,
           NEW bitmap, NEW metadata,
           bitmap = [p \in PageIndex |-> bitmap[p]],
           metadata = [p \in PageIndex |-> metadata[p]],
           \A p \in PageIndex :
              /\ p \in T => bitmap[p] = used[p] /\ metadata[p] = flags[p]
              /\ p \notin T => /\ bitmap[p] = committed.bitmap[p]
                               /\ metadata[p] = committed.metadata[p]
    PROVE  /\ bitmap = Abstract!written(committed.bitmap, used)
           /\ metadata = Abstract!written(committed.metadata, flags)
  <1>1. /\ committed.bitmap = [p \in PageIndex |-> committed.bitmap[p]]
        /\ committed.metadata = [p \in PageIndex |-> committed.metadata[p]]
    BY DEF LoopsTypeOK, CommittedOK
  <1>2. PICK f : f = committed.bitmap
    OBVIOUS
  <1>3. PICK g : g = committed.metadata
    OBVIOUS
  <1>4. bitmap = Abstract!written(f, used)
    BY <1>1, <1>2, WrittenTo
  <1>5. metadata = Abstract!written(g, flags)
    BY <1>1, <1>3, WrittenTo
  <1> QED
    BY <1>2, <1>3, <1>4, <1>5

LEMMA CommitsUsed ==
    ASSUME LoopsTypeOK, ArraysOK', Commit, NEW pages, MarksUsed(pages)
    PROVE  Abstract!mark_used(pages)
  <1>1. committed'.bitmap = [p \in PageIndex |-> p \in pages \/ committed.bitmap[p]]
    BY Committed DEF MarksUsed
  <1>2. committed'.metadata =
           [p \in PageIndex |->
              [allocated |-> p \in pages \/ committed.metadata[p].allocated,
               reserved  |-> committed.metadata[p].reserved]]
    <2>1. ASSUME NEW p \in PageIndex
          PROVE  page_metadata'[p] =
                    [allocated |-> p \in pages \/ committed.metadata[p].allocated,
                     reserved  |-> committed.metadata[p].reserved]
      <3>1. /\ page_metadata'[p] \in PageMetadata
            /\ page_metadata'[p].allocated <=> (p \in pages \/ committed.metadata[p].allocated)
            /\ page_metadata'[p].reserved <=> (committed.metadata[p].reserved)
        BY DEF MarksUsed, ArraysOK
      <3>2. committed.metadata[p].allocated \in BOOLEAN /\ committed.metadata[p].reserved \in BOOLEAN
        BY DEF LoopsTypeOK, CommittedOK, PageMetadata
      <3> QED
        BY <3>1, <3>2, TwoFlags
    <2>2. page_metadata' = [p \in PageIndex |-> page_metadata'[p]]
      BY DEF ArraysOK
    <2> QED
      BY <2>1, <2>2, Committed
  <1> DEFINE T == Abstract!tracked(pages)
             used == [p \in T |-> TRUE]
             flags == [p \in T |-> [committed.metadata[p] EXCEPT !.allocated = TRUE]]
             bitmap == committed'.bitmap
             metadata == committed'.metadata
  <1>3. T \in SUBSET PageIndex /\ \A p \in PageIndex : p \in T <=> p \in pages
    BY SamePages DEF Abstract!tracked
  <1>4. ASSUME NEW p \in PageIndex
        PROVE  /\ committed.bitmap[p] \in BOOLEAN
               /\ committed.metadata[p] = [allocated |-> committed.metadata[p].allocated,
                                           reserved  |-> committed.metadata[p].reserved]
               /\ committed.metadata[p].allocated \in BOOLEAN
    BY DEF LoopsTypeOK, CommittedOK, PageMetadata
  <1>5. ASSUME NEW p \in T
        PROVE  flags[p] = [allocated |-> TRUE, reserved |-> committed.metadata[p].reserved]
    <2>1. committed.metadata[p] \in PageMetadata
      BY <1>3 DEF LoopsTypeOK, CommittedOK
    <2>2. \A m \in PageMetadata :
             [m EXCEPT !.allocated = TRUE] = [allocated |-> TRUE, reserved |-> m.reserved]
      <3> TAKE m \in PageMetadata
      <3> DEFINE raised == [m EXCEPT !.allocated = TRUE]
      <3>1. raised \in PageMetadata /\ m.reserved \in BOOLEAN
        BY DEF PageMetadata
      <3>2. raised.allocated = TRUE /\ raised.reserved = m.reserved
        BY DEF PageMetadata
      <3> HIDE DEF raised
      <3>3. raised = [allocated |-> TRUE, reserved |-> m.reserved]
        BY <3>1, <3>2, TwoFlags
      <3> QED
        BY <3>3 DEF raised
    <2>3. flags[p] = [committed.metadata[p] EXCEPT !.allocated = TRUE]
      OBVIOUS
    <2> QED
      BY <2>1, <2>2, <2>3
  <1>6. /\ DOMAIN used = T /\ DOMAIN flags = T
        /\ bitmap = [p \in PageIndex |-> bitmap[p]]
        /\ metadata = [p \in PageIndex |-> metadata[p]]
    BY <1>1, <1>2
  <1>7. ASSUME NEW p \in PageIndex
        PROVE  /\ p \in T => bitmap[p] = used[p] /\ metadata[p] = flags[p]
               /\ p \notin T => /\ bitmap[p] = committed.bitmap[p]
                                /\ metadata[p] = committed.metadata[p]
    <2>1. bitmap[p] = (p \in pages \/ committed.bitmap[p])
      BY <1>1
    <2>2. metadata[p] = [allocated |-> p \in pages \/ committed.metadata[p].allocated,
                         reserved  |-> committed.metadata[p].reserved]
      BY <1>2
    <2>3. p \in T => used[p] = TRUE
      OBVIOUS
    <2> HIDE DEF used, flags, T, bitmap, metadata
    <2> QED
      BY <1>3, <1>4, <1>5, <2>1, <2>2, <2>3
  <1> HIDE DEF used, flags, T, bitmap, metadata
  <1>8. /\ bitmap = Abstract!written(committed.bitmap, used)
        /\ metadata = Abstract!written(committed.metadata, flags)
    BY <1>3, <1>6, <1>7, CommittedArrays
  <1> QED
    BY <1>8 DEF Abstract!mark_used, used, flags, T, bitmap, metadata

LEMMA CommitsReserved ==
    ASSUME LoopsTypeOK, ArraysOK', Commit, NEW pages \in SUBSET PageIndex, MarksReserved(pages)
    PROVE  Abstract!mark_reserved(pages)
  <1>1. committed'.bitmap = [p \in PageIndex |-> p \in pages \/ committed.bitmap[p]]
    BY Committed DEF MarksReserved
  <1>2. committed'.metadata =
           [p \in PageIndex |->
              [allocated |-> p \in pages \/ committed.metadata[p].allocated,
               reserved  |-> p \in pages \/ committed.metadata[p].reserved]]
    <2>1. ASSUME NEW p \in PageIndex
          PROVE  page_metadata'[p] =
                    [allocated |-> p \in pages \/ committed.metadata[p].allocated,
                     reserved  |-> p \in pages \/ committed.metadata[p].reserved]
      <3>1. /\ page_metadata'[p] \in PageMetadata
            /\ page_metadata'[p].allocated <=> (p \in pages \/ committed.metadata[p].allocated)
            /\ page_metadata'[p].reserved <=> (p \in pages \/ committed.metadata[p].reserved)
        BY DEF MarksReserved, ArraysOK
      <3>2. committed.metadata[p].allocated \in BOOLEAN /\ committed.metadata[p].reserved \in BOOLEAN
        BY DEF LoopsTypeOK, CommittedOK, PageMetadata
      <3> QED
        BY <3>1, <3>2, TwoFlags
    <2>2. page_metadata' = [p \in PageIndex |-> page_metadata'[p]]
      BY DEF ArraysOK
    <2> QED
      BY <2>1, <2>2, Committed
  <1> DEFINE used == [p \in pages |-> TRUE]
             flags == [p \in pages |-> [allocated |-> TRUE, reserved |-> TRUE]]
             bitmap == committed'.bitmap
             metadata == committed'.metadata
  <1>3. Abstract!tracked(pages) = pages
    BY SamePages DEF Abstract!tracked
  <1>4. ASSUME NEW p \in PageIndex
        PROVE  /\ committed.bitmap[p] \in BOOLEAN
               /\ committed.metadata[p] = [allocated |-> committed.metadata[p].allocated,
                                           reserved  |-> committed.metadata[p].reserved]
               /\ committed.metadata[p].allocated \in BOOLEAN
               /\ committed.metadata[p].reserved \in BOOLEAN
    BY DEF LoopsTypeOK, CommittedOK, PageMetadata
  <1>6. /\ DOMAIN used = pages /\ DOMAIN flags = pages
        /\ bitmap = [p \in PageIndex |-> bitmap[p]]
        /\ metadata = [p \in PageIndex |-> metadata[p]]
    BY <1>1, <1>2
  <1>7. ASSUME NEW p \in PageIndex
        PROVE  /\ p \in pages => bitmap[p] = used[p] /\ metadata[p] = flags[p]
               /\ p \notin pages => /\ bitmap[p] = committed.bitmap[p]
                                    /\ metadata[p] = committed.metadata[p]
    <2>1. bitmap[p] = (p \in pages \/ committed.bitmap[p])
      BY <1>1
    <2>2. metadata[p] = [allocated |-> p \in pages \/ committed.metadata[p].allocated,
                         reserved  |-> p \in pages \/ committed.metadata[p].reserved]
      BY <1>2
    <2>3. p \in pages => used[p] = TRUE /\ flags[p] = [allocated |-> TRUE, reserved |-> TRUE]
      OBVIOUS
    <2> HIDE DEF used, flags, bitmap, metadata
    <2> QED
      BY <1>4, <2>1, <2>2, <2>3
  <1> HIDE DEF used, flags, bitmap, metadata
  <1>8. /\ bitmap = Abstract!written(committed.bitmap, used)
        /\ metadata = Abstract!written(committed.metadata, flags)
    BY <1>6, <1>7, CommittedArrays
  <1> QED
    BY <1>3, <1>8 DEF Abstract!mark_reserved, used, flags, bitmap, metadata

LEMMA CommitsFree ==
    ASSUME LoopsTypeOK, ArraysOK', Commit, NEW pages, MarksFree(pages)
    PROVE  Abstract!mark_free(pages)
  <1>1. committed'.bitmap = [p \in PageIndex |-> committed.bitmap[p] /\ p \notin cleared(pages)]
    BY Committed DEF MarksFree
  <1>2. committed'.metadata =
           [p \in PageIndex |->
              [allocated |-> committed.metadata[p].allocated /\ p \notin cleared(pages),
               reserved  |-> committed.metadata[p].reserved]]
    <2>1. ASSUME NEW p \in PageIndex
          PROVE  page_metadata'[p] =
                    [allocated |-> committed.metadata[p].allocated /\ p \notin cleared(pages),
                     reserved  |-> committed.metadata[p].reserved]
      <3>1. /\ page_metadata'[p] \in PageMetadata
            /\ page_metadata'[p].allocated <=> (committed.metadata[p].allocated /\ p \notin cleared(pages))
            /\ page_metadata'[p].reserved <=> (committed.metadata[p].reserved)
        BY DEF MarksFree, ArraysOK
      <3>2. committed.metadata[p].allocated \in BOOLEAN /\ committed.metadata[p].reserved \in BOOLEAN
        BY DEF LoopsTypeOK, CommittedOK, PageMetadata
      <3> QED
        BY <3>1, <3>2, TwoFlags
    <2>2. page_metadata' = [p \in PageIndex |-> page_metadata'[p]]
      BY DEF ArraysOK
    <2> QED
      BY <2>1, <2>2, Committed
  <1> DEFINE C == cleared(pages)
             used == [p \in C |-> FALSE]
             flags == [p \in C |-> [allocated |-> FALSE, reserved |-> FALSE]]
             bitmap == committed'.bitmap
             metadata == committed'.metadata
  <1>3. /\ C \in SUBSET PageIndex /\ Abstract!clearable(pages) = C
        /\ \A p \in C : ~ committed.metadata[p].reserved
    BY SamePages DEF cleared
  <1>4. ASSUME NEW p \in PageIndex
        PROVE  /\ committed.bitmap[p] \in BOOLEAN
               /\ committed.metadata[p] = [allocated |-> committed.metadata[p].allocated,
                                           reserved  |-> committed.metadata[p].reserved]
               /\ committed.metadata[p].allocated \in BOOLEAN
               /\ committed.metadata[p].reserved \in BOOLEAN
    BY DEF LoopsTypeOK, CommittedOK, PageMetadata
  <1>6. /\ DOMAIN used = C /\ DOMAIN flags = C
        /\ bitmap = [p \in PageIndex |-> bitmap[p]]
        /\ metadata = [p \in PageIndex |-> metadata[p]]
    BY <1>1, <1>2
  <1>7. ASSUME NEW p \in PageIndex
        PROVE  /\ p \in C => bitmap[p] = used[p] /\ metadata[p] = flags[p]
               /\ p \notin C => /\ bitmap[p] = committed.bitmap[p]
                                /\ metadata[p] = committed.metadata[p]
    <2>1. bitmap[p] = (committed.bitmap[p] /\ p \notin C)
      BY <1>1
    <2>2. metadata[p] = [allocated |-> committed.metadata[p].allocated /\ p \notin C,
                         reserved  |-> committed.metadata[p].reserved]
      BY <1>2
    <2>3. p \in C => used[p] = FALSE /\ flags[p] = [allocated |-> FALSE, reserved |-> FALSE]
      OBVIOUS
    <2>4. p \in C => committed.metadata[p].reserved = FALSE
      BY <1>3, <1>4
    <2> HIDE DEF C, used, flags, bitmap, metadata
    <2> QED
      BY <1>4, <2>1, <2>2, <2>3, <2>4
  <1> HIDE DEF C, used, flags, bitmap, metadata
  <1>8. /\ bitmap = Abstract!written(committed.bitmap, used)
        /\ metadata = Abstract!written(committed.metadata, flags)
    BY <1>3, <1>6, <1>7, CommittedArrays
  <1> QED
    BY <1>3, <1>8 DEF Abstract!mark_free, used, flags, bitmap, metadata


-----------------------------------------------------------------------------
(***************************************************************************)
(* What the steps have in common.                                          *)
(***************************************************************************)

Implements == LoopsInv' /\ [Abstract!Next]_(Abstract!vars)

\* The parts about other loops than the one that runs.
LEMMA OtherLoops ==
    /\ loop' \notin {"bytes", "metadata"} => FillInv'
    /\ loop' \notin {"free_regions", "use_regions"} => RegionInv'
    /\ loop' \notin {"memory", "none", "search", "count"} => SearchInv'
    /\ loop' # "count" => CountInv'
    /\ loop' # "mark" => MarkInv'
    /\ loop' # "free" /\ live' = committed'.live => FreeInv'
  BY DEF FillInv, RegionInv, SearchInv, CountInv, MarkInv, FreeInv

\* Once initialize has read the map, the region tables stay.
LEMMA TablesStay ==
    ASSUME LoopsInv, UNCHANGED memVars
    PROVE  /\ UNCHANGED <<memory_map, step, i, usable_regions, reserved_regions>>
           /\ MemInv' /\ WholePages(reserved_regions)'
  <1>1. UNCHANGED <<memory_map, step, i, usable_regions, reserved_regions>>
    BY DEF memVars
  <1>2. MemInv'
    BY MemInvStep DEF LoopsInv
  <1> QED
    BY <1>1, <1>2 DEF LoopsInv, WholePages

\* A step inside a loop is none of PageAllocator.
LEMMA NoAbstractStep ==
    ASSUME UNCHANGED <<memVars, region, committed>>, abstract_phase' = abstract_phase
    PROVE  UNCHANGED Abstract!vars
  BY SameTables DEF Abstract!vars, Abstract!allocVars, memVars, Abstract!memVars

\* The call or the loop is over.
LEMMA Returns ==
    ASSUME LoopsInv, Return, UNCHANGED <<memVars, region>>, ArraysOK'
    PROVE  LoopsInv' /\ abstract_phase' = "running"
  <1>1. /\ loop' = "none" /\ n' = 0 /\ page_count' = 0 /\ run_start' = 0
        /\ run_length' = 0 /\ region' = region /\ Commit
    BY DEF Return, Start
  <1>2. CommittedOK' /\ Untouched' /\ live' = committed'.live
    BY <1>1, Committed
  <1>3. LoopsTypeOK'
    BY <1>1, <1>2 DEF LoopsInv, LoopsTypeOK, Loops
  <1>4. SearchInv'
    BY <1>1, <1>2 DEF SearchInv
  <1> QED
    BY <1>1, <1>2, <1>3, <1>4, OtherLoops, TablesStay DEF LoopsInv, abstract_phase

-----------------------------------------------------------------------------
(***************************************************************************)
(* Filling the arrays.                                                     *)
(***************************************************************************)

LEMMA InitImplements == LoopsInit => LoopsInv /\ Abstract!Init
  <1> SUFFICES ASSUME LoopsInit PROVE LoopsInv /\ Abstract!Init
    OBVIOUS
  <1>1. /\ MemInit /\ loop = "memory" /\ live = {} /\ region = 1
        /\ n = 0 /\ page_count = 0 /\ run_start = 0 /\ run_length = 0
        /\ page_bitmap = [b \in 0 .. (BITMAP_SIZE_BYTES - 1) |->
                             [k \in 0 .. (BITS - 1) |-> FALSE]]
        /\ page_metadata = [p \in PageIndex |-> [allocated |-> FALSE, reserved |-> FALSE]]
        /\ committed = [bitmap |-> bits(page_bitmap), metadata |-> page_metadata,
                        live |-> live]
    BY DEF LoopsInit
  <1>2. ArraysOK
    BY <1>1 DEF ArraysOK, PageMetadata
  <1>3. \A p \in PageIndex : bit(p) = FALSE
    <2> TAKE p \in PageIndex
    <2>1. p \in Nat
      BY Sizes
    <2>2. p \div BITS \in 0 .. (BITMAP_SIZE_BYTES - 1) /\ p % BITS \in 0 .. (BITS - 1)
      BY <2>1, BitOfPage
    <2> QED
      BY <1>1, <2>2 DEF bit
  <1>4. committed.bitmap = [p \in PageIndex |-> FALSE]
    BY <1>1, <1>3 DEF bits, bit
  <1>5. CommittedOK
    BY <1>1, <1>2, <1>4 DEF CommittedOK, ArraysOK
  <1>6. LoopsTypeOK
    BY <1>1, <1>2, <1>5 DEF LoopsTypeOK, Loops
  <1>7. MemInv /\ WholePages(reserved_regions)
    BY <1>1, MemInvInit DEF MemInit, WholePages
  <1>8. Untouched
    BY <1>1, <1>3, <1>4 DEF Untouched
  <1>9. FillInv /\ RegionInv /\ SearchInv /\ CountInv /\ MarkInv /\ FreeInv
    BY <1>1, <1>8 DEF FillInv, RegionInv, SearchInv, CountInv, MarkInv, FreeInv
  <1>10. LoopsInv
    BY <1>6, <1>7, <1>9 DEF LoopsInv
  <1>11. Abstract!Init
    BY <1>1, <1>4, SameTables, SamePages DEF Abstract!Init, abstract_phase
  <1> QED
    BY <1>10, <1>11

LEMMA MemoryRunsImplements ==
    ASSUME LoopsInv, MemoryRuns
    PROVE  Implements
  <1>1. /\ loop = "memory" /\ MemNext
        /\ UNCHANGED <<loop, region, n, page_count, run_start, run_length,
                       page_bitmap, page_metadata, live, committed>>
    BY DEF MemoryRuns, locals, arrays
  <1>2. MemInv'
    BY <1>1, MemInvStep DEF LoopsInv
  <1>3. WholePages(reserved_regions)'
    <2>1. CASE UNCHANGED reserved_regions
      BY <2>1 DEF LoopsInv, WholePages
    <2>2. CASE reserve_region /\ ~ UNCHANGED reserved_regions
      <3> DEFINE r == reserved_region(Reservations[i])
      <3>1. /\ i \in DOMAIN Reservations
            /\ reserved_regions' = Append(reserved_regions, r) /\ r.start < r.end
        BY <2>2, PhysicalMemoryAssumption DEF reserve_region, LoopsInv, MemInv, MemTypeOK
      <3>2. /\ Reservations[i][1] \in Nat /\ Reservations[i][2] \in Nat
            /\ Reservations[i][2] <= MAX_RAM /\ r \in Region
        BY <3>1, ReservedRegionFacts, PhysicalMemoryAssumption
      <3>3. is_page_aligned(r.start) /\ is_page_aligned(r.end) /\ r.start <= r.end
        <4>1. Reservations[i][2] + PAGE_SIZE <= U64
          BY <3>2, RamFits
        <4>2. r.start \in Nat /\ r.end \in Nat
          BY <3>2, RegionBounds
        <4>3. /\ r.start = align_page_down(Reservations[i][1])
              /\ r.end = align_page_up(Reservations[i][2])
          BY DEF reserved_region
        <4> HIDE DEF r
        <4>4. is_page_aligned(r.start)
          BY <3>2, <4>3, AlignDown
        <4>5. is_page_aligned(r.end)
          BY <3>2, <4>1, <4>3, AlignUp
        <4> QED
          BY <3>1, <4>2, <4>4, <4>5
      <3>4. reserved_regions \in Seq(Region)
        BY DEF LoopsInv, MemInv, MemTypeOK
      <3> HIDE DEF r
      <3>5. \A k \in DOMAIN reserved_regions' :
               \/ k \in DOMAIN reserved_regions /\ reserved_regions'[k] = reserved_regions[k]
               \/ reserved_regions'[k] = r
        BY <3>1, <3>2, <3>4
      <3> QED
        BY <3>3, <3>5 DEF LoopsInv, WholePages
    <2> QED
      BY <1>1, <2>1, <2>2
      DEF MemNext, NoBootInfo, SkipEntry, AddRegion, EndScan, EndInitialize
  <1>4. LoopsTypeOK' /\ Untouched'
    BY <1>1 DEF LoopsInv, LoopsTypeOK, ArraysOK, CommittedOK, SearchInv, Untouched, bit
  <1>5. FillInv' /\ RegionInv' /\ SearchInv' /\ CountInv' /\ MarkInv' /\ FreeInv'
    BY <1>1, <1>4 DEF FillInv, RegionInv, SearchInv, CountInv, MarkInv, FreeInv, LoopsInv
  <1>6. Abstract!MemoryStep
    BY <1>1, SameTables DEF Abstract!MemoryStep, Abstract!allocVars, abstract_phase
  <1> QED
    BY <1>2, <1>3, <1>4, <1>5, <1>6 DEF Implements, LoopsInv, Abstract!Next, Abstract!Boot


LEMMA InitializeImplements ==
    ASSUME LoopsInv, Initialize
    PROVE  Implements
  <1>1. /\ loop = "memory" /\ loop' = "bytes" /\ step = "ready" /\ n' = 0
        /\ page_count' = 0 /\ run_start' = 0 /\ run_length' = 0
        /\ UNCHANGED <<memVars, region, page_bitmap, page_metadata, live, committed>>
    BY DEF Initialize, Start, arrays
  <1>2. LoopsTypeOK'
    BY <1>1 DEF LoopsInv, LoopsTypeOK, ArraysOK, CommittedOK, Loops
  <1>3. FillInv'
    BY <1>1, TablesStay DEF FillInv
  <1>4. live' = committed'.live
    BY <1>1 DEF LoopsInv, FreeInv
  <1>5. UNCHANGED Abstract!vars
    BY <1>1, NoAbstractStep DEF abstract_phase
  <1> QED
    BY <1>1, <1>2, <1>3, <1>4, <1>5, OtherLoops, TablesStay DEF Implements, LoopsInv

LEMMA FillByteImplements ==
    ASSUME LoopsInv, FillByte
    PROVE  Implements
  <1> DEFINE Byte == [0 .. (BITS - 1) -> BOOLEAN]
             ones == [k \in 0 .. (BITS - 1) |-> TRUE]
  <1>1. /\ loop = "bytes" /\ n < BITMAP_SIZE_BYTES
        /\ page_bitmap' = [page_bitmap EXCEPT ![n] = ones] /\ n' = n + 1
        /\ UNCHANGED <<memVars, region, loop, page_count, run_start, run_length,
                       page_metadata, live, committed>>
    BY DEF FillByte, Continue
  <1>2. /\ n \in Nat /\ BITMAP_SIZE_BYTES \in Nat /\ ones \in Byte
        /\ page_bitmap \in [0 .. (BITMAP_SIZE_BYTES - 1) -> Byte]
    BY Sizes DEF LoopsInv, LoopsTypeOK, ArraysOK
  <1>3. page_bitmap' \in [0 .. (BITMAP_SIZE_BYTES - 1) -> Byte]
    <2> HIDE DEF Byte, ones
    <2> QED
      BY <1>1, <1>2
  <1>4. LoopsTypeOK'
    BY <1>1, <1>2, <1>3 DEF LoopsInv, LoopsTypeOK, ArraysOK, CommittedOK
  <1>5. FillInv'
    <2>1. ASSUME NEW b \in 0 .. (BITMAP_SIZE_BYTES - 1), NEW k \in 0 .. (BITS - 1), b < n'
          PROVE  page_bitmap'[b][k]
      <3>1. b = n \/ b < n
        BY <1>1, <1>2, <2>1
      <3>2. b < n => page_bitmap[b][k]
        BY <1>1 DEF LoopsInv, FillInv
      <3> QED
        BY <1>1, <1>2, <3>1, <3>2
    <2> QED
      BY <1>1, <2>1, TablesStay DEF FillInv, LoopsInv
  <1>6. live' = committed'.live
    BY <1>1 DEF LoopsInv, FreeInv
  <1>7. UNCHANGED Abstract!vars
    BY <1>1, NoAbstractStep DEF abstract_phase
  <1> QED
    BY <1>1, <1>4, <1>5, <1>6, <1>7, OtherLoops, TablesStay DEF Implements, LoopsInv

\* Every bit of every byte is a page's.
LEMMA BytesFilledImplements ==
    ASSUME LoopsInv, BytesFilled
    PROVE  Implements
  <1>1. /\ loop = "bytes" /\ n >= BITMAP_SIZE_BYTES /\ loop' = "metadata" /\ n' = 0
        /\ page_count' = 0 /\ run_start' = 0 /\ run_length' = 0
        /\ UNCHANGED <<memVars, region, page_bitmap, page_metadata, live, committed>>
    BY DEF BytesFilled, Start, arrays
  <1>2. LoopsTypeOK'
    BY <1>1 DEF LoopsInv, LoopsTypeOK, ArraysOK, CommittedOK, Loops
  <1>3. ASSUME NEW p \in PageIndex
        PROVE  bit(p)'
    <2>1. p \in Nat /\ n \in Nat /\ BITMAP_SIZE_BYTES \in Nat
      BY Sizes DEF LoopsInv, LoopsTypeOK
    <2>2. p \div BITS \in 0 .. (BITMAP_SIZE_BYTES - 1) /\ p % BITS \in 0 .. (BITS - 1)
      BY <2>1, BitOfPage
    <2>3. p \div BITS < n
      BY <1>1, <2>1, <2>2
    <2> QED
      BY <1>1, <2>2, <2>3 DEF bit, LoopsInv, FillInv
  <1>4. FillInv'
    BY <1>1, <1>3, TablesStay DEF FillInv, LoopsInv, PageIndex
  <1>5. live' = committed'.live
    BY <1>1 DEF LoopsInv, FreeInv
  <1>6. UNCHANGED Abstract!vars
    BY <1>1, NoAbstractStep DEF abstract_phase
  <1> QED
    BY <1>1, <1>2, <1>4, <1>5, <1>6, OtherLoops, TablesStay DEF Implements, LoopsInv

LEMMA FillMetadataImplements ==
    ASSUME LoopsInv, FillMetadata
    PROVE  Implements
  <1>1. /\ loop = "metadata" /\ n < TOTAL_PAGES /\ n' = n + 1
        /\ page_metadata' =
              [page_metadata EXCEPT ![n] = [allocated |-> TRUE, reserved |-> FALSE]]
        /\ UNCHANGED <<memVars, region, loop, page_count, run_start, run_length,
                       page_bitmap, live, committed>>
    BY DEF FillMetadata, Continue
  <1>2. n \in Nat /\ page_metadata \in [PageIndex -> PageMetadata]
    BY DEF LoopsInv, LoopsTypeOK, ArraysOK
  <1>3. page_metadata' \in [PageIndex -> PageMetadata]
    BY <1>1, <1>2 DEF PageMetadata
  <1>4. LoopsTypeOK'
    BY <1>1, <1>2, <1>3 DEF LoopsInv, LoopsTypeOK, ArraysOK, CommittedOK
  <1>5. FillInv'
    <2>1. ASSUME NEW p \in PageIndex, p < n'
          PROVE  page_metadata'[p] = [allocated |-> TRUE, reserved |-> FALSE]
      <3>1. p = n \/ p < n
        BY <1>1, <1>2, <2>1, Sizes
      <3>2. p < n => page_metadata[p] = [allocated |-> TRUE, reserved |-> FALSE]
        BY <1>1 DEF LoopsInv, FillInv
      <3> QED
        BY <1>1, <1>2, <3>1, <3>2
    <2>2. \A p \in PageIndex : bit(p)'
      BY <1>1 DEF LoopsInv, FillInv, bit
    <2> QED
      BY <1>1, <2>1, <2>2, TablesStay DEF FillInv, LoopsInv
  <1>6. live' = committed'.live
    BY <1>1 DEF LoopsInv, FreeInv
  <1>7. UNCHANGED Abstract!vars
    BY <1>1, NoAbstractStep DEF abstract_phase
  <1> QED
    BY <1>1, <1>4, <1>5, <1>6, <1>7, OtherLoops, TablesStay DEF Implements, LoopsInv

LEMMA RegionFacts ==
    ASSUME LoopsInv, NEW regions \in {usable_regions, reserved_regions}
    PROVE  /\ DOMAIN regions = 1 .. Len(regions) /\ Len(regions) \in Nat
           /\ \A k \in DOMAIN regions :
                 /\ regions[k].start \in Nat /\ regions[k].end \in Nat
                 /\ regions[k].end < U64 /\ regions[k].start <= regions[k].end
                 /\ is_page_aligned(regions[k].start) /\ is_page_aligned(regions[k].end)
  <1>1. regions \in Seq(Region)
    BY DEF LoopsInv, MemInv, MemTypeOK
  <1>2. ASSUME NEW k \in DOMAIN regions
        PROVE  /\ regions[k].start \in Nat /\ regions[k].end \in Nat
               /\ regions[k].end < U64
    <2>1. regions[k] \in Region
      BY <1>1
    <2> QED
      BY <2>1, Sizes DEF Region, Address
  <1>3. WholePages(regions)
    <2>1. WholePages(usable_regions)
      <3> SUFFICES ASSUME NEW k \in DOMAIN usable_regions
                   PROVE  /\ is_page_aligned(usable_regions[k].start)
                          /\ is_page_aligned(usable_regions[k].end)
                          /\ usable_regions[k].start <= usable_regions[k].end
        BY DEF WholePages
      <3>1. usable_regions \in Seq(Region) /\ UsableRegionOK(usable_regions[k])
        BY DEF LoopsInv, MemInv, MemTypeOK, UsableIsRam
      <3>2. usable_regions[k].start \in Nat /\ usable_regions[k].end \in Nat
        BY <3>1, RegionBounds
      <3> QED
        BY <3>1, <3>2 DEF UsableRegionOK
    <2> QED
      BY <2>1 DEF LoopsInv
  <1> QED
    BY <1>1, <1>2, <1>3 DEF WholePages

\* A region loop begins: nothing of its first region is passed.
LEMMA StartOfRegion ==
    LoopsTypeOK /\ MemInv /\ WholePages(reserved_regions) /\ n = 0 /\ Untouched => RegionInv
  <1> SUFFICES ASSUME LoopsTypeOK, MemInv, WholePages(reserved_regions), n = 0, Untouched
               PROVE  RegionInv
    OBVIOUS
  <1>1. is_page_aligned(0)
    BY Sizes DEF is_page_aligned
  <1>2. ASSUME NEW r \in Region
        PROVE  /\ \A p \in PageIndex : ~ (r.start <= p * PAGE_SIZE /\ p * PAGE_SIZE < r.start + 0)
               /\ r.start + 0 = r.start
    BY RegionBounds, Sizes
  <1>3. /\ usable_regions \in Seq(Region) /\ reserved_regions \in Seq(Region)
        /\ region \in Nat \ {0}
    BY DEF LoopsTypeOK, MemInv, MemTypeOK
  <1>4. /\ region <= Len(usable_regions) => region \in DOMAIN usable_regions
        /\ region <= Len(reserved_regions) => region \in DOMAIN reserved_regions
    BY <1>3
  <1>5. passed(usable_regions) = {} /\ passed(reserved_regions) = {}
    BY <1>2, <1>3, <1>4 DEF passed
  <1>6. InRegion(usable_regions)
    BY <1>1, <1>2, <1>3, <1>4, RegionBounds DEF InRegion, MemInv, UsableIsRam, UsableRegionOK
  <1>7. InRegion(reserved_regions)
    BY <1>1, <1>2, <1>3, <1>4 DEF InRegion, WholePages
  <1> QED
    BY <1>5, <1>6, <1>7, NothingMarked DEF RegionInv

LEMMA MetadataFilledImplements ==
    ASSUME LoopsInv, MetadataFilled
    PROVE  Implements
  <1>1. /\ loop = "metadata" /\ n >= TOTAL_PAGES /\ loop' = "free_regions" /\ n' = 0
        /\ page_count' = 0 /\ run_start' = 0 /\ run_length' = 0 /\ region' = 1 /\ Commit
        /\ UNCHANGED <<memVars, page_bitmap, page_metadata, live>>
    BY DEF MetadataFilled, Start, arrays
  <1>2. ArraysOK' /\ n \in Nat
    BY <1>1 DEF LoopsInv, LoopsTypeOK, ArraysOK
  <1>3. CommittedOK' /\ Untouched' /\ live' = committed'.live
    BY <1>1, <1>2, Committed
  <1>4. LoopsTypeOK'
    <2>1. region' \in Nat \ {0} /\ loop' \in Loops /\ n' \in Nat
      BY <1>1 DEF Loops
    <2> QED
      BY <1>1, <1>2, <1>3, <2>1 DEF LoopsTypeOK, Loops
  <1>5. RegionInv'
    <2>1. (LoopsTypeOK /\ MemInv /\ WholePages(reserved_regions) /\ n = 0 /\ Untouched)'
             => RegionInv'
      BY StartOfRegion, PTL
    <2> QED
      BY <1>1, <1>3, <1>4, <2>1, TablesStay
  <1>6. Abstract!MarkAllUsed
    <2>1. /\ step = "ready"
          /\ \A p \in PageIndex : bit(p)
          /\ \A p \in PageIndex : page_metadata[p] = [allocated |-> TRUE, reserved |-> FALSE]
      BY <1>1, <1>2, Sizes DEF LoopsInv, FillInv
    <2>2. \A p \in PageIndex : bit(p)' = TRUE
      BY <1>1, <1>2, <2>1, Committed DEF bit
    <2>3. committed'.bitmap = [p \in PageIndex |-> TRUE]
      BY <1>1, <1>2, <2>2, Committed
    <2>4. committed'.metadata = [p \in PageIndex |-> [allocated |-> TRUE, reserved |-> FALSE]]
      BY <1>1, <1>2, <2>1, Committed DEF ArraysOK
    <2>5. committed'.live = committed.live
      BY <1>1, <1>3 DEF LoopsInv, FreeInv
    <2> QED
      BY <1>1, <2>1, <2>3, <2>4, <2>5, SamePages, SameTables
      DEF Abstract!MarkAllUsed, abstract_phase, memVars, Abstract!memVars
  <1> QED
    BY <1>1, <1>3, <1>4, <1>5, <1>6, OtherLoops, TablesStay
    DEF Implements, LoopsInv, Abstract!Next, Abstract!Boot


-----------------------------------------------------------------------------
(***************************************************************************)
(* Freeing and reserving the regions.                                      *)
(***************************************************************************)

LEMMA AlignedSum ==
    ASSUME NEW a \in Nat, NEW b \in Nat, is_page_aligned(a), is_page_aligned(b)
    PROVE  is_page_aligned(a + b)
  <1>1. PICK p \in Nat : a = p * PAGE_SIZE
    BY PageOfAddress
  <1>2. PICK q \in Nat : b = q * PAGE_SIZE
    BY PageOfAddress
  <1>3. a + b = (p + q) * PAGE_SIZE /\ p + q \in Nat
    BY <1>1, <1>2, Sizes
  <1> QED
    BY <1>3, PageOfAddress

\* From one page boundary to the next.
LEMMA NextBoundary ==
    ASSUME NEW a \in Nat, is_page_aligned(a)
    PROVE  /\ is_page_aligned(a + PAGE_SIZE)
           /\ \A b \in Nat : is_page_aligned(b) /\ a < b => a + PAGE_SIZE <= b
           /\ \A b \in Nat : is_page_aligned(b) => (b < a + PAGE_SIZE <=> b < a \/ b = a)
  <1>1. is_page_aligned(PAGE_SIZE) /\ a + PAGE_SIZE \in Nat
    BY Sizes DEF is_page_aligned
  <1>2. is_page_aligned(a + PAGE_SIZE)
    BY <1>1, AlignedSum, Sizes
  <1>3. \A b \in Nat : is_page_aligned(b) /\ a < b => a + PAGE_SIZE <= b
    <2> SUFFICES ASSUME NEW b \in Nat, is_page_aligned(b), a < b
                 PROVE  a + PAGE_SIZE <= b
      OBVIOUS
    <2>1. a + PAGE_SIZE < b + PAGE_SIZE
      BY Sizes
    <2> QED
      BY <1>1, <1>2, <2>1, BoundariesApart
  <1>4. \A b \in Nat : is_page_aligned(b) => (b < a + PAGE_SIZE <=> b < a \/ b = a)
    BY <1>3, Sizes
  <1> QED
    BY <1>2, <1>3, <1>4

\* What is marked are tracked pages.
LEMMA TrackedPages ==
    ASSUME NEW s, NEW t, \A p \in PageIndex : p \in s <=> p \in t
    PROVE  /\ MarksUsed(s) => MarksUsed(t)
           /\ MarksReserved(s) => MarksReserved(t)
           /\ MarksFree(s) => MarksFree(t)
  BY DEF MarksUsed, MarksReserved, MarksFree, cleared

\* The next page of a region: it becomes the last of those passed.
LEMMA NextPageOfRegion ==
    ASSUME LoopsInv, NEW regions \in {usable_regions, reserved_regions},
           NEW address, address = region_address(regions),
           region <= Len(regions), InRegion(regions), address < regions[region].end,
           n' = n + PAGE_SIZE, UNCHANGED <<region, regions>>
    PROVE  /\ address \in Nat /\ InRegion(regions)'
           /\ \A p \in PageIndex :
                 p \in passed(regions)' <=> p \in passed(regions) \/ p = page_index(address)
  <1> DEFINE start == regions[region].start
             end == regions[region].end
  <1>1. /\ region \in DOMAIN regions /\ n \in Nat
        /\ start \in Nat /\ end \in Nat /\ end < U64
        /\ is_page_aligned(start) /\ is_page_aligned(end)
    BY RegionFacts DEF LoopsInv, LoopsTypeOK
  <1>2. is_page_aligned(n) /\ start + n <= end
    BY DEF InRegion
  <1>3. address = start + n
    BY <1>1, <1>2, Sizes DEF region_address, add_u64
  <1>4. /\ address \in Nat /\ is_page_aligned(address) /\ is_page_aligned(n + PAGE_SIZE)
        /\ start + n' = address + PAGE_SIZE /\ address + PAGE_SIZE <= end
    <2>1. n' = n + PAGE_SIZE /\ address < end
      OBVIOUS
    <2> HIDE DEF start, end
    <2>2. address \in Nat
      BY <1>1, <1>3
    <2>3. is_page_aligned(start + n)
      BY <1>1, <1>2, AlignedSum
    <2>4. is_page_aligned(address)
      BY <1>3, <2>3
    <2>5. is_page_aligned(n + PAGE_SIZE)
      BY <1>1, <1>2, NextBoundary
    <2>6. address + PAGE_SIZE <= end
      BY <1>1, <2>1, <2>2, <2>4, NextBoundary
    <2> QED
      BY <1>1, <1>3, <2>1, <2>2, <2>4, <2>5, <2>6, Sizes
  <1>5. start + n' = address + PAGE_SIZE /\ address + PAGE_SIZE <= end
    BY <1>4
  <1>6. InRegion(regions)'
    BY <1>4, <1>5 DEF InRegion
  <1>7. ASSUME NEW p \in PageIndex
        PROVE  p \in passed(regions)' <=> p \in passed(regions) \/ p = page_index(address)
    <2>1. /\ p \in Nat /\ p * PAGE_SIZE \in Nat /\ is_page_aligned(p * PAGE_SIZE)
          /\ p = page_index(address) <=> p * PAGE_SIZE = address
      <3>1. p \in Nat
        BY Sizes
      <3>2. p * PAGE_SIZE \in Nat /\ is_page_aligned(p * PAGE_SIZE)
            /\ page_index(p * PAGE_SIZE) = p
        BY <3>1, PageOfAddress
      <3>3. address = page_index(address) * PAGE_SIZE
        BY <1>4, PageOfAddress
      <3> QED
        BY <3>1, <3>2, <3>3
    <2>2. p * PAGE_SIZE < address + PAGE_SIZE
             <=> p * PAGE_SIZE < address \/ p * PAGE_SIZE = address
      BY <1>4, <2>1, NextBoundary
    <2>3. p \in passed(regions) <=> start <= p * PAGE_SIZE /\ p * PAGE_SIZE < address
      BY <1>3 DEF passed
    <2>4. p \in passed(regions)'
             <=> start <= p * PAGE_SIZE /\ p * PAGE_SIZE < address + PAGE_SIZE
      BY <1>5 DEF passed
    <2>5. start <= address
      BY <1>1, <1>3
    <2> QED
      BY <2>1, <2>2, <2>3, <2>4, <2>5
  <1> QED
    BY <1>4, <1>6, <1>7


\* mark_region_free, one page.
LEMMA FreeRegionPageImplements ==
    ASSUME LoopsInv, FreeRegionPage
    PROVE  Implements
  <1> DEFINE at == region_address(usable_regions)
  <1>1. /\ loop = "free_regions" /\ region <= Len(usable_regions)
        /\ at < usable_regions[region].end /\ mark_page_free(at) /\ n' = n + PAGE_SIZE
        /\ UNCHANGED <<memVars, region, loop, page_count, run_start, run_length,
                       live, committed>>
    BY DEF FreeRegionPage, RegionLoop, Continue
  <1>2. LoopsTypeOK /\ InRegion(usable_regions) /\ MarkedFree(passed(usable_regions))
    BY <1>1 DEF LoopsInv, RegionInv
  <1>3. UNCHANGED usable_regions
    BY <1>1, TablesStay
  <1>4. PICK regions : regions = usable_regions
    OBVIOUS
  <1>5. PICK address : address = at
    OBVIOUS
  <1>6. /\ regions = usable_regions' /\ address = region_address(regions)
        /\ region <= Len(regions) /\ InRegion(regions) /\ address < regions[region].end
        /\ mark_page_free(address) /\ MarkedFree(passed(regions))
    BY <1>1, <1>2, <1>3, <1>4, <1>5
  <1> HIDE DEF at
  <1>7. /\ address \in Nat /\ InRegion(regions)'
        /\ \A p \in PageIndex :
              p \in passed(regions)' <=> p \in passed(regions) \/ p = page_index(address)
    BY <1>1, <1>4, <1>6, NextPageOfRegion
  <1>8. ArraysOK' /\ MarksFree(passed(regions) \cup {page_index(address)})
    BY <1>2, <1>6, <1>7, FreeMarked
  <1>9. PICK pages : pages = passed(regions)'
    OBVIOUS
  <1>10. MarksFree(pages)
    BY <1>7, <1>8, <1>9, TrackedPages
  <1>11. MarkedFree(pages)'
    BY <1>1, <1>10, StillMarked
  <1>12. RegionInv'
    BY <1>1, <1>6, <1>7, <1>9, <1>11 DEF RegionInv
  <1>13. LoopsTypeOK'
    <2>1. n' \in Nat
      <3>1. n \in Nat /\ PAGE_SIZE \in Nat /\ n' = n + PAGE_SIZE
        BY <1>1, <1>2, Sizes DEF LoopsTypeOK
      <3> QED
        BY <3>1
    <2> QED
      BY <1>1, <1>2, <1>8, <2>1 DEF LoopsTypeOK, CommittedOK
  <1>14. live' = committed'.live
    BY <1>1 DEF LoopsInv, FreeInv
  <1>15. UNCHANGED Abstract!vars
    BY <1>1, NoAbstractStep DEF abstract_phase
  <1> QED
    BY <1>1, <1>12, <1>13, <1>14, <1>15, OtherLoops, TablesStay DEF Implements, LoopsInv


\* mark_region_used, one page.
LEMMA UseRegionPageImplements ==
    ASSUME LoopsInv, UseRegionPage
    PROVE  Implements
  <1> DEFINE at == region_address(reserved_regions)
  <1>1. /\ loop = "use_regions" /\ region <= Len(reserved_regions)
        /\ at < reserved_regions[region].end /\ n' = n + PAGE_SIZE
        /\ page_bitmap' = with_bit(page_index(at), TRUE)
        /\ page_metadata' = [page_metadata EXCEPT ![page_index(at)] =
                                [allocated |-> TRUE, reserved |-> TRUE]]
        /\ UNCHANGED <<memVars, region, loop, page_count, run_start, run_length,
                       live, committed>>
    BY DEF UseRegionPage, RegionLoop, Continue
  <1>2. LoopsTypeOK /\ InRegion(reserved_regions) /\ MarkedReserved(passed(reserved_regions))
    BY <1>1 DEF LoopsInv, RegionInv
  <1>3. UNCHANGED reserved_regions
    BY <1>1, TablesStay
  <1>4. PICK regions : regions = reserved_regions
    OBVIOUS
  <1>5. PICK address : address = at
    OBVIOUS
  <1>6. /\ regions = reserved_regions' /\ address = region_address(regions)
        /\ region <= Len(regions) /\ InRegion(regions) /\ address < regions[region].end
        /\ page_bitmap' = with_bit(page_index(address), TRUE)
        /\ page_metadata' = [page_metadata EXCEPT ![page_index(address)] =
                                [allocated |-> TRUE, reserved |-> TRUE]]
        /\ MarkedReserved(passed(regions))
    BY <1>1, <1>2, <1>3, <1>4, <1>5
  <1> HIDE DEF at
  <1>7. /\ address \in Nat /\ InRegion(regions)'
        /\ \A p \in PageIndex :
              p \in passed(regions)' <=> p \in passed(regions) \/ p = page_index(address)
    BY <1>1, <1>4, <1>6, NextPageOfRegion
  <1>8. ArraysOK' /\ MarksReserved(passed(regions) \cup {page_index(address)})
    <2>1. page_index(address) \in Nat
      BY <1>7, PageOfAddress
    <2> QED
      BY <1>2, <1>6, <2>1, ReservedMarked
  <1>9. PICK pages : pages = passed(regions)'
    OBVIOUS
  <1>10. MarksReserved(pages)
    BY <1>7, <1>8, <1>9, TrackedPages
  <1>11. MarkedReserved(pages)'
    BY <1>1, <1>10, StillMarked
  <1>12. RegionInv'
    BY <1>1, <1>6, <1>7, <1>9, <1>11 DEF RegionInv
  <1>13. LoopsTypeOK'
    <2>1. n' \in Nat
      <3>1. n \in Nat /\ PAGE_SIZE \in Nat /\ n' = n + PAGE_SIZE
        BY <1>1, <1>2, Sizes DEF LoopsTypeOK
      <3> QED
        BY <3>1
    <2> QED
      BY <1>1, <1>2, <1>8, <2>1 DEF LoopsTypeOK, CommittedOK
  <1>14. live' = committed'.live
    BY <1>1 DEF LoopsInv, FreeInv
  <1>15. UNCHANGED Abstract!vars
    BY <1>1, NoAbstractStep DEF abstract_phase
  <1> QED
    BY <1>1, <1>12, <1>13, <1>14, <1>15, OtherLoops, TablesStay DEF Implements, LoopsInv

\* No page number is larger than its address.
LEMMA PageInReach ==
    ASSUME LoopsInv, NEW regions \in {usable_regions, reserved_regions},
           NEW k \in DOMAIN regions, NEW p \in PageIndex,
           p * PAGE_SIZE < regions[k].end
    PROVE  p \in 0 .. regions[k].end
  <1> DEFINE end == regions[k].end
  <1>1. end \in Nat
    BY RegionFacts
  <1>2. p \in Nat /\ PAGE_SIZE \in Nat \ {0} /\ p * PAGE_SIZE < end
    BY Sizes
  <1> HIDE DEF end
  <1>3. p <= p * PAGE_SIZE /\ p * PAGE_SIZE \in Nat
    <2>1. \A u \in Nat, v \in Nat \ {0} : u <= u * v /\ u * v \in Nat
      OBVIOUS
    <2> QED
      BY <1>2, <2>1
  <1>4. p \in 0 .. end
    BY <1>1, <1>2, <1>3
  <1> QED
    BY <1>4 DEF end

\* A region is passed when its loop ends.
LEMMA RegionPassed ==
    ASSUME LoopsInv, NEW regions \in {usable_regions, reserved_regions},
           region <= Len(regions), InRegion(regions),
           region_address(regions) >= regions[region].end
    PROVE  passed(regions) = Abstract!pages_of(regions[region])
  <1> DEFINE start == regions[region].start
             end == regions[region].end
  <1>1. /\ region \in DOMAIN regions /\ n \in Nat
        /\ start \in Nat /\ end \in Nat /\ end < U64
    BY RegionFacts DEF LoopsInv, LoopsTypeOK
  <1>2. start + n <= end
    BY DEF InRegion
  <1>3. region_address(regions) = start + n
    BY <1>1, <1>2, Sizes DEF region_address, add_u64
  <1>4. start + n = end
    <2>1. start + n >= end
      BY <1>3
    <2> HIDE DEF start, end
    <2> QED
      BY <1>1, <1>2, <2>1
  <1>5. ASSUME NEW p \in PageIndex, p * PAGE_SIZE < end
        PROVE  p \in 0 .. end
    BY <1>1, <1>5, PageInReach
  <1> QED
    BY <1>4, <1>5, SamePages
    DEF passed, Abstract!pages_of, Abstract!tracked, Abstract!region_pages

\* Every page of a reserved region is tracked.
LEMMA ReservedTracked ==
    ASSUME LoopsInv, region \in DOMAIN reserved_regions
    PROVE  Abstract!pages_of(reserved_regions[region])
              = Abstract!region_pages(reserved_regions[region])
  <1> PICK j : j = region
    OBVIOUS
  <1>1. \A p \in Nat : p * PAGE_SIZE < reserved_regions[j].end => p < TOTAL_PAGES
    BY Sizes, PageLoopsAssumption, ReservedWithin DEF LoopsInv
  <1>2. reserved_regions[j].end \in Nat
    BY RegionFacts DEF LoopsInv
  <1>3. ASSUME NEW p \in Abstract!region_pages(reserved_regions[j])
        PROVE  p \in PageIndex
    <2>1. p \in 0 .. reserved_regions[j].end /\ p * PAGE_SIZE < reserved_regions[j].end
      BY DEF Abstract!region_pages
    <2>2. p \in Nat
      BY <1>2, <2>1
    <2> QED
      BY <1>1, <2>1, <2>2, Sizes
  <1> QED
    BY <1>3, SamePages DEF Abstract!pages_of, Abstract!tracked

\* A region loop that ends commits, and the loop over the next begins.
LEMMA NextRegion ==
    ASSUME LoopsInv, ArraysOK', Commit, loop' = loop, loop \in {"free_regions", "use_regions"},
           n' = 0, page_count' = 0, run_start' = 0, run_length' = 0, region' = region + 1,
           UNCHANGED <<memVars, live>>
    PROVE  LoopsInv' /\ committed'.live = committed.live
  <1>1. CommittedOK' /\ Untouched' /\ live' = committed'.live
    BY Committed
  <1>2. LoopsTypeOK'
    BY <1>1 DEF LoopsInv, LoopsTypeOK
  <1>3. RegionInv'
    <2>1. (LoopsTypeOK /\ MemInv /\ WholePages(reserved_regions) /\ n = 0 /\ Untouched)'
             => RegionInv'
      BY StartOfRegion, PTL
    <2> QED
      BY <1>1, <1>2, <2>1, TablesStay
  <1>4. committed'.live = committed.live
    BY <1>1 DEF LoopsInv, FreeInv
  <1> QED
    BY <1>1, <1>2, <1>3, <1>4, OtherLoops, TablesStay DEF LoopsInv

LEMMA UsableDoneImplements ==
    ASSUME LoopsInv, RegionDone("free_regions", usable_regions)
    PROVE  Implements
  <1>1. /\ loop = "free_regions" /\ region <= Len(usable_regions)
        /\ region_address(usable_regions) >= usable_regions[region].end
        /\ loop' = loop /\ n' = 0 /\ page_count' = 0 /\ run_start' = 0 /\ run_length' = 0
        /\ region' = region + 1 /\ UNCHANGED <<memVars, arrays, live>> /\ Commit
    BY DEF RegionDone, RegionLoop, Start
  <1>2. /\ LoopsTypeOK /\ InRegion(usable_regions)
        /\ MarkedFree(passed(usable_regions))
    BY <1>1 DEF LoopsInv, RegionInv
  <1>3. ArraysOK'
    BY <1>1, <1>2 DEF LoopsTypeOK, ArraysOK, arrays
  <1>4. LoopsInv' /\ committed'.live = committed.live
    BY <1>1, <1>3, NextRegion
  <1>5. Abstract!mark_free(Abstract!region_pages(usable_regions[region]))
    <2>1. passed(usable_regions) = Abstract!pages_of(usable_regions[region])
      BY <1>1, <1>2, RegionPassed
    <2>2. MarksFree(passed(usable_regions))
      BY <1>1, <1>2, AllMarked
    <2>3. Abstract!mark_free(Abstract!pages_of(usable_regions[region]))
      BY <1>1, <1>2, <1>3, <2>1, <2>2, CommitsFree
    <2>4. Abstract!clearable(Abstract!pages_of(usable_regions[region]))
            = Abstract!clearable(Abstract!region_pages(usable_regions[region]))
      BY DEF Abstract!clearable, Abstract!tracked, Abstract!pages_of
    <2> QED
      BY <2>3, <2>4 DEF Abstract!mark_free
  <1>6. Abstract!mark_region_free
    BY <1>1, <1>4, <1>5, SameTables
    DEF Abstract!mark_region_free, abstract_phase, memVars, Abstract!memVars
  <1> QED
    BY <1>4, <1>6 DEF Implements, Abstract!Next, Abstract!Boot

LEMMA ReservedDoneImplements ==
    ASSUME LoopsInv, RegionDone("use_regions", reserved_regions)
    PROVE  Implements
  <1>1. /\ loop = "use_regions" /\ region <= Len(reserved_regions)
        /\ region_address(reserved_regions) >= reserved_regions[region].end
        /\ loop' = loop /\ n' = 0 /\ page_count' = 0 /\ run_start' = 0 /\ run_length' = 0
        /\ region' = region + 1 /\ UNCHANGED <<memVars, arrays, live>> /\ Commit
    BY DEF RegionDone, RegionLoop, Start
  <1>2. /\ LoopsTypeOK /\ InRegion(reserved_regions)
        /\ MarkedReserved(passed(reserved_regions))
    BY <1>1 DEF LoopsInv, RegionInv
  <1>3. ArraysOK'
    BY <1>1, <1>2 DEF LoopsTypeOK, ArraysOK, arrays
  <1>4. LoopsInv' /\ committed'.live = committed.live
    BY <1>1, <1>3, NextRegion
  <1>5. Abstract!mark_reserved(Abstract!region_pages(reserved_regions[region]))
    <2>1. passed(reserved_regions) = Abstract!pages_of(reserved_regions[region])
      BY <1>1, <1>2, RegionPassed
    <2>2. MarksReserved(passed(reserved_regions))
      BY <1>1, <1>2, AllMarked
    <2>3. passed(reserved_regions) \in SUBSET PageIndex
      BY DEF passed
    <2>4. Abstract!mark_reserved(passed(reserved_regions))
      BY <1>1, <1>2, <1>3, <2>2, <2>3, CommitsReserved
    <2>5. region \in DOMAIN reserved_regions
      BY <1>1, <1>2 DEF LoopsTypeOK, LoopsInv, MemInv, MemTypeOK
    <2> QED
      BY <2>1, <2>4, <2>5, ReservedTracked
  <1>6. Abstract!mark_region_used
    BY <1>1, <1>4, <1>5, SameTables
    DEF Abstract!mark_region_used, abstract_phase, memVars, Abstract!memVars
  <1> QED
    BY <1>4, <1>6 DEF Implements, Abstract!Next, Abstract!Boot

\* Past the last region nothing is marked.
LEMMA NothingPassed ==
    ASSUME LoopsInv, NEW regions, region > Len(regions), Len(regions) \in Nat
    PROVE  /\ MarkedFree(passed(regions)) => Untouched
           /\ MarkedReserved(passed(regions)) => Untouched
  <1>1. passed(regions) = {}
    <2>1. ~ (region <= Len(regions))
      BY DEF LoopsInv, LoopsTypeOK
    <2> QED
      BY <2>1 DEF passed
  <1>2. ASSUME NEW p \in PageIndex,
               page_metadata[p].allocated <=> committed.metadata[p].allocated,
               page_metadata[p].reserved <=> committed.metadata[p].reserved
        PROVE  page_metadata[p] = committed.metadata[p]
    <2>1. page_metadata[p] \in PageMetadata /\ committed.metadata[p] \in PageMetadata
      BY DEF LoopsInv, LoopsTypeOK, ArraysOK, CommittedOK
    <2>2. /\ committed.metadata[p].allocated \in BOOLEAN
          /\ committed.metadata[p].reserved \in BOOLEAN
      BY <2>1 DEF PageMetadata
    <2>3. page_metadata[p] = [allocated |-> committed.metadata[p].allocated,
                              reserved |-> committed.metadata[p].reserved]
      BY <1>2, <2>1, <2>2, TwoFlags
    <2>4. committed.metadata[p] = [allocated |-> committed.metadata[p].allocated,
                                   reserved |-> committed.metadata[p].reserved]
      BY <2>1 DEF PageMetadata
    <2> QED
      BY <2>3, <2>4
  <1> QED
    BY <1>1, <1>2 DEF MarkedFree, MarkedReserved, Untouched, cleared

LEMMA AllUsableDoneImplements ==
    ASSUME LoopsInv, AllUsableDone
    PROVE  Implements
  <1>1. /\ loop = "free_regions" /\ region > Len(usable_regions)
        /\ loop' = "use_regions" /\ n' = 0
        /\ page_count' = 0 /\ run_start' = 0 /\ run_length' = 0 /\ region' = 1
        /\ UNCHANGED <<memVars, page_bitmap, page_metadata, live, committed>>
    BY DEF AllUsableDone, Start, arrays
  <1>2. LoopsTypeOK'
    BY <1>1 DEF LoopsInv, LoopsTypeOK, ArraysOK, CommittedOK, Loops
  <1>3. Untouched
    <2>1. Len(usable_regions) \in Nat
      BY RegionFacts
    <2> QED
      BY <1>1, <2>1, NothingPassed DEF LoopsInv, RegionInv
  <1>4. Untouched'
    BY <1>1, <1>3 DEF Untouched, bit
  <1>5. RegionInv'
    <2>1. (LoopsTypeOK /\ MemInv /\ WholePages(reserved_regions) /\ n = 0 /\ Untouched)'
             => RegionInv'
      BY StartOfRegion, PTL
    <2> QED
      BY <1>1, <1>2, <1>4, <2>1, TablesStay
  <1>6. live' = committed'.live
    BY <1>1 DEF LoopsInv, FreeInv
  <1>7. Abstract!AllUsableMarked
    BY <1>1, SameTables
    DEF Abstract!AllUsableMarked, abstract_phase, memVars, Abstract!memVars
  <1> QED
    BY <1>1, <1>2, <1>5, <1>6, <1>7, OtherLoops, TablesStay
    DEF Implements, LoopsInv, Abstract!Next, Abstract!Boot

LEMMA AllReservedDoneImplements ==
    ASSUME LoopsInv, AllReservedDone
    PROVE  Implements
  <1>1. /\ loop = "use_regions" /\ region > Len(reserved_regions)
        /\ loop' = "none" /\ n' = 0
        /\ page_count' = 0 /\ run_start' = 0 /\ run_length' = 0
        /\ UNCHANGED <<memVars, region, page_bitmap, page_metadata, live, committed>>
    BY DEF AllReservedDone, Start, arrays
  <1>2. LoopsTypeOK'
    BY <1>1 DEF LoopsInv, LoopsTypeOK, ArraysOK, CommittedOK, Loops
  <1>3. Untouched
    <2>1. Len(reserved_regions) \in Nat
      BY RegionFacts
    <2> QED
      BY <1>1, <2>1, NothingPassed DEF LoopsInv, RegionInv
  <1>4. Untouched'
    BY <1>1, <1>3 DEF Untouched, bit
  <1>5. SearchInv'
    BY <1>1, <1>4 DEF SearchInv
  <1>6. live' = committed'.live
    BY <1>1 DEF LoopsInv, FreeInv
  <1>7. Abstract!AllReservedMarked
    BY <1>1, SameTables
    DEF Abstract!AllReservedMarked, abstract_phase, memVars, Abstract!memVars
  <1> QED
    BY <1>1, <1>2, <1>5, <1>6, <1>7, OtherLoops, TablesStay
    DEF Implements, LoopsInv, Abstract!Next, Abstract!Boot


-----------------------------------------------------------------------------
(***************************************************************************)
(* Allocation.                                                             *)
(***************************************************************************)

\* The page of a page's address, and whether it is used.
LEMMA PageUsed ==
    ASSUME NEW p \in PageIndex
    PROVE  /\ p * PAGE_SIZE \in Nat /\ page_index(p * PAGE_SIZE) = p
           /\ is_page_used(p * PAGE_SIZE) <=> bit(p)
           /\ is_page_free(p * PAGE_SIZE) <=> ~ bit(p)
  <1>1. p \in Nat /\ ~ (p >= TOTAL_PAGES)
    BY Sizes
  <1>2. p * PAGE_SIZE \in Nat /\ page_index(p * PAGE_SIZE) = p
    BY <1>1, PageOfAddress
  <1> QED
    BY <1>1, <1>2 DEF is_page_used, is_page_free

LEMMA MinOf ==
    ASSUME NEW S \in SUBSET Nat, NEW x \in S, \A y \in S : x <= y
    PROVE  Abstract!Min(S) = x
  <1>1. \A y \in S : (\A z \in S : y <= z) => y = x
    <2> TAKE y \in S
    <2> HAVE \A z \in S : y <= z
    <2>1. y <= x /\ x <= y /\ x \in Nat /\ y \in Nat
      OBVIOUS
    <2> QED
      BY <2>1
  <1>2. Abstract!Min(S) = CHOOSE y \in S : \A z \in S : y <= z
    BY SamePages
  <1> QED
    BY <1>1, <1>2

\* The runs of PageAllocator.
LEMMA FreeRuns ==
    ASSUME NEW count \in Nat \ {0}
    PROVE  Abstract!free_runs(count) = {p \in PageIndex : free_run(p, count)}
  <1>1. Abstract!free_pages = {p \in PageIndex : ~ committed.bitmap[p]}
    BY SamePages DEF Abstract!free_pages
  <1>2. ASSUME NEW p \in PageIndex
        PROVE  p \in Abstract!free_runs(count) <=> free_run(p, count)
    <2>1. p \in Nat /\ TOTAL_PAGES \in Nat
      BY Sizes
    <2>2. p \in p .. (p + count - 1)
      BY <2>1
    <2>3. p + count <= TOTAL_PAGES => p .. (p + count - 1) \subseteq PageIndex
      BY <2>1, Sizes
    <2>4. p + count <= TOTAL_PAGES =>
             (p .. (p + count - 1) \subseteq Abstract!free_pages
                <=> \A q \in p .. (p + count - 1) : ~ committed.bitmap[q])
      BY <1>1, <2>3
    <2>5. p \in Abstract!free_runs(count)
             <=> /\ p \in Abstract!free_pages /\ p + count <= TOTAL_PAGES
                 /\ p .. (p + count - 1) \subseteq Abstract!free_pages
      BY DEF Abstract!free_runs
    <2> QED
      BY <1>1, <2>2, <2>4, <2>5 DEF free_run
  <1>3. Abstract!free_runs(count) \subseteq PageIndex
    BY <1>1 DEF Abstract!free_runs
  <1> QED
    BY <1>2, <1>3

\* The lowest run found and marked is what allocate does ...
LEMMA Allocates ==
    ASSUME LoopsTypeOK, ArraysOK', Commit,
           NEW count \in Nat \ {0}, NEW first \in PageIndex, free_run(first, count),
           \A p \in PageIndex : free_run(p, count) => first <= p,
           MarksUsed(first .. (first + count - 1)), live = committed.live,
           live' = IF first = 0 THEN live ELSE live \cup first .. (first + count - 1)
    PROVE  \E address \in Abstract!Returned : Abstract!allocate(count, address)
  <1>1. Abstract!free_runs(count) = {p \in PageIndex : free_run(p, count)}
    BY FreeRuns
  <1>2. first \in Abstract!free_runs(count) /\ Abstract!free_runs(count) \in SUBSET Nat
    BY <1>1, Sizes
  <1>3. Abstract!Min(Abstract!free_runs(count)) = first
    BY <1>1, <1>2, MinOf
  <1>4. Abstract!mark_used(first .. (first + count - 1))
    BY CommitsUsed
  <1>5. first * PAGE_SIZE = 0 <=> first = 0
    BY Sizes
  <1>6. committed'.live = live'
    BY Committed
  <1>7. Abstract!allocate(count, first * PAGE_SIZE)
    BY <1>2, <1>3, <1>4, <1>5, <1>6 DEF Abstract!allocate
  <1>8. first * PAGE_SIZE \in Abstract!Returned
    BY SamePages DEF Abstract!Returned
  <1> QED
    BY <1>7, <1>8

\* ... and so is the failure when there is none.
LEMMA Fails ==
    ASSUME LoopsTypeOK, Commit, NEW count \in Nat \ {0},
           \A p \in PageIndex : ~ free_run(p, count),
           Untouched, live = committed.live, UNCHANGED <<arrays, live>>
    PROVE  \E address \in Abstract!Returned : Abstract!allocate(count, address)
  <1>1. Abstract!free_runs(count) = {}
    BY FreeRuns
  <1>2. ArraysOK'
    BY DEF LoopsTypeOK, ArraysOK, arrays
  <1>3. committed'.bitmap = committed.bitmap
    <2>1. \A p \in PageIndex : bit(p)' = bit(p) /\ bit(p)' \in BOOLEAN
      BY <1>2, Committed DEF arrays, bit
    <2>2. \A p \in PageIndex : committed.bitmap[p] = bit(p)'
      BY <2>1 DEF Untouched, LoopsTypeOK, CommittedOK
    <2> QED
      BY <1>2, <2>2, Committed DEF LoopsTypeOK, CommittedOK
  <1>4. committed'.metadata = committed.metadata
    <2>1. page_metadata' = committed.metadata
      BY DEF Untouched, LoopsTypeOK, CommittedOK, ArraysOK, arrays
    <2> QED
      BY <1>2, <2>1, Committed
  <1>5. committed'.live = committed.live
    BY <1>2, Committed
  <1>6. Abstract!allocate(count, 0)
    BY <1>1, <1>3, <1>4, <1>5 DEF Abstract!allocate
  <1>7. 0 \in Abstract!Returned
    <2>1. 0 \in PageIndex /\ 0 = 0 * PAGE_SIZE
      BY Sizes
    <2> QED
      BY <2>1, SamePages DEF Abstract!Returned
  <1> QED
    BY <1>6, <1>7

LEMMA AllocatePageImplements ==
    ASSUME LoopsInv, AllocatePage
    PROVE  Implements
  <1>1. /\ loop = "none" /\ loop' = "search" /\ n' = 0
        /\ page_count' = 0 /\ run_start' = 0 /\ run_length' = 0
        /\ UNCHANGED <<memVars, region, page_bitmap, page_metadata, live, committed>>
    BY DEF AllocatePage, Start, arrays
  <1>2. LoopsTypeOK'
    BY <1>1 DEF LoopsInv, LoopsTypeOK, ArraysOK, CommittedOK, Loops
  <1>3. SearchInv'
    <2>1. Untouched'
      BY <1>1 DEF LoopsInv, SearchInv, Untouched, bit
    <2> QED
      BY <1>1, <2>1, Sizes DEF SearchInv
  <1>4. live' = committed'.live
    BY <1>1 DEF LoopsInv, FreeInv
  <1>5. UNCHANGED Abstract!vars
    BY <1>1, NoAbstractStep DEF abstract_phase
  <1> QED
    BY <1>1, <1>2, <1>3, <1>4, <1>5, OtherLoops, TablesStay DEF Implements, LoopsInv

LEMMA SearchUsedImplements ==
    ASSUME LoopsInv, SearchUsed
    PROVE  Implements
  <1>1. /\ loop = "search" /\ n < TOTAL_PAGES /\ is_page_used(n * PAGE_SIZE) /\ n' = n + 1
        /\ UNCHANGED <<memVars, region, loop, page_count, run_start, run_length,
                       page_bitmap, page_metadata, live, committed>>
    BY DEF SearchUsed, Continue, arrays
  <1>2. n \in Nat /\ n \in PageIndex
    BY <1>1, Sizes DEF LoopsInv, LoopsTypeOK
  <1>3. LoopsTypeOK'
    BY <1>1, <1>2 DEF LoopsInv, LoopsTypeOK, ArraysOK, CommittedOK
  <1>4. SearchInv'
    <2>1. Untouched'
      BY <1>1 DEF LoopsInv, SearchInv, Untouched, bit
    <2>2. bit(n)
      BY <1>1, <1>2, PageUsed
    <2>3. ASSUME NEW p \in PageIndex, p < n'
          PROVE  bit(p)'
      <3>1. p = n \/ p < n
        BY <1>1, <1>2, <2>3, Sizes
      <3>2. p < n => bit(p)
        BY <1>1 DEF LoopsInv, SearchInv
      <3>3. bit(p)
        BY <2>2, <3>1, <3>2
      <3> QED
        BY <1>1, <3>3 DEF bit
    <2>4. n' <= TOTAL_PAGES
      BY <1>1, <1>2, Sizes
    <2> QED
      BY <1>1, <2>1, <2>3, <2>4 DEF SearchInv
  <1>5. live' = committed'.live
    BY <1>1 DEF LoopsInv, FreeInv
  <1>6. UNCHANGED Abstract!vars
    BY <1>1, NoAbstractStep DEF abstract_phase
  <1> QED
    BY <1>1, <1>3, <1>4, <1>5, <1>6, OtherLoops, TablesStay DEF Implements, LoopsInv

\* No page below the one found is free.
LEMMA SearchFreeImplements ==
    ASSUME LoopsInv, SearchFree
    PROVE  Implements
  <1>1. /\ loop = "search" /\ n < TOTAL_PAGES /\ is_page_free(n * PAGE_SIZE)
        /\ mark_page_used(n * PAGE_SIZE)
        /\ live' = IF n = 0 THEN live ELSE live \cup {n}
        /\ Return /\ UNCHANGED <<memVars, region>>
    BY DEF SearchFree
  <1>2. /\ LoopsTypeOK /\ Untouched /\ live = committed.live
        /\ n \in Nat /\ n \in PageIndex /\ n = (n + 1) - 1 /\ n + 1 <= TOTAL_PAGES
    BY <1>1, Sizes DEF LoopsInv, LoopsTypeOK, SearchInv, FreeInv
  <1>3. PICK first \in PageIndex : first = n
    BY <1>2
  <1>4. /\ page_index(first * PAGE_SIZE) = first /\ first * PAGE_SIZE \in Nat /\ ~ bit(first)
    BY <1>1, <1>3, PageUsed
  <1>5. ArraysOK' /\ MarksUsed({} \cup {first})
    <2>1. MarkedUsed({})
      BY <1>2, NothingMarked
    <2>2. mark_page_used(first * PAGE_SIZE)
      BY <1>1, <1>3
    <2> QED
      BY <1>2, <1>4, <2>1, <2>2, UsedMarked
  <1>6. first .. (first + 1 - 1) = {first}
    BY <1>2, <1>3
  <1>7. free_run(first, 1)
    BY <1>2, <1>3, <1>4, <1>6 DEF free_run, Untouched
  <1>8. ASSUME NEW p \in PageIndex, free_run(p, 1)
        PROVE  first <= p
    <2>1. p \in Nat /\ p \in p .. (p + 1 - 1)
      BY Sizes
    <2>2. ~ bit(p)
      BY <1>2, <1>8, <2>1 DEF free_run, Untouched
    <2>3. ~ (p < n)
      BY <1>1, <2>2 DEF LoopsInv, SearchInv
    <2> QED
      BY <1>2, <1>3, <2>1, <2>3
  <1>9. MarksUsed(first .. (first + 1 - 1))
    BY <1>5, <1>6 DEF MarksUsed
  <1>10. Commit /\ live' = IF first = 0 THEN live ELSE live \cup first .. (first + 1 - 1)
    BY <1>1, <1>3, <1>6 DEF Return
  <1>11. \E address \in Abstract!Returned : Abstract!allocate(1, address)
    <2>1. 1 \in Nat \ {0}
      OBVIOUS
    <2> QED
      BY <1>2, <1>5, <1>7, <1>8, <1>9, <1>10, <2>1, Allocates
  <1>12. Abstract!AllocatePage
    BY <1>1, <1>5, <1>11, SameTables, Returns
    DEF Abstract!AllocatePage, Abstract!allocate_page, Abstract!bootStutter, abstract_phase,
        memVars, Abstract!memVars
  <1> QED
    BY <1>1, <1>5, <1>12, Returns DEF Implements, Abstract!Next


\* A search that reaches the last page has seen no run.
LEMMA NoneFoundImplements ==
    ASSUME LoopsInv, NoneFound
    PROVE  Implements
  <1>1. /\ loop \in {"search", "count"} /\ n >= TOTAL_PAGES
        /\ Return /\ UNCHANGED <<memVars, region, arrays, live>>
    BY DEF NoneFound
  <1>2. /\ LoopsTypeOK /\ Untouched /\ live = committed.live /\ ArraysOK' /\ Commit
    BY <1>1 DEF LoopsInv, LoopsTypeOK, SearchInv, FreeInv, ArraysOK, arrays, Return
  <1>4. CASE loop = "search"
    <2>1. ASSUME NEW p \in PageIndex
          PROVE  ~ free_run(p, 1)
      <3>1. p \in Nat /\ p \in p .. (p + 1 - 1) /\ p < TOTAL_PAGES
        BY Sizes
      <3>2. p < n
        BY <1>1, <3>1, Sizes DEF LoopsInv, LoopsTypeOK
      <3>3. bit(p)
        BY <1>4, <3>2 DEF LoopsInv, SearchInv
      <3> QED
        BY <1>2, <3>1, <3>3 DEF free_run, Untouched
    <2>2. \E address \in Abstract!Returned : Abstract!allocate(1, address)
      <3>1. 1 \in Nat \ {0}
        OBVIOUS
      <3> QED
        BY <1>1, <1>2, <2>1, <3>1, Fails
    <2>3. Abstract!AllocatePage
      BY <1>1, <1>2, <1>4, <2>2, SameTables, Returns
      DEF Abstract!AllocatePage, Abstract!allocate_page, Abstract!bootStutter, abstract_phase,
          memVars, Abstract!memVars
    <2> QED
      BY <1>1, <1>2, <2>3, Returns DEF Implements, Abstract!Next
  <1>5. CASE loop = "count"
    <2>1. /\ page_count \in Nat \ {0} /\ page_count <= TOTAL_PAGES + 1
          /\ n \in Nat /\ n = TOTAL_PAGES
      <3>1. /\ page_count \in Nat /\ run_length \in Nat /\ run_length < page_count
            /\ page_count <= TOTAL_PAGES + 1 /\ n \in Nat /\ n <= TOTAL_PAGES
        BY <1>5 DEF LoopsInv, LoopsTypeOK, CountInv
      <3> QED
        BY <1>1, <3>1, Sizes
    <2>2. PICK count \in Nat \ {0} : count = page_count
      BY <2>1
    <2>3. ASSUME NEW p \in PageIndex
          PROVE  ~ free_run(p, count)
      <3>1. p \in Nat
        BY Sizes
      <3>2. SUFFICES ASSUME p + count <= TOTAL_PAGES
                     PROVE  \E q \in p .. (p + count - 1) : committed.bitmap[q]
        BY DEF free_run
      <3>3. p + page_count <= n
        BY <2>1, <2>2, <3>2
      <3>4. PICK q \in p .. (p + page_count - 1) : bit(q)
        BY <1>5, <3>1, <3>3 DEF LoopsInv, CountInv
      <3>5. q \in PageIndex
        BY <2>1, <2>2, <3>1, <3>2, Sizes
      <3> QED
        BY <1>2, <2>2, <3>4, <3>5 DEF Untouched
    <2>4. \E address \in Abstract!Returned : Abstract!allocate(count, address)
      BY <1>1, <1>2, <2>3, Fails
    <2>5. count \in Abstract!PageCounts
      BY <2>1, <2>2, Sizes DEF Abstract!PageCounts
    <2>6. Abstract!AllocateContiguousPages(count)
      BY <1>1, <1>2, <1>5, <2>4, SameTables, Returns
      DEF Abstract!AllocateContiguousPages, Abstract!allocate_contiguous_pages,
          Abstract!bootStutter, abstract_phase, memVars, Abstract!memVars
    <2> QED
      BY <1>1, <1>2, <2>5, <2>6, Returns DEF Implements, Abstract!Next
  <1> QED
    BY <1>1, <1>4, <1>5

LEMMA AllocateContiguousPagesImplements ==
    ASSUME LoopsInv, NEW count \in Counts, AllocateContiguousPages(count)
    PROVE  Implements
  <1>1. /\ loop = "none" /\ count # 0 /\ loop' = "count" /\ page_count' = count
        /\ UNCHANGED <<memVars, region, n, run_start, run_length,
                       page_bitmap, page_metadata, live, committed>>
    BY DEF AllocateContiguousPages, arrays
  <1>2. count \in Nat /\ count > 0 /\ count <= TOTAL_PAGES + 1
    BY <1>1, Sizes, PageLoopsAssumption
  <1>3. n = 0 /\ run_start = 0 /\ run_length = 0 /\ Untouched
    BY <1>1 DEF LoopsInv, SearchInv
  <1>4. LoopsTypeOK'
    BY <1>1, <1>2 DEF LoopsInv, LoopsTypeOK, ArraysOK, CommittedOK, Loops
  <1>5. SearchInv'
    BY <1>1, <1>3 DEF SearchInv, Untouched, bit
  <1>6. CountInv'
    <2>1. n' = 0 /\ run_length' = 0 /\ page_count' = count
      BY <1>1, <1>3
    <2>2. \A first \in Nat : ~ (first + count <= 0)
      BY <1>2
    <2> QED
      BY <1>2, <2>1, <2>2, Sizes DEF CountInv
  <1>7. live' = committed'.live
    BY <1>1 DEF LoopsInv, FreeInv
  <1>8. UNCHANGED Abstract!vars
    BY <1>1, NoAbstractStep DEF abstract_phase
  <1> QED
    BY <1>1, <1>4, <1>5, <1>6, <1>7, <1>8, OtherLoops, TablesStay DEF Implements, LoopsInv

\* The lengths in the count loop, as numbers.
LEMMA CountFacts ==
    ASSUME LoopsInv, loop = "count", n < TOTAL_PAGES
    PROVE  /\ n \in Nat /\ n \in PageIndex /\ page_count \in Nat /\ run_length \in Nat
           /\ run_start \in Nat
           /\ run_length < page_count /\ run_length <= n /\ page_count <= TOTAL_PAGES + 1
           /\ Untouched /\ live = committed.live
  BY Sizes DEF LoopsInv, LoopsTypeOK, CountInv, SearchInv, FreeInv

LEMMA CountUsedImplements ==
    ASSUME LoopsInv, CountUsed
    PROVE  Implements
  <1>1. /\ loop = "count" /\ n < TOTAL_PAGES /\ is_page_used(n * PAGE_SIZE)
        /\ run_start' = 0 /\ run_length' = 0 /\ n' = n + 1
        /\ UNCHANGED <<memVars, loop, region, page_count,
                       page_bitmap, page_metadata, live, committed>>
    BY DEF CountUsed, arrays
  <1>2. LoopsTypeOK'
    BY <1>1, CountFacts DEF LoopsInv, LoopsTypeOK, ArraysOK, CommittedOK
  <1>3. SearchInv'
    BY <1>1, CountFacts DEF SearchInv, Untouched, bit
  <1>4. bit(n)
    BY <1>1, CountFacts, PageUsed
  <1>5. ASSUME NEW first \in Nat, first + page_count <= n + 1
        PROVE  \E p \in first .. (first + page_count - 1) : bit(p)
    <2>1. CASE first + page_count <= n
      BY <1>1, <2>1 DEF LoopsInv, CountInv
    <2>2. CASE ~ (first + page_count <= n)
      <3>1. n \in first .. (first + page_count - 1)
        BY <1>1, <1>5, <2>2, CountFacts
      <3> QED
        BY <1>4, <3>1
    <2> QED
      BY <2>1, <2>2
  <1>6. CountInv'
    <2>1. /\ page_count' <= TOTAL_PAGES + 1 /\ n' <= TOTAL_PAGES
          /\ run_length' < page_count' /\ run_length' <= n'
      BY <1>1, CountFacts, Sizes
    <2>2. (n' - run_length') .. (n' - 1) = {}
      BY <1>1, CountFacts
    <2>3. n' - run_length' - 1 = n
      BY <1>1, CountFacts
    <2>4. \A p : bit(p)' <=> bit(p)
      BY <1>1 DEF bit
    <2> QED
      BY <1>1, <1>4, <1>5, <2>1, <2>2, <2>3, <2>4 DEF CountInv
  <1>7. live' = committed'.live
    BY <1>1, CountFacts
  <1>8. UNCHANGED Abstract!vars
    BY <1>1, NoAbstractStep DEF abstract_phase
  <1> QED
    BY <1>1, <1>2, <1>3, <1>6, <1>7, <1>8, OtherLoops, TablesStay DEF Implements, LoopsInv


\* The pages of the current run with one page more.
LEMMA LongerRun ==
    ASSUME LoopsInv, loop = "count", n < TOTAL_PAGES, ~ bit(n),
           NEW first \in Nat, first = n - run_length
    PROVE  /\ \A p \in first .. n : ~ bit(p)
           /\ first # 0 => bit(first - 1)
           /\ run_length # 0 => run_start = first * PAGE_SIZE
  <1>1. ASSUME NEW p \in first .. n
        PROVE  ~ bit(p)
    <2>1. p = n \/ p \in (n - run_length) .. (n - 1)
      BY <1>1, CountFacts
    <2> QED
      BY <2>1 DEF LoopsInv, CountInv
  <1>2. first # 0 => run_length < n
    BY CountFacts
  <1>3. n - run_length - 1 = first - 1
    BY CountFacts
  <1> QED
    BY <1>1, <1>2, <1>3 DEF LoopsInv, CountInv

\* A run that reaches page n + 1 and is longer than the current one meets the
\* used page before that.
LEMMA LongerRunsUsed ==
    ASSUME LoopsInv, loop = "count", n < TOTAL_PAGES, ~ bit(n),
           NEW start \in Nat, start + page_count <= n + 1,
           start + page_count = n + 1 => run_length + 1 < page_count
    PROVE  \E p \in start .. (start + page_count - 1) : bit(p)
  <1>1. CASE start + page_count <= n
    BY <1>1 DEF LoopsInv, CountInv
  <1>2. CASE ~ (start + page_count <= n)
    <2>1. start + page_count = n + 1 /\ start < n - run_length
      BY <1>2, CountFacts
    <2>2. PICK first \in Nat : first = n - run_length
      BY CountFacts
    <2>3. first # 0 /\ first - 1 \in start .. (start + page_count - 1)
      BY <2>1, <2>2, CountFacts
    <2>4. bit(first - 1)
      BY <2>2, <2>3, LongerRun
    <2> QED
      BY <2>3, <2>4
  <1> QED
    BY <1>1, <1>2

LEMMA CountFreeImplements ==
    ASSUME LoopsInv, CountFree
    PROVE  Implements
  <1>1. /\ loop = "count" /\ n < TOTAL_PAGES /\ is_page_free(n * PAGE_SIZE)
        /\ run_start' = IF run_length = 0 THEN n * PAGE_SIZE ELSE run_start
        /\ run_length' = run_length + 1
        /\ IF run_length' = page_count THEN loop' = "mark" /\ n' = 0
                                       ELSE n' = n + 1 /\ loop' = loop
        /\ UNCHANGED <<memVars, region, page_count, page_bitmap, page_metadata,
                       live, committed>>
    BY DEF CountFree, arrays
  <1>2. ~ bit(n)
    BY <1>1, CountFacts, PageUsed
  <1>3. PICK first \in Nat : first = n - run_length
    BY <1>1, CountFacts
  <1>4. /\ \A p \in first .. n : ~ bit(p)
        /\ first # 0 => bit(first - 1)
        /\ run_start' = first * PAGE_SIZE
    <2>1. run_length = 0 => first = n
      BY <1>1, <1>3, CountFacts
    <2> QED
      BY <1>1, <1>2, <1>3, <2>1, LongerRun
  <1>5. run_start' \in Nat /\ run_length' \in Nat
    <2>1. first * PAGE_SIZE \in Nat
      BY Sizes
    <2>2. run_length' \in Nat
      BY <1>1, CountFacts
    <2> QED
      BY <1>4, <2>1, <2>2
  <1>6. live' = committed'.live
    BY <1>1, CountFacts
  <1>7. UNCHANGED Abstract!vars
    BY <1>1, NoAbstractStep DEF abstract_phase
  <1>8. CASE run_length' # page_count
    <2>1. loop' = "count" /\ n' = n + 1
      BY <1>1, <1>8
    <2>2. LoopsTypeOK'
      BY <1>1, <1>5, <2>1, CountFacts DEF LoopsInv, LoopsTypeOK, ArraysOK, CommittedOK
    <2>3. SearchInv'
      BY <1>1, <2>1, CountFacts DEF SearchInv, Untouched, bit
    <2>4. CountInv'
      <3>1. /\ page_count' <= TOTAL_PAGES + 1 /\ n' <= TOTAL_PAGES
            /\ run_length' < page_count' /\ run_length' <= n'
        BY <1>1, <1>8, <2>1, CountFacts, Sizes
      <3>2. /\ (n' - run_length') .. (n' - 1) = first .. n
            /\ run_length' < n' => first # 0
            /\ n' - run_length' - 1 = first - 1
            /\ n' - run_length' = first
        BY <1>1, <1>3, <2>1, CountFacts
      <3>3. ASSUME NEW start \in Nat, start + page_count <= n + 1
            PROVE  \E p \in start .. (start + page_count - 1) : bit(p)
        <4>1. run_length + 1 < page_count
          BY <1>1, <1>8, CountFacts
        <4> QED
          BY <1>1, <1>2, <3>3, <4>1, LongerRunsUsed
      <3>4. \A p : bit(p)' <=> bit(p)
        BY <1>1 DEF bit
      <3>5. page_count' = page_count
        BY <1>1
      <3>6. \A p \in (n' - run_length') .. (n' - 1) : ~ bit(p)'
        BY <1>4, <3>2, <3>4
      <3>7. (run_length < n => bit(n - run_length - 1))'
        <4>1. run_length' < n' => bit(first - 1)
          BY <1>4, <3>2
        <4>2. bit(n - run_length - 1)' <=> bit(first - 1)
          <5>1. n' - run_length' - 1 = first - 1 /\ page_bitmap' = page_bitmap
            BY <1>1, <3>2
          <5> QED
            BY <5>1 DEF bit
        <4> QED
          BY <4>1, <4>2
      <3>8. run_length' # 0 => run_start' = (n' - run_length') * PAGE_SIZE
        BY <1>4, <3>2
      <3>9. \A start \in Nat : start + page_count' <= n' =>
               \E p \in start .. (start + page_count' - 1) : bit(p)'
        BY <2>1, <3>3, <3>4, <3>5
      <3> QED
        BY <3>1, <3>6, <3>7, <3>8, <3>9 DEF CountInv
    <2> QED
      BY <1>1, <1>6, <1>7, <2>1, <2>2, <2>3, <2>4, OtherLoops, TablesStay
      DEF Implements, LoopsInv
  <1>9. CASE run_length' = page_count
    <2>1. loop' = "mark" /\ n' = 0
      BY <1>1, <1>9
    <2>2. LoopsTypeOK'
      BY <1>1, <1>5, <2>1, CountFacts DEF LoopsInv, LoopsTypeOK, ArraysOK, CommittedOK, Loops
    <2>3. first \in PageIndex /\ first + page_count = n + 1 /\ page_count # 0
      BY <1>1, <1>3, <1>9, CountFacts, Sizes
    <2>4. PICK count \in Nat \ {0} : count = page_count
      BY <1>1, <2>3, CountFacts
    <2>5. free_run(first, count)
      <3>1. first + count <= TOTAL_PAGES /\ first .. (first + count - 1) = first .. n
        BY <1>1, <2>3, <2>4, CountFacts, Sizes
      <3>2. \A q \in first .. n : q \in PageIndex
        BY <1>1, CountFacts, Sizes
      <3> QED
        BY <1>1, <1>4, <3>1, <3>2, CountFacts DEF free_run, Untouched
    <2>6. ASSUME NEW p \in PageIndex, free_run(p, count)
          PROVE  first <= p
      <3>1. SUFFICES ASSUME p < first PROVE FALSE
        BY Sizes
      <3>2. p \in Nat /\ p + page_count <= n
        BY <1>1, <2>3, <3>1, CountFacts, Sizes
      <3>3. PICK q \in p .. (p + page_count - 1) : bit(q)
        BY <1>1, <3>2 DEF LoopsInv, CountInv
      <3>4. q \in PageIndex
        BY <1>1, <3>2, CountFacts, Sizes
      <3> QED
        BY <1>1, <2>4, <2>6, <3>3, <3>4, CountFacts DEF free_run, Untouched
    <2>7. MarkInv'
      <3>1. run_first' = first /\ run_start' = first * PAGE_SIZE
        BY <1>4, PageOfAddress DEF run_first
      <3>2. \A p : free_run(p, page_count)' <=> free_run(p, count)
        BY <1>1, <2>4 DEF free_run
      <3>3. MarkedUsed({})'
        <4>1. (LoopsTypeOK /\ Untouched => MarkedUsed({}))'
          BY NothingMarked, PTL
        <4>2. Untouched'
          BY <1>1, CountFacts DEF Untouched, bit
        <4> QED
          BY <2>2, <4>1, <4>2
      <3>4. first .. (first + n' - 1) = {}
        BY <2>1
      <3>5. n' <= page_count' /\ page_count' # 0
        BY <1>1, <2>1, <2>3, CountFacts
      <3>6. MarkedUsed(run_first .. (run_first + n - 1))'
        BY <3>1, <3>3, <3>4 DEF MarkedUsed
      <3> QED
        BY <2>5, <2>6, <3>1, <3>2, <3>5, <3>6, <2>3 DEF MarkInv
    <2> QED
      BY <1>1, <1>6, <1>7, <2>1, <2>2, <2>7, OtherLoops, TablesStay DEF Implements, LoopsInv
  <1> QED
    BY <1>8, <1>9


\* The page that a round of the marking loop marks.
LEMMA MarkFacts ==
    ASSUME LoopsInv, loop = "mark"
    PROVE  /\ n \in Nat /\ n <= page_count /\ page_count \in Nat \ {0}
           /\ run_first \in PageIndex /\ run_first + page_count <= TOTAL_PAGES
           /\ run_start = run_first * PAGE_SIZE
           /\ live = committed.live
           /\ n < page_count => /\ run_first + n \in PageIndex
                                /\ add_u64(run_start, n * PAGE_SIZE)
                                      = (run_first + n) * PAGE_SIZE
  <1>1. /\ n \in Nat /\ n <= page_count /\ page_count \in Nat \ {0}
        /\ run_first \in PageIndex /\ run_first + page_count <= TOTAL_PAGES
        /\ run_start = run_first * PAGE_SIZE
        /\ live = committed.live
    BY DEF LoopsInv, LoopsTypeOK, MarkInv, FreeInv, free_run
  <1>2. ASSUME n < page_count
        PROVE  /\ run_first + n \in PageIndex
               /\ add_u64(run_start, n * PAGE_SIZE) = (run_first + n) * PAGE_SIZE
    <2>1. PICK first \in Nat : first = run_first
      BY <1>1, Sizes
    <2>2. PICK q \in Nat : q = first + n
      BY <1>1, <2>1
    <2>3. q \in PageIndex
      BY <1>1, <1>2, <2>1, <2>2, Sizes
    <2>4. run_start + n * PAGE_SIZE = q * PAGE_SIZE
      BY <1>1, <2>1, <2>2, Sizes
    <2>5. q * PAGE_SIZE \in Nat /\ q * PAGE_SIZE < U64
      <3>1. page_index(q * PAGE_SIZE) \in PageIndex /\ q * PAGE_SIZE \in Nat
        BY <2>3, PageUsed
      <3>2. q * PAGE_SIZE < MAX_PHYSICAL_MEMORY
        BY <3>1, PageOfAddress
      <3> QED
        BY <3>1, <3>2, Sizes
    <2>6. add_u64(run_start, n * PAGE_SIZE) = q * PAGE_SIZE
      BY <2>4, <2>5 DEF add_u64
    <2> QED
      BY <2>1, <2>2, <2>3, <2>6
  <1> QED
    BY <1>1, <1>2

LEMMA MarkRunPageImplements ==
    ASSUME LoopsInv, MarkRunPage
    PROVE  Implements
  <1>1. /\ loop = "mark" /\ n < page_count
        /\ mark_page_used(add_u64(run_start, n * PAGE_SIZE)) /\ n' = n + 1
        /\ UNCHANGED <<memVars, loop, region, page_count, run_start, run_length,
                       live, committed>>
    BY DEF MarkRunPage, Continue
  <1>2. LoopsTypeOK /\ MarkedUsed(run_first .. (run_first + n - 1))
    BY <1>1 DEF LoopsInv, MarkInv
  <1>3. PICK first \in PageIndex : first = run_first
    BY <1>1, MarkFacts
  <1>4. PICK p \in PageIndex : p = first + n
    BY <1>1, <1>3, MarkFacts
  <1>5. PICK pages : pages = first .. (first + n - 1)
    OBVIOUS
  <1>6. ArraysOK' /\ MarksUsed(pages \cup {p})
    <2>1. p * PAGE_SIZE \in Nat /\ page_index(p * PAGE_SIZE) = p
      BY PageUsed
    <2>2. mark_page_used(p * PAGE_SIZE) /\ MarkedUsed(pages)
      BY <1>1, <1>2, <1>3, <1>4, <1>5, MarkFacts
    <2> QED
      BY <1>2, <2>1, <2>2, UsedMarked
  <1>7. pages \cup {p} = first .. (first + n' - 1)
    <2>1. first \in Nat /\ n \in Nat /\ n' = n + 1
      BY <1>1, MarkFacts, Sizes
    <2> QED
      BY <1>4, <1>5, <2>1
  <1>8. MarkedUsed(pages \cup {p})'
    BY <1>1, <1>6, StillMarked
  <1>9. run_first' = first
    BY <1>1, <1>3 DEF run_first
  <1>10. MarkInv'
    <2>1. MarkedUsed(run_first .. (run_first + n - 1))'
      BY <1>7, <1>8, <1>9 DEF MarkedUsed
    <2>2. n' <= page_count' /\ page_count' # 0
      BY <1>1, MarkFacts
    <2>3. run_first' = run_first
          /\ \A q : free_run(q, page_count)' <=> free_run(q, page_count)
      BY <1>1, <1>3, <1>9 DEF free_run
    <2>4. run_start' = run_first' * PAGE_SIZE
      BY <1>1, <2>3, MarkFacts
    <2> QED
      BY <1>1, <1>9, <2>1, <2>2, <2>3, <2>4 DEF LoopsInv, MarkInv, free_run
  <1>11. LoopsTypeOK'
    <2>1. n' \in Nat
      BY <1>1, MarkFacts
    <2> QED
      BY <1>1, <1>2, <1>6, <2>1 DEF LoopsTypeOK, CommittedOK
  <1>12. live' = committed'.live
    BY <1>1, MarkFacts
  <1>13. UNCHANGED Abstract!vars
    BY <1>1, NoAbstractStep DEF abstract_phase
  <1> QED
    BY <1>1, <1>10, <1>11, <1>12, <1>13, OtherLoops, TablesStay DEF Implements, LoopsInv

LEMMA RunMarkedImplements ==
    ASSUME LoopsInv, RunMarked
    PROVE  Implements
  <1>1. /\ loop = "mark" /\ n >= page_count
        /\ live' = IF run_start = 0 THEN live
                   ELSE live \cup {page_index(run_start) + k : k \in 0 .. (page_count - 1)}
        /\ Return /\ Commit /\ UNCHANGED <<memVars, region, arrays>>
    BY DEF RunMarked, Return
  <1>2. /\ LoopsTypeOK /\ MarkedUsed(run_first .. (run_first + n - 1)) /\ ArraysOK'
        /\ live = committed.live
    BY <1>1, MarkFacts DEF LoopsInv, LoopsTypeOK, MarkInv, ArraysOK, arrays
  <1>3. PICK first \in PageIndex : first = run_first
    BY <1>1, MarkFacts
  <1>4. PICK count \in Nat \ {0} : count = page_count
    BY <1>1, MarkFacts
  <1>5. n = count /\ first \in Nat /\ count <= TOTAL_PAGES
    BY <1>1, <1>3, <1>4, MarkFacts, Sizes
  <1>6. MarksUsed(first .. (first + count - 1))
    BY <1>1, <1>2, <1>3, <1>5, AllMarked
  <1>8. free_run(first, count) /\ \A p \in PageIndex : free_run(p, count) => first <= p
    BY <1>1, <1>3, <1>4 DEF LoopsInv, MarkInv
  <1>9. live' = IF first = 0 THEN live ELSE live \cup first .. (first + count - 1)
    <2>1. run_start = 0 <=> first = 0
      BY <1>1, <1>3, MarkFacts, Sizes
    <2>2. {page_index(run_start) + k : k \in 0 .. (page_count - 1)}
             = first .. (first + count - 1)
      <3>1. page_index(run_start) = first /\ page_count = count
        BY <1>3, <1>4 DEF run_first
      <3>2. \A x \in first .. (first + count - 1) :
               x - first \in 0 .. (count - 1) /\ x = first + (x - first)
        BY <1>5
      <3>3. \A k \in 0 .. (count - 1) : first + k \in first .. (first + count - 1)
        BY <1>5
      <3> QED
        BY <3>1, <3>2, <3>3
    <2> QED
      BY <1>1, <2>1, <2>2
  <1>10. \E address \in Abstract!Returned : Abstract!allocate(count, address)
    BY <1>1, <1>2, <1>6, <1>8, <1>9, Allocates
  <1>11. count \in Abstract!PageCounts
    BY <1>5, Sizes DEF Abstract!PageCounts
  <1>12. Abstract!AllocateContiguousPages(count)
    BY <1>1, <1>2, <1>10, SameTables, Returns
    DEF Abstract!AllocateContiguousPages, Abstract!allocate_contiguous_pages,
        Abstract!bootStutter, abstract_phase, memVars, Abstract!memVars
  <1> QED
    BY <1>1, <1>2, <1>11, <1>12, Returns DEF Implements, Abstract!Next

-----------------------------------------------------------------------------
(***************************************************************************)
(* Freeing.                                                                *)
(***************************************************************************)

LEMMA FreedBy ==
    ASSUME NEW addresses
    PROVE  Abstract!freed_by(addresses) = pages_freed(addresses)
  BY SamePages DEF Abstract!freed_by, pages_freed, page_index

\* One free_page more.
LEMMA OneFreed ==
    ASSUME LoopsTypeOK, NEW address \in Nat, free_page(address),
           NEW pages, MarkedFree(pages), live = committed.live \ cleared(pages)
    PROVE  /\ ArraysOK' /\ MarksFree(pages \cup pages_freed({address}))
           /\ live' = committed.live \ cleared(pages \cup pages_freed({address}))
  <1> DEFINE p == page_index(address)
  <1>1. CASE may_free(address)
    <2>1. /\ mark_page_free(address)
          /\ live' = IF clears(address) THEN live \ {p} ELSE live
      BY <1>1 DEF free_page
    <2>2. pages_freed({address}) = {p}
      BY <1>1 DEF pages_freed
    <2>3. p \in PageIndex
      BY <1>1, PageOfAddress DEF may_free
    <2>4. /\ ArraysOK' /\ MarksFree(pages \cup {p})
          /\ clears(address) <=> p \in cleared({p}) /\ p \notin cleared(pages)
      BY <2>1, <2>3, FreeMarked
    <2>5. cleared(pages \cup {p}) = cleared(pages) \cup cleared({p})
          /\ cleared({p}) \subseteq {p}
      BY DEF cleared
    <2> HIDE DEF p
    <2>6. live' = committed.live \ cleared(pages \cup {p})
      BY <2>1, <2>4, <2>5
    <2> QED
      BY <2>2, <2>4, <2>6
  <1>2. CASE ~ may_free(address)
    <2>1. UNCHANGED <<arrays, live>>
      BY <1>2 DEF free_page
    <2>2. pages \cup pages_freed({address}) = pages
      BY <1>2 DEF pages_freed
    <2>3. ArraysOK'
      BY <2>1 DEF LoopsTypeOK, ArraysOK, arrays
    <2> QED
      BY <2>1, <2>2, <2>3, AllMarked
  <1> QED
    BY <1>1, <1>2

\* Freeing done, PageAllocator frees the same addresses.
LEMMA Frees ==
    ASSUME LoopsTypeOK, ArraysOK', Commit, NEW addresses,
           MarksFree(pages_freed(addresses)),
           live' = committed.live \ cleared(pages_freed(addresses))
    PROVE  Abstract!free(addresses)
  <1>1. Abstract!mark_free(pages_freed(addresses))
    BY CommitsFree
  <1>2. committed'.live = live'
    BY Committed
  <1>3. Abstract!clearable(pages_freed(addresses)) = cleared(pages_freed(addresses))
    BY SamePages
  <1> QED
    BY <1>1, <1>2, <1>3, FreedBy DEF Abstract!free

LEMMA FreePageImplements ==
    ASSUME LoopsInv, NEW address \in Addresses, FreePage(address)
    PROVE  Implements
  <1>1. /\ loop = "none" /\ free_page(address) /\ Return /\ Commit
        /\ UNCHANGED <<memVars, region>>
    BY DEF FreePage, Return
  <1>2. address \in Address /\ address \in Nat
    BY PageLoopsAssumption, Sizes DEF Address
  <1>3. LoopsTypeOK /\ Untouched /\ live = committed.live
    BY <1>1 DEF LoopsInv, SearchInv, FreeInv
  <1>4. MarkedFree({}) /\ live = committed.live \ cleared({})
    BY <1>3, NothingMarked DEF cleared
  <1>5. /\ ArraysOK' /\ MarksFree({} \cup pages_freed({address}))
        /\ live' = committed.live \ cleared({} \cup pages_freed({address}))
    BY <1>1, <1>2, <1>3, <1>4, OneFreed
  <1>6. {} \cup pages_freed({address}) = pages_freed({address})
    OBVIOUS
  <1>7. Abstract!free({address})
    BY <1>1, <1>3, <1>5, <1>6, Frees
  <1>8. Abstract!FreePage(address)
    BY <1>1, <1>5, <1>7, SameTables, Returns
    DEF Abstract!FreePage, Abstract!free_page,
        Abstract!bootStutter, abstract_phase, memVars, Abstract!memVars
  <1> QED
    BY <1>1, <1>2, <1>5, <1>8, SamePages, Returns DEF Implements, Abstract!Next

\* One address more gives back what free_page does.
LEMMA OneMoreGivenBack ==
    ASSUME NEW count \in Nat, NEW start \in Nat
    PROVE  pages_freed(run_addresses(start, count + 1))
              = pages_freed(run_addresses(start, count))
                   \cup pages_freed({add_u64(start, PAGE_SIZE * count)})
  <1>1. run_addresses(start, count + 1)
           = run_addresses(start, count) \cup {add_u64(start, PAGE_SIZE * count)}
    <2>1. 0 .. (count + 1 - 1) = 0 .. (count - 1) \cup {count}
      OBVIOUS
    <2> QED
      BY <2>1 DEF run_addresses
  <1>2. \A a, b : pages_freed(a \cup b) = pages_freed(a) \cup pages_freed(b)
    BY DEF pages_freed
  <1> QED
    BY <1>1, <1>2

LEMMA FreeContiguousPagesImplements ==
    ASSUME LoopsInv, NEW address \in Addresses, NEW count \in Counts,
           FreeContiguousPages(address, count)
    PROVE  Implements
  <1>1. /\ loop = "none" /\ count # 0 /\ is_page_aligned(address)
        /\ loop' = "free" /\ run_start' = address /\ page_count' = count
        /\ UNCHANGED <<memVars, region, n, run_length,
                       page_bitmap, page_metadata, live, committed>>
    BY DEF FreeContiguousPages, arrays
  <1>2. /\ address \in Nat /\ address < U64 /\ count \in Nat /\ count <= TOTAL_PAGES + 1
    BY PageLoopsAssumption, Sizes DEF Address
  <1>3. n = 0 /\ Untouched /\ live = committed.live
    BY <1>1 DEF LoopsInv, SearchInv, FreeInv
  <1>4. LoopsTypeOK'
    BY <1>1, <1>2 DEF LoopsInv, LoopsTypeOK, ArraysOK, CommittedOK, Loops
  <1>5. MarkedFree({})'
    <2>1. (LoopsTypeOK /\ Untouched => MarkedFree({}))'
      BY NothingMarked, PTL
    <2>2. Untouched'
      BY <1>1, <1>3 DEF Untouched, bit
    <2> QED
      BY <1>4, <2>1, <2>2
  <1>6. FreeInv'
    <2>1. n' = 0 /\ n' <= page_count' /\ page_count' # 0 /\ page_count' <= TOTAL_PAGES + 1
          /\ run_start' < U64 /\ is_page_aligned(run_start')
      BY <1>1, <1>2, <1>3
    <2>2. given_back(n)' = {}
      BY <2>1 DEF given_back, run_addresses, pages_freed
    <2>3. live' = committed'.live \ cleared({})'
      BY <1>1, <1>3 DEF cleared
    <2> QED
      BY <1>1, <1>5, <2>1, <2>2, <2>3 DEF FreeInv, is_page_aligned
  <1>7. UNCHANGED Abstract!vars
    BY <1>1, NoAbstractStep DEF abstract_phase
  <1> QED
    BY <1>1, <1>4, <1>6, <1>7, OtherLoops, TablesStay DEF Implements, LoopsInv

\* A run as long as the tracked memory wraps at most once.
LEMMA WrapsOnce ==
    ASSUME NEW a \in Nat, NEW b \in Nat, a < U64, b <= U64
    PROVE  (a + b) % U64 = add_u64(a, b)
  <1>1. U64 \in Nat \ {0}
    BY PagesAssumption
  <1>2. CASE a + b < U64
    <2>1. a + b = U64 * 0 + (a + b) /\ a + b \in 0 .. (U64 - 1)
      BY <1>1, <1>2
    <2> QED
      BY <1>1, <1>2, <2>1, QuotientRemainder DEF add_u64
  <1>3. CASE ~ (a + b < U64)
    <2>1. PICK r \in 0 .. (U64 - 1) : a + b - U64 = r
      BY <1>1, <1>3
    <2>2. a + b = U64 * 1 + r
      BY <1>1, <2>1
    <2>3. (U64 * 1 + r) % U64 = r
      BY <1>1, QuotientRemainder
    <2> QED
      BY <1>3, <2>1, <2>2, <2>3 DEF add_u64
  <1> QED
    BY <1>2, <1>3

LEMMA FreeRunPageImplements ==
    ASSUME LoopsInv, FreeRunPage
    PROVE  Implements
  <1>1. /\ loop = "free" /\ n < page_count
        /\ free_page(add_u64(run_start, PAGE_SIZE * n)) /\ n' = n + 1
        /\ UNCHANGED <<memVars, region, loop, page_count, run_start, run_length, committed>>
    <2>1. /\ loop = "free" /\ n < page_count
          /\ free_page((run_start + PAGE_SIZE * n) % U64) /\ n' = n + 1
          /\ UNCHANGED <<memVars, region, loop, page_count, run_start, run_length, committed>>
      BY DEF FreeRunPage, Continue
    <2>2. /\ n \in Nat /\ run_start \in Nat /\ run_start < U64
          /\ page_count \in Nat /\ page_count <= TOTAL_PAGES + 1
      BY <2>1 DEF LoopsInv, LoopsTypeOK, FreeInv
    <2>3. PAGE_SIZE * n \in Nat /\ PAGE_SIZE * n <= PAGE_SIZE * TOTAL_PAGES
      <3>1. n <= TOTAL_PAGES
        BY <2>1, <2>2, Sizes
      <3> QED
        BY <2>2, <3>1, Sizes
    <2>4. PAGE_SIZE * n <= U64
      BY <2>3, Sizes
    <2> QED
      BY <2>1, <2>2, <2>3, <2>4, WrapsOnce
  <1>2. /\ LoopsTypeOK /\ MarkedFree(given_back(n))
        /\ live = committed.live \ cleared(given_back(n))
        /\ n \in Nat /\ page_count \in Nat /\ run_start \in Nat
    BY <1>1 DEF LoopsInv, LoopsTypeOK, FreeInv
  <1>3. PICK start \in Nat, count \in Nat : start = run_start /\ count = n
    BY <1>2
  <1>4. PICK address : address = add_u64(start, PAGE_SIZE * count)
    OBVIOUS
  <1>5. address \in Nat
    BY <1>3, <1>4, Sizes, PagesAssumption DEF add_u64
  <1>6. PICK pages : pages = pages_freed(run_addresses(start, count))
    OBVIOUS
  <1>7. given_back(n) = pages
    BY <1>3, <1>6 DEF given_back
  <1>8. /\ ArraysOK' /\ MarksFree(pages \cup pages_freed({address}))
        /\ live' = committed.live \ cleared(pages \cup pages_freed({address}))
    BY <1>1, <1>2, <1>3, <1>4, <1>5, <1>7, OneFreed
  <1>9. PICK more : more = pages \cup pages_freed({address})
    OBVIOUS
  <1>10. given_back(n)' = more
    <2>1. reserved_regions' = reserved_regions
      BY <1>1, TablesStay
    <2>2. given_back(n)' = pages_freed(run_addresses(start, count + 1))
      BY <1>1, <1>3, <2>1
      DEF given_back, pages_freed, run_addresses, may_free, is_reserved_page
    <2> QED
      BY <1>4, <1>6, <1>9, <2>2, OneMoreGivenBack
  <1>11. MarkedFree(more)'
    BY <1>1, <1>8, <1>9, StillMarked
  <1>12. FreeInv'
    <2>1. live' = committed'.live \ cleared(more)'
      BY <1>1, <1>8, <1>9 DEF cleared
    <2>2. n' <= page_count'
      BY <1>1, <1>2
    <2> QED
      BY <1>1, <1>10, <1>11, <2>1, <2>2 DEF LoopsInv, FreeInv
  <1>13. LoopsTypeOK'
    <2>1. n' \in Nat
      BY <1>1, <1>2
    <2> QED
      BY <1>1, <1>2, <1>8, <2>1 DEF LoopsTypeOK, CommittedOK
  <1>14. UNCHANGED Abstract!vars
    BY <1>1, NoAbstractStep DEF abstract_phase
  <1> QED
    BY <1>1, <1>12, <1>13, <1>14, OtherLoops, TablesStay DEF Implements, LoopsInv

LEMMA RunFreedImplements ==
    ASSUME LoopsInv, RunFreed
    PROVE  Implements
  <1>1. /\ loop = "free" /\ n >= page_count /\ Return /\ Commit
        /\ UNCHANGED <<memVars, region, arrays, live>>
    BY DEF RunFreed, Return
  <1>2. /\ LoopsTypeOK /\ MarkedFree(given_back(n)) /\ ArraysOK'
        /\ live = committed.live \ cleared(given_back(n))
        /\ n \in Nat /\ page_count \in Nat /\ n = page_count
        /\ page_count # 0 /\ page_count <= TOTAL_PAGES + 1
        /\ run_start \in Nat /\ run_start < U64 /\ is_page_aligned(run_start)
    BY <1>1 DEF LoopsInv, LoopsTypeOK, FreeInv, ArraysOK, arrays
  <1>3. PICK start \in Nat, count \in Nat : start = run_start /\ count = page_count
    BY <1>2
  <1>4. PICK addresses : addresses = run_addresses(start, count)
    OBVIOUS
  <1>5. given_back(n) = pages_freed(addresses)
    BY <1>2, <1>3, <1>4 DEF given_back
  <1>6. MarksFree(pages_freed(addresses))
    BY <1>1, <1>2, <1>5, AllMarked
  <1>7. Abstract!free(addresses)
    BY <1>1, <1>2, <1>5, <1>6, Frees
  <1>8. addresses = {Abstract!add_u64(start, PAGE_SIZE * k) : k \in 0 .. (count - 1)}
    BY <1>4, SamePages DEF run_addresses
  <1>9. Abstract!is_page_aligned(start) /\ count # 0
    BY <1>2, <1>3, SamePages
  <1>10. Abstract!FreeContiguousPages(start, count)
    BY <1>1, <1>2, <1>7, <1>8, <1>9, SameTables, Returns
    DEF Abstract!FreeContiguousPages, Abstract!free_contiguous_pages,
        Abstract!bootStutter, abstract_phase, memVars, Abstract!memVars
  <1>11. start \in Abstract!Address /\ count \in Abstract!PageCounts
    BY <1>2, <1>3, SamePages, Sizes DEF Abstract!PageCounts, Address
  <1> QED
    BY <1>1, <1>2, <1>10, <1>11, Returns DEF Implements, Abstract!Next


-----------------------------------------------------------------------------
(***************************************************************************)
(* The refinement.                                                         *)
(***************************************************************************)

\* Every step of a loop keeps the invariant, and is the step of PageAllocator
\* at the end of its loop and none before.
LEMMA EveryStepImplements == LoopsInv /\ [LoopsNext]_loopsVars => Implements
  <1> SUFFICES ASSUME LoopsInv, [LoopsNext]_loopsVars
               PROVE  Implements
    OBVIOUS
  <1>1. CASE UNCHANGED loopsVars
    <2>1. UNCHANGED <<memVars, loop, region, n, page_count, run_start, run_length,
                      page_bitmap, page_metadata, live, committed>>
      BY <1>1 DEF loopsVars, locals, arrays
    <2>2. UNCHANGED <<memory_map, step, i, usable_regions, reserved_regions>>
          /\ MemInv' /\ WholePages(reserved_regions)'
      BY <2>1, TablesStay
    <2>3. LoopsTypeOK' /\ FillInv'
      BY <2>1, <2>2
      DEF LoopsInv, LoopsTypeOK, ArraysOK, CommittedOK, FillInv, bit
    <2>4. RegionInv' /\ SearchInv'
      BY <2>1, <2>2
      DEF LoopsInv, RegionInv, SearchInv, InRegion, passed, MarkedFree, MarkedReserved,
          cleared, Untouched, bit
    <2>5. CountInv' /\ MarkInv'
      BY <2>1, <2>2
      DEF LoopsInv, CountInv, MarkInv, MarkedUsed, free_run, run_first, bit
    <2>6. FreeInv'
      BY <2>1, <2>2
      DEF LoopsInv, FreeInv, MarkedFree, given_back, pages_freed, run_addresses, may_free,
          is_reserved_page, cleared, bit
    <2>7. UNCHANGED Abstract!vars
      BY <2>1, NoAbstractStep DEF abstract_phase
    <2> QED
      BY <2>2, <2>3, <2>4, <2>5, <2>6, <2>7 DEF Implements, LoopsInv
  <1>2. CASE InitializeNext
    BY <1>2, MemoryRunsImplements, InitializeImplements, FillByteImplements,
       BytesFilledImplements, FillMetadataImplements, MetadataFilledImplements,
       FreeRegionPageImplements, UsableDoneImplements, AllUsableDoneImplements,
       UseRegionPageImplements, ReservedDoneImplements, AllReservedDoneImplements
    DEF InitializeNext
  <1>3. CASE AllocatePage \/ SearchUsed \/ SearchFree \/ NoneFound
    BY <1>3, AllocatePageImplements, SearchUsedImplements, SearchFreeImplements,
       NoneFoundImplements
  <1>4. ASSUME NEW count \in Counts, AllocateContiguousPages(count)
        PROVE  Implements
    BY <1>4, AllocateContiguousPagesImplements
  <1>5. CASE CountUsed \/ CountFree \/ MarkRunPage \/ RunMarked
    BY <1>5, CountUsedImplements, CountFreeImplements, MarkRunPageImplements,
       RunMarkedImplements
  <1>6. ASSUME NEW address \in Addresses, FreePage(address)
        PROVE  Implements
    BY <1>6, FreePageImplements
  <1>7. ASSUME NEW address \in Addresses, NEW count \in Counts,
               FreeContiguousPages(address, count)
        PROVE  Implements
    BY <1>7, FreeContiguousPagesImplements
  <1>8. CASE FreeRunPage \/ RunFreed
    BY <1>8, FreeRunPageImplements, RunFreedImplements
  <1> QED
    BY <1>1, <1>2, <1>3, <1>4, <1>5, <1>6, <1>7, <1>8 DEF LoopsNext

\* Whatever loop runs, the arrays are what they were when the last call ended
\* and the pages the loop has passed marked as its call marks them.
THEOREM LoopsInvariant == LoopsSpec => []LoopsInv
  <1>1. LoopsInit => LoopsInv
    BY InitImplements
  <1>2. LoopsInv /\ [LoopsNext]_loopsVars => LoopsInv'
    BY EveryStepImplements DEF Implements
  <1> QED
    BY <1>1, <1>2, PTL DEF LoopsSpec

\* The loops on bytes and bits do what PageAllocator says their calls do in
\* one step: fill, free and reserve every page of the arrays and the regions,
\* find the lowest free page or run and mark it and nothing else, free what
\* may be freed of a run that wraps or leaves the tracked memory.
THEOREM LoopsImplementPageAllocator == LoopsSpec => ImplementsPageAllocator
  <1>1. LoopsInit => Abstract!Init
    BY InitImplements
  <1>2. LoopsInv /\ [LoopsNext]_loopsVars => [Abstract!Next]_(Abstract!vars)
    BY EveryStepImplements DEF Implements
  <1> QED
    BY <1>1, <1>2, LoopsInvariant, PTL DEF LoopsSpec, ImplementsPageAllocator, Abstract!Spec


-----------------------------------------------------------------------------
(***************************************************************************)
(* What is proved of PageAllocator holds of the arrays.                    *)
(***************************************************************************)

AllocatorProofs == INSTANCE PageAllocatorProofs WITH
    phase         <- abstract_phase,
    page_bitmap   <- committed.bitmap,
    page_metadata <- committed.metadata,
    live          <- committed.live

(***************************************************************************)
(* AllocatorProofs has the definitions of Abstract, under other names.     *)
(***************************************************************************)

LEMMA ProvedTables ==
    /\ AllocatorProofs!MemInit <=> MemInit
    /\ AllocatorProofs!MemNext <=> MemNext
    /\ AllocatorProofs!memVars = memVars
  <1>1. AllocatorProofs!MemInit <=> MemInit
    BY DEF AllocatorProofs!MemInit, MemInit
  <1>2. AllocatorProofs!memVars = memVars
    BY DEF AllocatorProofs!memVars, memVars
  <1>3. /\ \A e : AllocatorProofs!skipped(e) <=> skipped(e)
        /\ \A e : AllocatorProofs!usable_region(e) = usable_region(e)
        /\ AllocatorProofs!usable_table_full <=> usable_table_full
    BY DEF AllocatorProofs!skipped, skipped, AllocatorProofs!region_end, region_end, AllocatorProofs!add_u64, add_u64,
           AllocatorProofs!usable_region, usable_region, AllocatorProofs!clipped_start, clipped_start,
           AllocatorProofs!align_page_up, align_page_up, AllocatorProofs!align_page_down, align_page_down,
           AllocatorProofs!is_page_aligned, is_page_aligned,
           AllocatorProofs!usable_table_full, usable_table_full
  <1>4. /\ \A r : AllocatorProofs!reserved_region(r) = reserved_region(r)
        /\ AllocatorProofs!reserved_table_full <=> reserved_table_full
    BY DEF AllocatorProofs!reserved_region, reserved_region, AllocatorProofs!add_u64, add_u64,
           AllocatorProofs!align_page_up, align_page_up, AllocatorProofs!align_page_down, align_page_down,
           AllocatorProofs!is_page_aligned, is_page_aligned,
           AllocatorProofs!reserved_table_full, reserved_table_full
  <1>5. /\ AllocatorProofs!SkipEntry <=> SkipEntry
        /\ AllocatorProofs!AddRegion <=> AddRegion
        /\ AllocatorProofs!EndScan <=> EndScan
    BY <1>3 DEF AllocatorProofs!SkipEntry, SkipEntry, AllocatorProofs!AddRegion, AddRegion,
                AllocatorProofs!EndScan, EndScan, AllocatorProofs!Scanning, Scanning
  <1>6. AllocatorProofs!reserve_region <=> reserve_region
    BY <1>4 DEF AllocatorProofs!reserve_region, reserve_region
  <1>7. /\ AllocatorProofs!NoBootInfo <=> NoBootInfo
        /\ AllocatorProofs!EndInitialize <=> EndInitialize
    BY DEF AllocatorProofs!NoBootInfo, NoBootInfo, AllocatorProofs!EndInitialize, EndInitialize
  <1> QED
    BY <1>1, <1>2, <1>5, <1>6, <1>7 DEF AllocatorProofs!MemNext, MemNext

LEMMA ProvedSpec == ImplementsPageAllocator => AllocatorProofs!Spec
  <1>1. /\ Abstract!memVars = AllocatorProofs!memVars
        /\ Abstract!allocVars = AllocatorProofs!allocVars
        /\ Abstract!vars = AllocatorProofs!vars
        /\ (Abstract!memVars)' = (AllocatorProofs!memVars)'
        /\ (Abstract!allocVars)' = (AllocatorProofs!allocVars)'
        /\ (Abstract!vars)' = (AllocatorProofs!vars)'
        /\ Abstract!MemInit <=> AllocatorProofs!MemInit
        /\ Abstract!MemNext <=> AllocatorProofs!MemNext
    BY SameTables, ProvedTables
    DEF Abstract!memVars, AllocatorProofs!memVars, Abstract!allocVars,
        AllocatorProofs!allocVars, Abstract!vars, AllocatorProofs!vars
  <1>2. /\ Abstract!PageIndex = AllocatorProofs!PageIndex
        /\ Abstract!Address = AllocatorProofs!Address
        /\ Abstract!PageCounts = AllocatorProofs!PageCounts
        /\ Abstract!Returned = AllocatorProofs!Returned
        /\ \A a, e : Abstract!written(a, e) = AllocatorProofs!written(a, e)
        /\ \A r : Abstract!region_pages(r) = AllocatorProofs!region_pages(r)
        /\ \A p : Abstract!tracked(p) = AllocatorProofs!tracked(p)
        /\ \A p : Abstract!clearable(p) = AllocatorProofs!clearable(p)
        /\ \A k : Abstract!free_runs(k) = AllocatorProofs!free_runs(k)
        /\ \A S : Abstract!Min(S) = AllocatorProofs!Min(S)
        /\ \A a, b : Abstract!add_u64(a, b) = AllocatorProofs!add_u64(a, b)
        /\ \A a : Abstract!is_page_aligned(a) <=> AllocatorProofs!is_page_aligned(a)
        /\ \A S : Abstract!freed_by(S) = AllocatorProofs!freed_by(S)
    BY DEF Abstract!PageIndex, AllocatorProofs!PageIndex, Abstract!Address,
           AllocatorProofs!Address, Abstract!PageCounts, AllocatorProofs!PageCounts,
           Abstract!Returned, AllocatorProofs!Returned, Abstract!written,
           AllocatorProofs!written, Abstract!region_pages, AllocatorProofs!region_pages,
           Abstract!tracked, AllocatorProofs!tracked,
           Abstract!clearable, AllocatorProofs!clearable,
           Abstract!free_pages, AllocatorProofs!free_pages, Abstract!free_runs,
           AllocatorProofs!free_runs, Abstract!Min, AllocatorProofs!Min,
           Abstract!add_u64, AllocatorProofs!add_u64, Abstract!is_page_aligned,
           AllocatorProofs!is_page_aligned, Abstract!freed_by,
           AllocatorProofs!freed_by, Abstract!owns_page, AllocatorProofs!owns_page,
           Abstract!is_reserved_page, AllocatorProofs!is_reserved_page,
           Abstract!MAX_PHYSICAL_MEMORY, AllocatorProofs!MAX_PHYSICAL_MEMORY
  <1>3. /\ \A p : Abstract!mark_used(p) <=> AllocatorProofs!mark_used(p)
        /\ \A p : Abstract!mark_reserved(p) <=> AllocatorProofs!mark_reserved(p)
        /\ \A p : Abstract!mark_free(p) <=> AllocatorProofs!mark_free(p)
    BY <1>2
    DEF Abstract!mark_used, AllocatorProofs!mark_used, Abstract!mark_reserved,
        AllocatorProofs!mark_reserved, Abstract!mark_free, AllocatorProofs!mark_free
  <1>4. Abstract!Boot <=> AllocatorProofs!Boot
    BY <1>1, <1>2, <1>3
    DEF Abstract!Boot, AllocatorProofs!Boot, Abstract!MemoryStep,
        AllocatorProofs!MemoryStep, Abstract!MarkAllUsed, AllocatorProofs!MarkAllUsed,
        Abstract!mark_region_free, AllocatorProofs!mark_region_free,
        Abstract!AllUsableMarked, AllocatorProofs!AllUsableMarked,
        Abstract!mark_region_used, AllocatorProofs!mark_region_used,
        Abstract!AllReservedMarked, AllocatorProofs!AllReservedMarked
  <1>5. \A k, a : Abstract!allocate(k, a) <=> AllocatorProofs!allocate(k, a)
    BY <1>2, <1>3 DEF Abstract!allocate, AllocatorProofs!allocate
  <1>6. \A S : Abstract!free(S) <=> AllocatorProofs!free(S)
    BY <1>2, <1>3 DEF Abstract!free, AllocatorProofs!free
  <1>7. /\ Abstract!AllocatePage <=> AllocatorProofs!AllocatePage
        /\ \A k : Abstract!AllocateContiguousPages(k)
                     <=> AllocatorProofs!AllocateContiguousPages(k)
        /\ \A a : Abstract!FreePage(a) <=> AllocatorProofs!FreePage(a)
    BY <1>1, <1>2, <1>5, <1>6
    DEF Abstract!AllocatePage, AllocatorProofs!AllocatePage, Abstract!allocate_page,
        AllocatorProofs!allocate_page, Abstract!AllocateContiguousPages,
        AllocatorProofs!AllocateContiguousPages, Abstract!allocate_contiguous_pages,
        AllocatorProofs!allocate_contiguous_pages, Abstract!FreePage,
        AllocatorProofs!FreePage, Abstract!free_page, AllocatorProofs!free_page,
        Abstract!bootStutter, AllocatorProofs!bootStutter
  <1>8. \A a, k : Abstract!FreeContiguousPages(a, k)
                    <=> AllocatorProofs!FreeContiguousPages(a, k)
    BY <1>1, <1>2, <1>6
    DEF Abstract!FreeContiguousPages, AllocatorProofs!FreeContiguousPages,
        Abstract!free_contiguous_pages, AllocatorProofs!free_contiguous_pages,
        Abstract!bootStutter, AllocatorProofs!bootStutter
  <1>9. Abstract!Next <=> AllocatorProofs!Next
    BY <1>2, <1>4, <1>7, <1>8 DEF Abstract!Next, AllocatorProofs!Next
  <1>10. Abstract!Init <=> AllocatorProofs!Init
    BY <1>1, <1>2 DEF Abstract!Init, AllocatorProofs!Init
  <1>11. [Abstract!Next]_(Abstract!vars) => [AllocatorProofs!Next]_(AllocatorProofs!vars)
    BY <1>1, <1>9
  <1> QED
    BY <1>10, <1>11, PTL DEF ImplementsPageAllocator, Abstract!Spec, AllocatorProofs!Spec


\* Page p lies in a region of a table.
covered(regions, p) ==
    \E k \in DOMAIN regions :
        regions[k].start <= p * PAGE_SIZE /\ p * PAGE_SIZE < regions[k].end

\* Between two calls the bytes of the bitmap agree with the metadata on every
\* page; the pages of reserved regions are flagged, used and in nobody's
\* hands; every other page of usable memory is either free or in the hands of
\* a caller, and no page is both.
ArraysAccountedFor ==
    loop = "none" =>
        \A p \in PageIndex :
           /\ bit(p) <=> page_metadata[p].allocated
           /\ covered(reserved_regions, p) =>
                 bit(p) /\ page_metadata[p].reserved /\ p \notin live
           /\ covered(usable_regions, p) /\ ~ covered(reserved_regions, p) =>
                 (bit(p) <=> p \in live)

\* The theorems about PageAllocator, carried over to the arrays it is
\* implemented with.
THEOREM ArraysAreAccountedFor == LoopsSpec => []ArraysAccountedFor
  <1>1. /\ AllocatorProofs!MAX_PHYSICAL_MEMORY = MAX_PHYSICAL_MEMORY
        /\ AllocatorProofs!Address = Address
        /\ AllocatorProofs!Entry = Entry
        /\ \A f : AllocatorProofs!Range(f) = Range(f)
        /\ AllocatorProofs!PageIndex = PageIndex
    BY DEF AllocatorProofs!MAX_PHYSICAL_MEMORY, MAX_PHYSICAL_MEMORY,
           AllocatorProofs!Address, Address, AllocatorProofs!Entry, Entry,
           AllocatorProofs!Range, Range, AllocatorProofs!PageIndex, PageIndex
  \* The assumptions of PageAllocator are those of PageLoops.
  <1>2. /\ TOTAL_PAGES \in Nat \ {0}
        /\ AllocatorProofs!MAX_PHYSICAL_MEMORY <= U64
        /\ \A k \in DOMAIN Reservations :
              Reservations[k][2] <= AllocatorProofs!MAX_PHYSICAL_MEMORY
    BY <1>1, PageLoopsAssumption
  <1>3. /\ MIN_ALLOCATABLE_ADDRESS \in AllocatorProofs!Address \ {0}
        /\ MAX_USABLE_REGIONS \in Nat
        /\ MAX_RESERVED_REGIONS \in Nat
        /\ MAX_RAM \in Nat
        /\ MIN_ALLOCATABLE_ADDRESS <= MAX_RAM
        /\ MAX_RAM + PAGE_SIZE <= U64
        /\ USABLE \notin OtherTypes
        /\ NoMap \notin Seq(AllocatorProofs!Entry)
        /\ MemoryMaps \subseteq Seq(AllocatorProofs!Entry) \cup {NoMap}
        /\ \A m \in MemoryMaps \ {NoMap} : \A k \in DOMAIN m :
              m[k].base_addr + m[k].length <= MAX_RAM
        /\ Reservations \in Seq(AllocatorProofs!Address \X AllocatorProofs!Address)
        /\ \A k \in DOMAIN Reservations : Reservations[k][2] <= MAX_RAM
        /\ Len(Reservations) <= MAX_RESERVED_REGIONS
        /\ <<0, MIN_ALLOCATABLE_ADDRESS>> \in AllocatorProofs!Range(Reservations)
    BY <1>1, PhysicalMemoryAssumption
  <1>4. PAGE_SIZE \in Nat \ {0} /\ U64 \in Nat /\ PAGE_SIZE < U64
    BY PagesAssumption
  <1>5. AllocatorProofs!Spec => []AllocatorProofs!BitmapMatchesMetadata
    BY <1>2, <1>3, <1>4, AllocatorProofs!BitmapAlwaysMatches, PTL
  <1>6. AllocatorProofs!Spec => []AllocatorProofs!ReservedNeverFree
    BY <1>2, <1>3, <1>4, AllocatorProofs!ReservedPagesStayReserved, PTL
  <1>7. AllocatorProofs!Spec => []AllocatorProofs!PagesAccountedFor
    BY <1>2, <1>3, <1>4, AllocatorProofs!PagesAreAccountedFor, PTL
  <1>8. LoopsInv /\ AllocatorProofs!BitmapMatchesMetadata /\ AllocatorProofs!ReservedNeverFree
           /\ AllocatorProofs!PagesAccountedFor => ArraysAccountedFor
    <2> SUFFICES ASSUME LoopsInv, AllocatorProofs!BitmapMatchesMetadata,
                        AllocatorProofs!ReservedNeverFree,
                        AllocatorProofs!PagesAccountedFor, loop = "none"
                 PROVE  ArraysAccountedFor
      BY DEF ArraysAccountedFor
    <2>1. abstract_phase = "running"
      BY DEF abstract_phase
    <2>2. \A p \in PageIndex : /\ bit(p) <=> committed.bitmap[p]
                               /\ page_metadata[p] = committed.metadata[p]
      BY DEF LoopsInv, SearchInv, Untouched
    <2>3. live = committed.live
      BY DEF LoopsInv, FreeInv
    <2>4. \A p \in PageIndex :
             /\ p \in AllocatorProofs!free_pages <=> ~ bit(p)
             /\ p \in AllocatorProofs!reserved_pages <=> covered(reserved_regions, p)
             /\ p \in AllocatorProofs!usable_pages <=> covered(usable_regions, p)
      <3>1. \A p \in PageIndex :
               /\ \A k \in DOMAIN usable_regions :
                     p * PAGE_SIZE < usable_regions[k].end => p \in 0 .. usable_regions[k].end
               /\ \A k \in DOMAIN reserved_regions :
                     p * PAGE_SIZE < reserved_regions[k].end => p \in 0 .. reserved_regions[k].end
        BY PageInReach DEF LoopsInv
      <3>2. \A p \in PageIndex : p \in AllocatorProofs!free_pages <=> ~ bit(p)
        BY <1>1, <2>2 DEF AllocatorProofs!free_pages
      <3>3. \A p \in PageIndex : p \in AllocatorProofs!reserved_pages <=> covered(reserved_regions, p)
        BY <1>1, <3>1
        DEF AllocatorProofs!reserved_pages, AllocatorProofs!pages_of, AllocatorProofs!tracked,
            AllocatorProofs!region_pages, covered
      <3>4. \A p \in PageIndex : p \in AllocatorProofs!usable_pages <=> covered(usable_regions, p)
        BY <1>1, <3>1
        DEF AllocatorProofs!usable_pages, AllocatorProofs!pages_of, AllocatorProofs!tracked,
            AllocatorProofs!region_pages, covered
      <3> QED
        BY <3>2, <3>3, <3>4
    <2>5. \A p \in PageIndex : bit(p) <=> page_metadata[p].allocated
      <3>1. \A p \in PageIndex : committed.bitmap[p] = committed.metadata[p].allocated
        BY <1>1, <2>1 DEF AllocatorProofs!BitmapMatchesMetadata
      <3> QED
        BY <2>2, <3>1
    <2>6. \A p \in PageIndex :
             covered(reserved_regions, p) =>
                bit(p) /\ page_metadata[p].reserved /\ p \notin live
      BY <1>1, <2>1, <2>2, <2>3, <2>4 DEF AllocatorProofs!ReservedNeverFree
    <2>7. \A p \in PageIndex :
             covered(usable_regions, p) /\ ~ covered(reserved_regions, p) =>
                (bit(p) <=> p \in live)
      BY <2>1, <2>3, <2>4 DEF AllocatorProofs!PagesAccountedFor
    <2> QED
      BY <2>5, <2>6, <2>7 DEF ArraysAccountedFor
  <1> QED
    BY <1>5, <1>6, <1>7, <1>8, LoopsInvariant, LoopsImplementPageAllocator, ProvedSpec, PTL

=============================================================================
