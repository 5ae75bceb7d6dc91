---------------------------- MODULE ShellProofs ----------------------------
(***************************************************************************)
(* Proofs about Shell: what its commands free they hold, and from the      *)
(* firmware's map to the commands the memory of the kernel is a FramePool, *)
(* for every map, every number of pages and every list of reservations     *)
(* that meet the assumptions.                                              *)
(***************************************************************************)
EXTENDS Shell, PageAllocatorProofs

-----------------------------------------------------------------------------
(***************************************************************************)
(* The inductive invariant.  Beyond the allocator's own, it needs that a   *)
(* kernel without a memory map has no page to hand out: there page 0 is    *)
(* not reserved, and an allocation of it would be taken for a failure.     *)
(***************************************************************************)
NothingWithoutMap ==
    (memory_map = NoMap /\ phase # "memory") => free_pages \cup live = {}

ShellInv ==
    /\ AllocInv
    /\ ShellTypeOK
    /\ HandlesHeld
    /\ NothingWithoutMap

-----------------------------------------------------------------------------
(***************************************************************************)
(* Addresses and pages.                                                    *)
(***************************************************************************)

\* The page of the address of a page is the page.
LEMMA PageOfAddress ==
    ASSUME NEW p \in Nat
    PROVE  (p * PAGE_SIZE) \div PAGE_SIZE = p
  <1>1. PICK a : a = p * PAGE_SIZE
    OBVIOUS
  <1>2. a \in Nat /\ a = PAGE_SIZE * p /\ PAGE_SIZE \in Nat \ {0}
    BY <1>1, PagesAssumption
  <1>3. PICK q \in Nat, r \in 0 .. (PAGE_SIZE - 1) :
           q = a \div PAGE_SIZE /\ a = PAGE_SIZE * q + r
    BY <1>2, PageDivision
  <1>4. PAGE_SIZE * q < PAGE_SIZE * (p + 1)
    BY <1>2, <1>3
  <1>5. PAGE_SIZE * p < PAGE_SIZE * (q + 1)
    BY <1>2, <1>3
  <1>6. q < p + 1
    BY <1>2, <1>3, <1>4
  <1>7. p < q + 1
    BY <1>2, <1>3, <1>5
  <1> QED
    BY <1>1, <1>3, <1>6, <1>7

\* Page addresses are addresses, and only page 0 has address 0.
LEMMA PageAddresses ==
    ASSUME NEW p \in PageIndex
    PROVE  /\ p * PAGE_SIZE \in PageAddress
           /\ p * PAGE_SIZE \in Address
           /\ p * PAGE_SIZE < MAX_PHYSICAL_MEMORY
           /\ p * PAGE_SIZE = 0 <=> p = 0
  <1>1. /\ p \in Nat /\ TOTAL_PAGES \in Nat /\ p < TOTAL_PAGES
        /\ PAGE_SIZE \in Nat \ {0} /\ U64 \in Nat
        /\ TOTAL_PAGES * PAGE_SIZE <= U64
    BY PagesAssumption, PageAllocatorAssumption DEF PageIndex, MAX_PHYSICAL_MEMORY
  <1>2. p * PAGE_SIZE \in Nat /\ p * PAGE_SIZE < TOTAL_PAGES * PAGE_SIZE
    BY <1>1
  <1>3. p * PAGE_SIZE = 0 <=> p = 0
    BY <1>1
  <1> QED
    BY <1>1, <1>2, <1>3 DEF PageAddress, Address, MAX_PHYSICAL_MEMORY

-----------------------------------------------------------------------------
(***************************************************************************)
(* What the allocator does for a caller that keeps to the invariant.       *)
(***************************************************************************)

\* Page 0 is neither free nor taken.
LEMMA PageZeroOut ==
    ASSUME ShellInv, phase = "running"
    PROVE  0 \notin free_pages \cup live
  BY PageZeroFlagged DEF ShellInv, AllocInv, Exclusive, NothingWithoutMap

\* An allocation gives a run of free pages and an address other than 0, or 0
\* and nothing.
LEMMA AllocateGives ==
    ASSUME ShellInv, phase = "running", NEW n \in Nat, NEW address,
           allocate(n, address)
    PROVE  \/ /\ address = 0
              /\ free_pages' = free_pages /\ live' = live
           \/ \E first \in PageIndex :
                 /\ n # 0 /\ first + n <= TOTAL_PAGES
                 /\ address = first * PAGE_SIZE /\ address # 0
                 /\ first .. (first + n - 1) \subseteq free_pages
                 /\ free_pages' = free_pages \ (first .. (first + n - 1))
                 /\ live' = live \cup (first .. (first + n - 1))
  <1>1. CASE address = 0 /\ UNCHANGED <<page_bitmap, page_metadata, live>>
    BY <1>1 DEF free_pages
  <1>2. CASE \E first \in free_runs(n) :
               /\ n # 0
               /\ address = first * PAGE_SIZE
               /\ mark_used(first .. (first + n - 1))
               /\ live' = IF address = 0 THEN live
                                         ELSE live \cup (first .. (first + n - 1))
    <2>1. PICK first \in free_runs(n) :
               /\ n # 0
               /\ address = first * PAGE_SIZE
               /\ mark_used(first .. (first + n - 1))
               /\ live' = IF address = 0 THEN live
                                         ELSE live \cup (first .. (first + n - 1))
      BY <1>2
    <2> DEFINE P == first .. (first + n - 1)
    <2>2. /\ first \in free_pages /\ first \in PageIndex
          /\ first + n <= TOTAL_PAGES /\ P \subseteq free_pages
      BY <2>1 DEF free_runs, free_pages
    <2>3. address # 0
      BY <2>1, <2>2, PageZeroOut, PageAddresses
    <2>4. free_pages' = free_pages \ P
      <3>1. P \in SUBSET PageIndex /\ mark_used(P)
        BY <2>1, <2>2 DEF free_pages
      <3>2. ArraysAgree
        BY InvAgrees DEF ShellInv
      <3> HIDE DEF P
      <3> QED
        BY <3>1, <3>2, MarkUsedEffect
    <2> QED
      BY <2>1, <2>2, <2>3, <2>4
  <1> QED
    BY <1>1, <1>2, AllocateOutcome

\* Freeing pages that are held gives exactly those back.
LEMMA FreeGivesBack ==
    ASSUME ShellInv, phase = "running", NEW A \in SUBSET Address,
           freed_by(A) \subseteq live, free(A)
    PROVE  /\ free_pages' = free_pages \cup freed_by(A)
           /\ live' = live \ freed_by(A)
  <1>1. PICK P : P = freed_by(A)
    OBVIOUS
  <1>2. P \in SUBSET PageIndex /\ mark_free(P) /\ live' = live \ clearable(P)
    BY <1>1, FreedByTracked DEF free
  <1>3. ArraysAgree
    BY InvAgrees DEF ShellInv
  <1>4. /\ clearable(P) = (P \ flagged) \ free_pages
        /\ free_pages' = free_pages \cup (P \ flagged)
    BY <1>2, <1>3, MarkFreeEffect
  <1> QED
    BY <1>1, <1>2, <1>4 DEF ShellInv, AllocInv, Exclusive

\* free_page frees nothing but the page of its address.
LEMMA FreedByOne ==
    ASSUME NEW p \in PageIndex
    PROVE  /\ {p * PAGE_SIZE} \in SUBSET Address
           /\ freed_by({p * PAGE_SIZE}) \subseteq {p}
  <1>1. p \in Nat
    BY PageAllocatorAssumption DEF PageIndex
  <1> QED
    BY <1>1, PageAddresses, PageOfAddress DEF freed_by

\* free_contiguous_pages frees nothing but the pages of its run.
LEMMA FreedByRun ==
    ASSUME NEW p \in PageIndex, NEW n \in Nat, p + n <= TOTAL_PAGES
    PROVE  /\ {add_u64(p * PAGE_SIZE, PAGE_SIZE * k) : k \in 0 .. (n - 1)} \in SUBSET Address
           /\ freed_by({add_u64(p * PAGE_SIZE, PAGE_SIZE * k) : k \in 0 .. (n - 1)})
                 \subseteq p .. (p + n - 1)
  <1>1. \A k \in 0 .. (n - 1) :
           /\ p + k \in PageIndex /\ p + k \in p .. (p + n - 1)
           /\ add_u64(p * PAGE_SIZE, PAGE_SIZE * k) = (p + k) * PAGE_SIZE
    <2> TAKE k \in 0 .. (n - 1)
    <2>1. /\ p \in Nat /\ k \in Nat /\ p + k \in PageIndex /\ p + k \in p .. (p + n - 1)
          /\ PAGE_SIZE \in Nat /\ U64 \in Nat
      BY PageAllocatorAssumption, PagesAssumption DEF PageIndex
    <2>2. (p + k) * PAGE_SIZE = p * PAGE_SIZE + PAGE_SIZE * k
      BY <2>1
    <2>3. (p + k) * PAGE_SIZE < U64
      BY <2>1, PageAddresses, PagesAssumption DEF Address
    <2> QED
      BY <2>1, <2>2, <2>3 DEF add_u64
  <1> DEFINE A == {add_u64(p * PAGE_SIZE, PAGE_SIZE * k) : k \in 0 .. (n - 1)}
  <1>2. \A a \in A : \E q \in PageIndex : q \in p .. (p + n - 1) /\ a = q * PAGE_SIZE
    BY <1>1
  <1> HIDE DEF A
  <1>3. A \in SUBSET Address
    BY <1>2, PageAddresses
  <1>4. freed_by(A) \subseteq p .. (p + n - 1)
    <2> SUFFICES ASSUME NEW a \in A
                 PROVE  a \div PAGE_SIZE \in p .. (p + n - 1)
      BY DEF freed_by
    <2>1. PICK q \in PageIndex : q \in p .. (p + n - 1) /\ a = q * PAGE_SIZE
      BY <1>2
    <2>2. a \div PAGE_SIZE = q
      BY <2>1, PageOfAddress, PageAllocatorAssumption DEF PageIndex
    <2> QED
      BY <2>1, <2>2
  <1> QED
    BY <1>3, <1>4 DEF A

\* What the handles stand for.
LEMMA HandlePages ==
    ASSUME ShellInv
    PROVE  /\ last_test_page # 0 =>
                 \E p \in PageIndex : last_test_page = p * PAGE_SIZE /\ test_pages = {p}
           /\ last_contiguous_page # 0 =>
                 \E p \in PageIndex :
                    /\ last_contiguous_page = p * PAGE_SIZE
                    /\ p + last_contiguous_count <= TOTAL_PAGES
                    /\ contiguous_pages = p .. (p + last_contiguous_count - 1)
  <1>1. ASSUME last_test_page # 0
        PROVE  \E p \in PageIndex : last_test_page = p * PAGE_SIZE /\ test_pages = {p}
    <2>1. PICK p \in PageIndex : last_test_page = p * PAGE_SIZE
      BY DEF ShellInv, ShellTypeOK, PageAddress
    <2>2. last_test_page \div PAGE_SIZE = p
      BY <2>1, PageOfAddress, PageAllocatorAssumption DEF PageIndex
    <2> QED
      BY <1>1, <2>1, <2>2 DEF test_pages
  <1>2. ASSUME last_contiguous_page # 0
        PROVE  \E p \in PageIndex :
                    /\ last_contiguous_page = p * PAGE_SIZE
                    /\ p + last_contiguous_count <= TOTAL_PAGES
                    /\ contiguous_pages = p .. (p + last_contiguous_count - 1)
    <2>1. PICK p \in PageIndex : last_contiguous_page = p * PAGE_SIZE
      BY DEF ShellInv, ShellTypeOK, PageAddress
    <2>2. last_contiguous_page \div PAGE_SIZE = p
      BY <2>1, PageOfAddress, PageAllocatorAssumption DEF PageIndex
    <2>3. contiguous_pages = p .. (p + last_contiguous_count - 1)
      BY <1>2, <2>2 DEF contiguous_pages
    <2>4. /\ last_contiguous_count \in Nat \ {0} /\ p \in Nat /\ TOTAL_PAGES \in Nat
          /\ contiguous_pages \subseteq PageIndex
      BY <1>2, PageAllocatorAssumption
      DEF ShellInv, ShellTypeOK, HandlesHeld, AllocInv, TypeOK, PageIndex
    <2>5. p + last_contiguous_count - 1 \in PageIndex
      BY <2>3, <2>4
    <2> QED
      BY <2>1, <2>3, <2>4, <2>5 DEF PageIndex
  <1> QED
    BY <1>1, <1>2

-----------------------------------------------------------------------------
(***************************************************************************)
(* What the commands do to the pages and to the handles.                   *)
(***************************************************************************)

\* ALLOC-PAGE takes a free page or nothing.
LEMMA AllocPageEffect ==
    ASSUME ShellInv, execute_alloc_page
    PROVE  /\ AllocInv'
           /\ phase = "running" /\ phase' = "running" /\ memory_map' = memory_map
           /\ UNCHANGED <<last_contiguous_page, last_contiguous_count, panicked>>
           /\ last_test_page' \in PageAddress /\ last_allocated' \in PageAddress
           /\ \/ free_pages' = free_pages /\ live' = live /\ test_pages' = {}
              \/ \E p \in free_pages :
                    /\ free_pages' = free_pages \ {p}
                    /\ live' = live \cup {p}
                    /\ test_pages' = {p}
  <1>1. PICK address \in PageAddress :
           /\ allocate(1, address) /\ last_test_page' = address
           /\ last_allocated' = IF address = 0 THEN last_allocated ELSE address
    BY DEF execute_alloc_page, allocate_page
  <1>2. /\ phase = "running" /\ bootStutter /\ UNCHANGED memVars /\ phase' = phase
        /\ UNCHANGED <<last_contiguous_page, last_contiguous_count, panicked>>
    BY DEF execute_alloc_page, Ready, bootStutter
  <1>3. AllocInv'
    BY <1>1, <1>2, AllocateKeeps DEF ShellInv
  <1>4. last_allocated' \in PageAddress
    BY <1>1 DEF ShellInv, ShellTypeOK
  <1>5. \/ free_pages' = free_pages /\ live' = live /\ test_pages' = {}
        \/ \E p \in free_pages :
              /\ free_pages' = free_pages \ {p}
              /\ live' = live \cup {p}
              /\ test_pages' = {p}
    <2>1. CASE address = 0 /\ free_pages' = free_pages /\ live' = live
      BY <1>1, <2>1 DEF test_pages
    <2>2. CASE \E first \in PageIndex :
                 /\ 1 # 0 /\ first + 1 <= TOTAL_PAGES
                 /\ address = first * PAGE_SIZE /\ address # 0
                 /\ first .. (first + 1 - 1) \subseteq free_pages
                 /\ free_pages' = free_pages \ (first .. (first + 1 - 1))
                 /\ live' = live \cup (first .. (first + 1 - 1))
      <3>1. PICK p \in PageIndex :
                 /\ address = p * PAGE_SIZE /\ address # 0
                 /\ p .. (p + 1 - 1) \subseteq free_pages
                 /\ free_pages' = free_pages \ (p .. (p + 1 - 1))
                 /\ live' = live \cup (p .. (p + 1 - 1))
        BY <2>2
      <3>2. p .. (p + 1 - 1) = {p} /\ p \in Nat
        BY PageAllocatorAssumption DEF PageIndex
      <3>3. test_pages' = {p}
        BY <1>1, <3>1, <3>2, PageOfAddress DEF test_pages
      <3> QED
        BY <3>1, <3>2, <3>3
    <2> QED
      BY <1>1, <1>2, <2>1, <2>2, AllocateGives
  <1> QED
    BY <1>1, <1>2, <1>3, <1>4, <1>5 DEF memVars

\* FREE-PAGE gives the page back that the handle stands for.
LEMMA FreePageEffect ==
    ASSUME ShellInv, execute_free_page
    PROVE  /\ AllocInv'
           /\ phase = "running" /\ phase' = "running" /\ memory_map' = memory_map
           /\ UNCHANGED <<last_contiguous_page, last_contiguous_count, panicked>>
           /\ last_test_page' = 0 /\ last_allocated' \in PageAddress
           /\ \E P \in SUBSET test_pages :
                 free_pages' = free_pages \cup P /\ live' = live \ P
  <1>1. /\ phase = "running" /\ bootStutter /\ UNCHANGED memVars /\ phase' = phase
        /\ UNCHANGED <<last_contiguous_page, last_contiguous_count, panicked>>
    BY DEF execute_free_page, Ready, bootStutter
  <1>2. CASE last_test_page = 0
    <2>1. UNCHANGED <<page_bitmap, page_metadata, live, last_test_page, last_allocated>>
      BY <1>2 DEF execute_free_page
    <2>2. AllocInv'
      BY <1>1, <2>1, UnchangedKeeps DEF ShellInv
    <2>3. free_pages' = free_pages
      BY <2>1 DEF free_pages
    <2> QED
      BY <1>1, <1>2, <2>1, <2>2, <2>3 DEF memVars, ShellInv, ShellTypeOK
  <1>3. CASE last_test_page # 0
    <2>1. PICK p \in PageIndex : last_test_page = p * PAGE_SIZE /\ test_pages = {p}
      BY <1>3, HandlePages
    <2>2. PICK A : A = {p * PAGE_SIZE}
      OBVIOUS
    <2>3. /\ free(A) /\ last_test_page' = 0
          /\ last_allocated' = IF last_allocated = last_test_page THEN 0 ELSE last_allocated
      BY <1>3, <2>1, <2>2 DEF execute_free_page, free_page
    <2>4. A \in SUBSET Address /\ freed_by(A) \subseteq test_pages
      BY <2>1, <2>2, FreedByOne
    <2>5. freed_by(A) \subseteq live
      BY <2>4 DEF ShellInv, HandlesHeld
    <2>6. free_pages' = free_pages \cup freed_by(A) /\ live' = live \ freed_by(A)
      BY <1>1, <2>3, <2>4, <2>5, FreeGivesBack
    <2>7. AllocInv'
      BY <1>1, <2>3, <2>4, FreeEffect, FreeKeeps DEF ShellInv
    <2>8. 0 \in PageAddress
      BY PageAddresses, PageAllocatorAssumption DEF PageIndex
    <2> QED
      BY <1>1, <2>3, <2>4, <2>6, <2>7, <2>8 DEF memVars, ShellInv, ShellTypeOK
  <1> QED
    BY <1>2, <1>3

\* ALLOC-CONTIG takes a run of free pages or nothing.
LEMMA AllocContigEffect ==
    ASSUME ShellInv, NEW n \in PageCounts, execute_alloc_contig(n)
    PROVE  /\ AllocInv'
           /\ phase = "running" /\ phase' = "running" /\ memory_map' = memory_map
           /\ UNCHANGED <<last_test_page, panicked, last_allocated>>
           /\ last_contiguous_page' \in PageAddress
           /\ last_contiguous_count' \in 0 .. TOTAL_PAGES
           /\ last_contiguous_page' = 0 <=> last_contiguous_count' = 0
           /\ \/ free_pages' = free_pages /\ live' = live /\ contiguous_pages' = {}
              \/ \E first, last \in PageIndex :
                    /\ first .. last \subseteq free_pages
                    /\ free_pages' = free_pages \ (first .. last)
                    /\ live' = live \cup (first .. last)
                    /\ contiguous_pages' = first .. last
  <1>1. PICK address \in PageAddress :
           /\ allocate(n, address) /\ last_contiguous_page' = address
           /\ last_contiguous_count' = IF address = 0 THEN 0 ELSE n
    BY DEF execute_alloc_contig, allocate_contiguous_pages, count_kept
  <1>2. /\ phase = "running" /\ bootStutter /\ UNCHANGED memVars /\ phase' = phase
        /\ UNCHANGED <<last_test_page, panicked, last_allocated>>
        /\ n \in Nat /\ TOTAL_PAGES \in Nat
    BY PageAllocatorAssumption DEF execute_alloc_contig, Ready, bootStutter, PageCounts
  <1>3. AllocInv'
    BY <1>1, <1>2, AllocateKeeps DEF ShellInv
  <1>4. CASE address = 0 /\ free_pages' = free_pages /\ live' = live
    <2>1. contiguous_pages' = {} /\ last_contiguous_count' = 0
      BY <1>1, <1>4 DEF contiguous_pages
    <2> QED
      BY <1>1, <1>2, <1>3, <1>4, <2>1 DEF memVars
  <1>5. CASE \E first \in PageIndex :
               /\ n # 0 /\ first + n <= TOTAL_PAGES
               /\ address = first * PAGE_SIZE /\ address # 0
               /\ first .. (first + n - 1) \subseteq free_pages
               /\ free_pages' = free_pages \ (first .. (first + n - 1))
               /\ live' = live \cup (first .. (first + n - 1))
    <2>1. PICK p \in PageIndex :
               /\ n # 0 /\ p + n <= TOTAL_PAGES
               /\ address = p * PAGE_SIZE /\ address # 0
               /\ p .. (p + n - 1) \subseteq free_pages
               /\ free_pages' = free_pages \ (p .. (p + n - 1))
               /\ live' = live \cup (p .. (p + n - 1))
      BY <1>5
    <2>2. PICK last : last = p + n - 1
      OBVIOUS
    <2>3. last \in PageIndex /\ n \in 1 .. TOTAL_PAGES /\ p \in Nat
      BY <1>2, <2>1, <2>2 DEF PageIndex
    <2>4. last_contiguous_count' = n /\ last_contiguous_page' # 0
      BY <1>1, <2>1
    <2>5. contiguous_pages' = p .. last
      BY <1>1, <2>1, <2>2, <2>3, <2>4, PageOfAddress DEF contiguous_pages
    <2>6. /\ last_contiguous_count' \in 0 .. TOTAL_PAGES
          /\ last_contiguous_page' = 0 <=> last_contiguous_count' = 0
      BY <1>2, <2>3, <2>4
    <2>7. \E first, final \in PageIndex :
                    /\ first .. final \subseteq free_pages
                    /\ free_pages' = free_pages \ (first .. final)
                    /\ live' = live \cup (first .. final)
                    /\ contiguous_pages' = first .. final
      BY <2>1, <2>2, <2>3, <2>5
    <2> QED
      BY <1>1, <1>2, <1>3, <2>6, <2>7 DEF memVars
  <1> QED
    BY <1>1, <1>2, <1>4, <1>5, AllocateGives

\* FREE-CONTIG gives the run back that the handle stands for.
LEMMA FreeContigEffect ==
    ASSUME ShellInv, execute_free_contig
    PROVE  /\ AllocInv'
           /\ phase = "running" /\ phase' = "running" /\ memory_map' = memory_map
           /\ UNCHANGED <<last_test_page, panicked, last_allocated>>
           /\ last_contiguous_page' = 0 /\ last_contiguous_count' = 0
           /\ \E P \in SUBSET contiguous_pages :
                 free_pages' = free_pages \cup P /\ live' = live \ P
  <1>1. /\ phase = "running" /\ bootStutter /\ UNCHANGED memVars /\ phase' = phase
        /\ UNCHANGED <<last_test_page, panicked, last_allocated>>
    BY DEF execute_free_contig, Ready, bootStutter, handles
  <1>2. CASE last_contiguous_count = 0 \/ last_contiguous_page = 0
    <2>1. UNCHANGED <<page_bitmap, page_metadata, live, handles>>
      BY <1>2 DEF execute_free_contig
    <2>2. AllocInv'
      BY <1>1, <2>1, UnchangedKeeps DEF ShellInv
    <2>3. free_pages' = free_pages
      BY <2>1 DEF free_pages
    <2>4. last_contiguous_count = 0 /\ last_contiguous_page = 0
      BY <1>2 DEF ShellInv, HandlesHeld
    <2> QED
      BY <1>1, <2>1, <2>2, <2>3, <2>4 DEF memVars, handles
  <1>3. CASE ~ (last_contiguous_count = 0 \/ last_contiguous_page = 0)
    <2>1. PICK p \in PageIndex :
               /\ last_contiguous_page = p * PAGE_SIZE
               /\ p + last_contiguous_count <= TOTAL_PAGES
               /\ contiguous_pages = p .. (p + last_contiguous_count - 1)
      BY <1>3, HandlePages
    <2>2. /\ last_contiguous_count \in Nat \ {0} /\ last_contiguous_count \in PageCounts
          /\ last_contiguous_page \in Address
      BY <1>3, <2>1, PageAddresses, PageAllocatorAssumption
      DEF ShellInv, ShellTypeOK, PageCounts
    <2>3. /\ free_contiguous_pages(last_contiguous_page, last_contiguous_count)
          /\ last_contiguous_page' = 0 /\ last_contiguous_count' = 0
      BY <1>3 DEF execute_free_contig
    <2>4. PICK A : A = {add_u64(p * PAGE_SIZE, PAGE_SIZE * k) :
                          k \in 0 .. (last_contiguous_count - 1)}
      OBVIOUS
    <2>5. A \in SUBSET Address /\ freed_by(A) \subseteq contiguous_pages
      BY <2>1, <2>2, <2>4, FreedByRun
    <2>6. freed_by(A) \subseteq live
      BY <2>5 DEF ShellInv, HandlesHeld
    <2>7. CASE free(A)
      <3>1. free_pages' = free_pages \cup freed_by(A) /\ live' = live \ freed_by(A)
        BY <1>1, <2>5, <2>6, <2>7, FreeGivesBack
      <3>2. AllocInv'
        BY <1>1, <2>5, <2>7, FreeEffect, FreeKeeps DEF ShellInv
      <3> QED
        BY <1>1, <2>3, <2>5, <3>1, <3>2 DEF memVars
    <2>8. CASE UNCHANGED <<page_bitmap, page_metadata, live>>
      <3>1. AllocInv' /\ free_pages' = free_pages
        BY <1>1, <2>8, UnchangedKeeps DEF ShellInv, free_pages
      <3> QED
        BY <1>1, <2>3, <2>8, <3>1 DEF memVars
    <2> QED
      BY <2>1, <2>3, <2>4, <2>7, <2>8 DEF free_contiguous_pages
  <1> QED
    BY <1>2, <1>3

-----------------------------------------------------------------------------
(***************************************************************************)
(* The steps.                                                              *)
(***************************************************************************)

\* The initial states: nothing is free, nothing is handed out.
LEMMA ShellInvInit == ShellInit => ShellInv
  <1> SUFFICES ASSUME ShellInit PROVE ShellInv
    OBVIOUS
  <1>1. AllocInv
    BY AllocInvInit DEF ShellInit
  <1>2. 0 \in PageAddress /\ 0 \in 0 .. TOTAL_PAGES
    BY PageAddresses, PageAllocatorAssumption DEF PageIndex
  <1>3. ShellTypeOK
    BY <1>1, <1>2 DEF ShellInit, ShellTypeOK, AllocInv
  <1>4. test_pages = {} /\ contiguous_pages = {}
    BY DEF ShellInit, test_pages, contiguous_pages
  <1> QED
    BY <1>1, <1>3, <1>4
    DEF ShellInv, HandlesHeld, NothingWithoutMap, ShellInit, Init

\* Nothing is handed out while the kernel boots.
LEMMA BootHandsOutNothing ==
    ASSUME AllocInv, Boot
    PROVE  live = {} /\ live' = {} /\ phase # "running"
  BY DEF Boot, MemoryStep, MarkAllUsed, mark_region_free, AllUsableMarked,
         mark_region_used, AllReservedMarked, AllocInv, NothingLiveYet, allocVars

\* Without a map no page becomes free.
LEMMA BootWithoutMap ==
    ASSUME AllocInv, NothingWithoutMap, Boot
    PROVE  NothingWithoutMap'
  <1> SUFFICES ASSUME memory_map' = NoMap, phase' # "memory"
               PROVE  free_pages' = {}
    BY BootHandsOutNothing DEF NothingWithoutMap
  <1>1. CASE MemoryStep
    BY <1>1 DEF MemoryStep, allocVars
  <1>2. CASE MarkAllUsed
    BY <1>2 DEF MarkAllUsed, free_pages
  <1>3. CASE mark_region_free
    <2>1. memory_map = NoMap /\ region \in Nat \ {0} /\ region <= Len(usable_regions)
      BY <1>3 DEF mark_region_free, memVars, AllocInv, TypeOK
    <2>2. Len(usable_regions) = 0
      BY <2>1 DEF AllocInv, NoMapNoRegions
    <2> QED
      BY <2>1, <2>2
  <1>4. CASE AllUsableMarked \/ AllReservedMarked
    <2>1. memory_map = NoMap /\ phase # "memory" /\ UNCHANGED page_bitmap
      BY <1>4 DEF AllUsableMarked, AllReservedMarked, memVars
    <2> QED
      BY <2>1 DEF NothingWithoutMap, free_pages
  <1>5. CASE mark_region_used
    <2>1. /\ memory_map = NoMap /\ phase # "memory"
          /\ region <= Len(reserved_regions)
          /\ mark_reserved(region_pages(reserved_regions[region]))
      BY <1>5 DEF mark_region_used, memVars
    <2>2. PICK P : P = region_pages(reserved_regions[region])
      OBVIOUS
    <2>3. P \in SUBSET PageIndex /\ mark_reserved(P) /\ ArraysAgree
      <3>1. region \in DOMAIN reserved_regions /\ MemInv
        BY <2>1 DEF AllocInv, TypeOK, MemInv, MemTypeOK
      <3>2. P = pages_of(reserved_regions[region])
        BY <2>2, <3>1, ReservedPagesTracked
      <3> QED
        BY <2>1, <2>2, <3>2, InvAgrees DEF pages_of, tracked
    <2>4. free_pages' = free_pages \ P
      BY <2>3, MarkReservedEffect
    <2> QED
      BY <2>1, <2>4 DEF NothingWithoutMap
  <1> QED
    BY <1>1, <1>2, <1>3, <1>4, <1>5 DEF Boot

\* The steps of the boot.
LEMMA ShellBootKeeps ==
    ASSUME ShellInv, ShellBoot
    PROVE  ShellInv'
  <1>1. Boot /\ UNCHANGED <<handles, panicked, last_allocated>>
    BY DEF ShellBoot
  <1>2. AllocInv'
    BY <1>1, AllocInvStep DEF ShellInv, Next
  <1>3. /\ UNCHANGED <<last_test_page, last_contiguous_page, last_contiguous_count>>
        /\ UNCHANGED <<panicked, last_allocated>>
        /\ test_pages' = test_pages /\ contiguous_pages' = contiguous_pages
    BY <1>1 DEF handles, test_pages, contiguous_pages
  <1>4. ShellTypeOK'
    BY <1>2, <1>3 DEF ShellInv, ShellTypeOK, AllocInv, PageAddress
  <1>5. live' = live
    BY <1>1, BootHandsOutNothing DEF ShellInv
  <1>6. NothingWithoutMap'
    BY <1>1, BootWithoutMap DEF ShellInv
  <1> QED
    BY <1>2, <1>3, <1>4, <1>5, <1>6 DEF ShellInv, HandlesHeld

\* What every command has to show beyond the allocator's invariant: the
\* handles are well formed and held, and pages only move between free and
\* taken.
LEMMA CommandKeeps ==
    ASSUME ShellInv, AllocInv',
           phase = "running", phase' = "running", memory_map' = memory_map,
           last_test_page' \in PageAddress, last_contiguous_page' \in PageAddress,
           last_contiguous_count' \in 0 .. TOTAL_PAGES,
           panicked' \in BOOLEAN, last_allocated' \in PageAddress,
           HandlesHeld',
           free_pages' \cup live' = free_pages \cup live
    PROVE  ShellInv'
  <1>1. ShellTypeOK'
    BY DEF ShellTypeOK, AllocInv, PageAddress
  <1>2. NothingWithoutMap'
    BY DEF ShellInv, NothingWithoutMap
  <1> QED
    BY <1>1, <1>2 DEF ShellInv

\* ALLOC-PAGE.
LEMMA AllocPageKeeps ==
    ASSUME ShellInv, execute_alloc_page
    PROVE  ShellInv'
  <1>1. /\ AllocInv'
        /\ phase = "running" /\ phase' = "running" /\ memory_map' = memory_map
        /\ UNCHANGED <<last_contiguous_page, last_contiguous_count, panicked>>
        /\ last_test_page' \in PageAddress /\ last_allocated' \in PageAddress
        /\ \/ free_pages' = free_pages /\ live' = live /\ test_pages' = {}
           \/ \E p \in free_pages :
                 /\ free_pages' = free_pages \ {p}
                 /\ live' = live \cup {p}
                 /\ test_pages' = {p}
    BY AllocPageEffect
  <1>2. contiguous_pages' = contiguous_pages
    BY <1>1 DEF contiguous_pages
  <1>3. live \cap free_pages = {}
    BY <1>1 DEF ShellInv, AllocInv, Exclusive
  <1>4. HandlesHeld' /\ free_pages' \cup live' = free_pages \cup live
    BY <1>1, <1>2, <1>3 DEF ShellInv, HandlesHeld
  <1> QED
    BY <1>1, <1>4, CommandKeeps DEF ShellInv, ShellTypeOK

\* FREE-PAGE.
LEMMA FreePageKeeps ==
    ASSUME ShellInv, execute_free_page
    PROVE  ShellInv'
  <1>1. /\ AllocInv'
        /\ phase = "running" /\ phase' = "running" /\ memory_map' = memory_map
        /\ UNCHANGED <<last_contiguous_page, last_contiguous_count, panicked>>
        /\ last_test_page' = 0 /\ last_allocated' \in PageAddress
        /\ \E P \in SUBSET test_pages :
              free_pages' = free_pages \cup P /\ live' = live \ P
    BY FreePageEffect
  <1>2. contiguous_pages' = contiguous_pages /\ test_pages' = {}
    BY <1>1 DEF contiguous_pages, test_pages
  <1>3. HandlesHeld' /\ free_pages' \cup live' = free_pages \cup live
    BY <1>1, <1>2 DEF ShellInv, HandlesHeld
  <1>4. 0 \in PageAddress
    BY PageAddresses, PageAllocatorAssumption DEF PageIndex
  <1> QED
    BY <1>1, <1>3, <1>4, CommandKeeps DEF ShellInv, ShellTypeOK

\* ALLOC-CONTIG.
LEMMA AllocContigKeeps ==
    ASSUME ShellInv, NEW n \in PageCounts, execute_alloc_contig(n)
    PROVE  ShellInv'
  <1>1. /\ AllocInv'
        /\ phase = "running" /\ phase' = "running" /\ memory_map' = memory_map
        /\ UNCHANGED <<last_test_page, panicked, last_allocated>>
        /\ last_contiguous_page' \in PageAddress
        /\ last_contiguous_count' \in 0 .. TOTAL_PAGES
        /\ last_contiguous_page' = 0 <=> last_contiguous_count' = 0
        /\ \/ free_pages' = free_pages /\ live' = live /\ contiguous_pages' = {}
           \/ \E first, last \in PageIndex :
                 /\ first .. last \subseteq free_pages
                 /\ free_pages' = free_pages \ (first .. last)
                 /\ live' = live \cup (first .. last)
                 /\ contiguous_pages' = first .. last
    BY AllocContigEffect
  <1>2. test_pages' = test_pages
    BY <1>1 DEF test_pages
  <1>3. live \cap free_pages = {}
    BY <1>1 DEF ShellInv, AllocInv, Exclusive
  <1>4. /\ test_pages' \subseteq live' /\ contiguous_pages' \subseteq live'
        /\ test_pages' \cap contiguous_pages' = {}
        /\ free_pages' \cup live' = free_pages \cup live
    <2>1. PICK P : /\ P \subseteq free_pages
                   /\ free_pages' = free_pages \ P /\ live' = live \cup P
                   /\ contiguous_pages' = P
      <3>1. CASE free_pages' = free_pages /\ live' = live /\ contiguous_pages' = {}
        BY <3>1
      <3> QED
        BY <1>1, <3>1
    <2> QED
      BY <1>2, <1>3, <2>1 DEF ShellInv, HandlesHeld
  <1>5. HandlesHeld'
    BY <1>1, <1>4 DEF HandlesHeld
  <1> QED
    BY <1>1, <1>4, <1>5, CommandKeeps DEF ShellInv, ShellTypeOK

\* FREE-CONTIG.
LEMMA FreeContigKeeps ==
    ASSUME ShellInv, execute_free_contig
    PROVE  ShellInv'
  <1>1. /\ AllocInv'
        /\ phase = "running" /\ phase' = "running" /\ memory_map' = memory_map
        /\ UNCHANGED <<last_test_page, panicked, last_allocated>>
        /\ last_contiguous_page' = 0 /\ last_contiguous_count' = 0
        /\ \E P \in SUBSET contiguous_pages :
              free_pages' = free_pages \cup P /\ live' = live \ P
    BY FreeContigEffect
  <1>2. test_pages' = test_pages /\ contiguous_pages' = {}
    BY <1>1 DEF contiguous_pages, test_pages
  <1>3. HandlesHeld' /\ free_pages' \cup live' = free_pages \cup live
    BY <1>1, <1>2 DEF ShellInv, HandlesHeld
  <1>4. 0 \in PageAddress /\ 0 \in 0 .. TOTAL_PAGES
    BY PageAddresses, PageAllocatorAssumption DEF PageIndex
  <1> QED
    BY <1>1, <1>3, <1>4, CommandKeeps DEF ShellInv, ShellTypeOK

\* The machine stops with its memory as it is.
LEMMA PanicKeeps ==
    ASSUME ShellInv, execute_panic
    PROVE  ShellInv' /\ UNCHANGED <<phase, free_pages, live>>
  <1>1. /\ phase = "running" /\ panicked' = TRUE
        /\ UNCHANGED vars /\ UNCHANGED handles /\ UNCHANGED last_allocated
    BY DEF execute_panic, Ready
  <1>2. AllocInv'
    BY <1>1, AllocInvStep DEF ShellInv
  <1>3. UNCHANGED <<memory_map, phase, page_bitmap, live>>
    BY <1>1 DEF vars, memVars, allocVars
  <1>4. UNCHANGED <<free_pages, test_pages, contiguous_pages>>
    BY <1>1, <1>3 DEF free_pages, test_pages, contiguous_pages, handles
  <1>5. UNCHANGED <<last_test_page, last_contiguous_page, last_contiguous_count>>
    BY <1>1 DEF handles
  <1>6. HandlesHeld'
    BY <1>3, <1>4, <1>5 DEF ShellInv, HandlesHeld
  <1>7. ShellInv'
    BY <1>1, <1>2, <1>3, <1>4, <1>5, <1>6, CommandKeeps DEF ShellInv, ShellTypeOK
  <1> QED
    BY <1>3, <1>4, <1>7

\* A step in which nothing changes.
LEMMA ShellStutterKeeps ==
    ASSUME ShellInv, UNCHANGED shellVars
    PROVE  ShellInv' /\ UNCHANGED <<phase, free_pages, live>>
  <1>1. /\ UNCHANGED vars /\ UNCHANGED handles
        /\ UNCHANGED panicked /\ UNCHANGED last_allocated
    BY DEF shellVars
  <1>2. AllocInv'
    BY <1>1, AllocInvStep DEF ShellInv
  <1>3. UNCHANGED <<memory_map, phase, page_bitmap, live>>
    BY <1>1 DEF vars, memVars, allocVars
  <1>4. /\ UNCHANGED <<free_pages, test_pages, contiguous_pages>>
        /\ UNCHANGED <<last_test_page, last_contiguous_page, last_contiguous_count>>
    BY <1>1, <1>3 DEF free_pages, test_pages, contiguous_pages, handles
  <1>5. ShellTypeOK'
    BY <1>1, <1>2, <1>4 DEF ShellInv, ShellTypeOK, AllocInv, PageAddress
  <1> QED
    BY <1>2, <1>3, <1>4, <1>5 DEF ShellInv, HandlesHeld, NothingWithoutMap

\* Every step keeps the invariant.
LEMMA ShellInvStep == ShellInv /\ [ShellNext]_shellVars => ShellInv'
  BY ShellBootKeeps, AllocPageKeeps, FreePageKeeps, AllocContigKeeps,
     FreeContigKeeps, PanicKeeps, ShellStutterKeeps DEF ShellNext

-----------------------------------------------------------------------------
(***************************************************************************)
(* Theorems.                                                               *)
(***************************************************************************)

\* The invariant of the allocator together with its caller, from the
\* firmware's map to the last command.
THEOREM ShellInvariant == ShellSpec => []ShellInv
  BY ShellInvInit, ShellInvStep, PTL DEF ShellSpec

\* Type correctness of allocator and shell.
THEOREM ShellTypeCorrect == ShellSpec => []ShellTypeOK
  <1>1. ShellInv => ShellTypeOK
    BY DEF ShellInv
  <1> QED
    BY <1>1, ShellInvariant, PTL

\* The shell only ever frees what it holds, and nothing twice.
THEOREM HandlesAreHeld == ShellSpec => []HandlesHeld
  <1>1. ShellInv => HandlesHeld
    BY DEF ShellInv
  <1> QED
    BY <1>1, ShellInvariant, PTL

(***************************************************************************)
(* From the firmware's map to the last command the memory of the kernel is *)
(* a FramePool: the end of initialize opens it, an allocation takes a run  *)
(* of frames nobody has, a free gives back frames that were taken, and no  *)
(* other step is seen.                                                     *)
(***************************************************************************)
THEOREM ShellImplementsFramePool == ShellSpec => ImplementsFramePool
  <1>1. ShellInit => Pool!PoolInit
    BY DEF ShellInit, Init, Pool!PoolInit
  <1>2. ShellInv /\ [ShellNext]_shellVars => [Pool!PoolNext]_(Pool!poolVars)
    <2> SUFFICES ASSUME ShellInv, [ShellNext]_shellVars
                 PROVE  Pool!PoolNext \/ UNCHANGED Pool!poolVars
      BY DEF Pool!poolVars
    <2>1. CASE UNCHANGED shellVars
      BY <2>1, ShellStutterKeeps DEF Pool!poolVars
    <2>2. CASE execute_panic
      BY <2>2, PanicKeeps DEF Pool!poolVars
    <2>3. CASE ShellBoot
      <3>1. live = {} /\ live' = {} /\ phase # "running"
        BY <2>3, BootHandsOutNothing DEF ShellBoot, ShellInv
      <3>2. CASE phase' = "running"
        <4>1. free_pages' \subseteq PageIndex
          BY DEF free_pages, PageIndex
        <4> QED
          BY <3>1, <3>2, <4>1 DEF Pool!PoolNext, Pool!Open
      <3>3. CASE phase' # "running"
        BY <3>1, <3>3 DEF Pool!poolVars
      <3> QED
        BY <3>2, <3>3
    <2>4. ASSUME phase = "running", phase' = "running",
                 live \cap free_pages = {},
                 NEW first \in PageIndex, NEW last \in PageIndex,
                 first .. last \subseteq free_pages,
                 free_pages' = free_pages \ (first .. last),
                 live' = live \cup (first .. last)
          PROVE  Pool!PoolNext
      <3>1. Pool!Run(first, last - first + 1) = first .. last
        <4>1. first \in Int /\ last \in Int
          BY PageAllocatorAssumption DEF PageIndex
        <4>2. first + (last - first + 1) - 1 = last
          BY <4>1
        <4> QED
          BY <4>2 DEF Pool!Run
      <3>2. PICK P : P = first .. last
        OBVIOUS
      <3>3. Pool!Take(first, last - first + 1)
        BY <2>4, <3>1, <3>2 DEF Pool!Take
      <3> QED
        BY <3>3 DEF Pool!PoolNext
    <2>5. ASSUME phase = "running", phase' = "running",
                 NEW P, P \subseteq live,
                 free_pages' = free_pages \cup P, live' = live \ P
          PROVE  Pool!PoolNext
      <3>1. live \ live' = P /\ free_pages' \cup live' = free_pages \cup live
        BY <2>5
      <3> QED
        BY <2>5, <3>1 DEF Pool!PoolNext, Pool!Give
    <2>6. ASSUME phase = "running" PROVE live \cap free_pages = {}
      BY <2>6 DEF ShellInv, AllocInv, Exclusive
    <2>7. CASE execute_alloc_page
      <3>1. /\ phase = "running" /\ phase' = "running"
            /\ \/ free_pages' = free_pages /\ live' = live
               \/ \E p \in free_pages :
                     free_pages' = free_pages \ {p} /\ live' = live \cup {p}
        BY <2>7, AllocPageEffect
      <3>2. ASSUME NEW p \in free_pages,
                   free_pages' = free_pages \ {p}, live' = live \cup {p}
            PROVE  Pool!PoolNext
        <4>1. p \in PageIndex /\ p .. p = {p}
          BY PageAllocatorAssumption DEF free_pages, PageIndex
        <4> QED
          BY <2>4, <2>6, <3>1, <3>2, <4>1
      <3> QED
        BY <3>1, <3>2 DEF Pool!poolVars
    <2>8. CASE \E n \in PageCounts : execute_alloc_contig(n)
      <3>1. /\ phase = "running" /\ phase' = "running"
            /\ \/ free_pages' = free_pages /\ live' = live
               \/ \E first, last \in PageIndex :
                     /\ first .. last \subseteq free_pages
                     /\ free_pages' = free_pages \ (first .. last)
                     /\ live' = live \cup (first .. last)
        BY <2>8, AllocContigEffect
      <3> QED
        BY <2>4, <2>6, <3>1 DEF Pool!poolVars
    <2>9. CASE execute_free_page
      <3>1. /\ phase = "running" /\ phase' = "running"
            /\ \E P \in SUBSET test_pages :
                  free_pages' = free_pages \cup P /\ live' = live \ P
        BY <2>9, FreePageEffect
      <3> QED
        BY <2>5, <3>1 DEF ShellInv, HandlesHeld
    <2>10. CASE execute_free_contig
      <3>1. /\ phase = "running" /\ phase' = "running"
            /\ \E P \in SUBSET contiguous_pages :
                  free_pages' = free_pages \cup P /\ live' = live \ P
        BY <2>10, FreeContigEffect
      <3> QED
        BY <2>5, <3>1 DEF ShellInv, HandlesHeld
    <2> QED
      BY <2>1, <2>2, <2>3, <2>7, <2>8, <2>9, <2>10 DEF ShellNext
  <1> QED
    BY <1>1, <1>2, ShellInvariant, PTL DEF ShellSpec, ImplementsFramePool, Pool!PoolSpec

=============================================================================
