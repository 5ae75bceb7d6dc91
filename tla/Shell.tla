-------------------------------- MODULE Shell --------------------------------
(***************************************************************************)
(* The shell's memory commands (kernel/core/shell.cpp): the only caller    *)
(* the page allocator has.  The shell keeps the address of the last page   *)
(* it was given by ALLOC-PAGE and of the last run it was given by          *)
(* ALLOC-CONTIG, and frees nothing but those.                              *)
(*                                                                         *)
(* One command runs at a time, from the main loop, and no interrupt        *)
(* handler touches this state, so a command is one action.  Commands that  *)
(* only print (HELP, MEMSTATS, MEMMAP, RESERVED, PAGE-INFO, HEAP-INFO...)  *)
(* change nothing here.                                                    *)
(***************************************************************************)
EXTENDS PageAllocator

VARIABLES
    last_test_page,         \* address from ALLOC-PAGE, 0 if none
    last_contiguous_page,   \* address from ALLOC-CONTIG, 0 if none
    last_contiguous_count,  \* how many pages that run has
    panicked,               \* PANIC-TEST or IDT-TEST stopped the machine
    last_allocated          \* history: the page ALLOC-PAGE last handed out and
                            \* FREE-PAGE has not freed since, 0 if none

handles == <<last_test_page, last_contiguous_page, last_contiguous_count>>
shellVars == <<vars, handles, panicked, last_allocated>>

PageAddress == {p * PAGE_SIZE : p \in PageIndex}

ShellTypeOK ==
    /\ TypeOK
    /\ last_test_page \in PageAddress
    /\ last_contiguous_page \in PageAddress
    /\ last_contiguous_count \in 0 .. TOTAL_PAGES
    /\ panicked \in BOOLEAN
    /\ last_allocated \in PageAddress

ShellInit ==
    /\ Init
    /\ last_test_page = 0
    /\ last_contiguous_page = 0
    /\ last_contiguous_count = 0
    /\ panicked = FALSE
    /\ last_allocated = 0

\* The kernel initialises memory before the main loop reads a command.
ShellBoot ==
    /\ Boot
    /\ UNCHANGED <<handles, panicked, last_allocated>>

Ready == phase = "running" /\ ~ panicked

-----------------------------------------------------------------------------
(***************************************************************************)
(* The commands.                                                           *)
(***************************************************************************)

\* Faulty variant of count_kept: kept although the allocation failed.
count_kept_always(count, address) == count

count_kept(count, address) == IF address = 0 THEN 0 ELSE count

\* The answer of the allocator overwrites last_test_page, also when it is 0.
execute_alloc_page ==
    /\ Ready
    /\ \E address \in PageAddress :
          /\ allocate_page(address)
          /\ last_test_page' = address
          /\ last_allocated' = IF address = 0 THEN last_allocated ELSE address
    /\ UNCHANGED <<last_contiguous_page, last_contiguous_count, panicked>>
    /\ bootStutter

\* Faulty variant of execute_free_page: the handle outlives the page.
execute_free_page_keeps_handle ==
    /\ Ready
    /\ last_test_page # 0
    /\ free_page(last_test_page)
    /\ UNCHANGED <<handles, panicked, last_allocated>>
    /\ bootStutter

execute_free_page ==
    /\ Ready
    /\ IF last_test_page = 0
       THEN UNCHANGED <<page_bitmap, page_metadata, live,
                        last_test_page, last_allocated>>
       ELSE /\ free_page(last_test_page)
            /\ last_test_page' = 0
            /\ last_allocated' =
                  IF last_allocated = last_test_page THEN 0 ELSE last_allocated
    /\ UNCHANGED <<last_contiguous_page, last_contiguous_count, panicked>>
    /\ bootStutter

execute_alloc_contig(count) ==
    /\ Ready
    /\ \E address \in PageAddress :
          /\ allocate_contiguous_pages(count, address)
          /\ last_contiguous_page' = address
          /\ last_contiguous_count' = count_kept(count, address)
    /\ UNCHANGED <<last_test_page, panicked, last_allocated>>
    /\ bootStutter

execute_free_contig ==
    /\ Ready
    /\ IF last_contiguous_count = 0 \/ last_contiguous_page = 0
       THEN UNCHANGED <<page_bitmap, page_metadata, live, handles>>
       ELSE /\ free_contiguous_pages(last_contiguous_page, last_contiguous_count)
            /\ last_contiguous_page' = 0
            /\ last_contiguous_count' = 0
            /\ UNCHANGED last_test_page
    /\ UNCHANGED <<panicked, last_allocated>>
    /\ bootStutter

\* PANIC-TEST calls panic; IDT-TEST raises an invalid opcode, whose handler
\* does.  panic never returns.
execute_panic ==
    /\ Ready
    /\ panicked' = TRUE
    /\ UNCHANGED <<vars, handles, last_allocated>>

ShellNext ==
    \/ ShellBoot
    \/ execute_alloc_page \/ execute_free_page
    \/ \E count \in PageCounts : execute_alloc_contig(count)
    \/ execute_free_contig
    \/ execute_panic

ShellSpec == ShellInit /\ [][ShellNext]_shellVars

-----------------------------------------------------------------------------
(***************************************************************************)
(* Properties.                                                             *)
(***************************************************************************)

test_pages == IF last_test_page = 0 THEN {} ELSE {last_test_page \div PAGE_SIZE}

contiguous_pages ==
    IF last_contiguous_page = 0 THEN {}
    ELSE LET first == last_contiguous_page \div PAGE_SIZE
         IN  first .. (first + last_contiguous_count - 1)

\* What the shell will free it still holds, page by page, and no page is
\* behind both handles: no command frees a page twice, or one that was never
\* handed out, which free_page by itself would accept.
HandlesHeld ==
    /\ test_pages \subseteq live
    /\ contiguous_pages \subseteq live
    /\ test_pages \cap contiguous_pages = {}
    /\ last_contiguous_page = 0 <=> last_contiguous_count = 0

(***************************************************************************)
(* The whole chain from the firmware's map to the shell's commands is a    *)
(* FramePool: the frames are fixed when the allocator starts, and from     *)
(* then on commands only move them between free and taken.                 *)
(***************************************************************************)
Pool == INSTANCE FramePool WITH
            Frame  <- PageIndex,
            open   <- phase = "running",
            frames <- IF phase = "running" THEN free_pages \cup live ELSE {},
            taken  <- live

ImplementsFramePool == Pool!PoolSpec

(***************************************************************************)
(* The help text of FREE-PAGE, "Frees the last allocated test page"        *)
(* (kernel/core/shell.cpp:138): the page ALLOC-PAGE last handed out, until *)
(* FREE-PAGE has freed it, is the page FREE-PAGE would free.               *)
(***************************************************************************)
FreePageFreesLastAllocated ==
    last_allocated # 0 => last_test_page = last_allocated

=============================================================================
