--------------------------- MODULE MCPageAllocator ---------------------------
(***************************************************************************)
(* PageAllocator with eight tracked pages of 4 bytes, two of them below    *)
(* MIN_ALLOCATABLE_ADDRESS.  The maps: an ordinary one, with a hole at     *)
(* page 6 and RAM that ends beyond the tracked pages; one whose entries    *)
(* overlap; one with more regions than the table holds; one with nothing   *)
(* usable; and none at all.                                                *)
(***************************************************************************)
EXTENDS PageAllocator

E(b, l, t) == [base_addr |-> b, length |-> l, type |-> t]
RESERVED == CHOOSE t \in OtherTypes : TRUE

MCMemoryMaps ==
    { <<E(0, 6, USABLE), E(6, 2, RESERVED), E(8, 17, USABLE), E(28, 12, USABLE)>>,
      <<E(8, 10, USABLE), E(12, 13, USABLE), E(20, 4, RESERVED)>>,
      <<E(8, 4, USABLE), E(12, 8, USABLE), E(20, 4, USABLE), E(24, 8, USABLE)>>,
      <<E(0, 9, USABLE)>>,
      NoMap }

\* The kernel image and low memory as in the code, and one page above
\* MIN_ALLOCATABLE_ADDRESS, which a kernel image of more than 1 MiB reaches.
MCReservations == <<<<5, 10>>, <<0, 8>>>>

=============================================================================
