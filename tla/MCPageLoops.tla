---------------------------- MODULE MCPageLoops ----------------------------
(***************************************************************************)
(* PageLoops with six tracked pages of 4 bytes, in a bitmap of three bytes *)
(* of two bits, two of the pages below MIN_ALLOCATABLE_ADDRESS.  The maps: *)
(* one with a hole at page 4 and RAM that ends beyond the tracked pages,   *)
(* and none at all, when nothing is reserved and callers can make any page *)
(* free, page 0 too.  They free from addresses that are aligned or not,    *)
(* reserved, used, beyond the tracked pages, and so high that a run wraps  *)
(* to page 0.                                                              *)
(***************************************************************************)
EXTENDS PageLoops

E(b, l, t) == [base_addr |-> b, length |-> l, type |-> t]
RESERVED == CHOOSE t \in OtherTypes : TRUE

MCMemoryMaps ==
    { <<E(0, 6, USABLE), E(6, 2, RESERVED), E(8, 9, USABLE), E(20, 8, USABLE)>>,
      NoMap }

MCReservations == <<<<5, 10>>, <<0, 8>>>>

MCAddresses == {0, 4, 8, 12, 14, 16, 24, 28}
MCCounts == {0, 1, 2, 3, 4, 7}

=============================================================================
