------------------------------- MODULE MCShell -------------------------------
(***************************************************************************)
(* The shell over eight tracked pages, two of them in low memory: one map  *)
(* with a hole and a reserved page, one with overlapping entries, one with *)
(* nothing usable, and none at all.                                        *)
(***************************************************************************)
EXTENDS Shell

E(b, l, t) == [base_addr |-> b, length |-> l, type |-> t]
RESERVED == CHOOSE t \in OtherTypes : TRUE

MCMemoryMaps ==
    { <<E(0, 6, USABLE), E(6, 2, RESERVED), E(8, 17, USABLE), E(28, 12, USABLE)>>,
      <<E(8, 10, USABLE), E(12, 20, USABLE), E(32, 4, RESERVED)>>,
      <<E(0, 9, USABLE)>>,
      NoMap }

MCReservations == <<<<5, 10>>, <<0, 8>>>>

=============================================================================
