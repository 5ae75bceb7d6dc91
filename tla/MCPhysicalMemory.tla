-------------------------- MODULE MCPhysicalMemory --------------------------
(***************************************************************************)
(* BootMap and PhysicalMemory on pages of 4 bytes in a u64 of 64 values.   *)
(* The lists of the plain firmwares are all pairs of entries with aligned  *)
(* and unaligned ends, below, across and above MIN_ALLOCATABLE_ADDRESS,    *)
(* overlapping or not, and the triples of a smaller set, which fill the    *)
(* table of two regions.  The odd firmwares have up to four answers, one   *)
(* more than the buffer holds, of every kind the loader tells apart.       *)
(***************************************************************************)
EXTENDS BootMap

E(b, l, t) == [base_addr |-> b, length |-> l, type |-> t]
RESERVED == CHOOSE t \in OtherTypes : TRUE

R(entry, size, attribute, smap) ==
    [entry |-> entry, size |-> size, attributes |-> attribute, smap |-> smap]

MCPairEntries ==
    {E(b, l, t) : b \in {0, 6, 9, 12, 21}, l \in {0, 3, 8, 11, 15},
                  t \in {USABLE} \cup OtherTypes}

MCTripleEntries ==
    {E(0, 8, USABLE), E(4, 10, USABLE), E(12, 8, USABLE), E(14, 4, USABLE),
     E(20, 8, USABLE), E(20, 8, RESERVED)}

MCLists ==
    UNION {[1 .. n -> MCPairEntries] : n \in 0 .. 2} \cup [1 .. 3 -> MCTripleEntries]

PlainFirmwares ==
    {[replies |-> [k \in DOMAIN l |-> R(l[k], 20, 0, TRUE)], ends_with |-> "ebx"] :
        l \in MCLists}

\* An answer of 20 bytes, one with attributes, an empty entry with
\* attributes and one without, one that is too short and one unsigned.
OddReplies ==
    {R(E(8, 11, USABLE), 20, 0, TRUE), R(E(20, 8, RESERVED), 24, 0, TRUE),
     R(E(6, 0, USABLE), 24, 0, TRUE), R(E(0, 0, RESERVED), 20, 0, TRUE),
     R(E(12, 8, USABLE), 16, 0, TRUE), R(E(12, 8, USABLE), 24, 1, FALSE)}

OddFirmwares ==
    [replies: UNION {[1 .. n -> OddReplies] : n \in 0 .. 4},
     ends_with: {"ebx", "carry"}]

MCFirmwares == PlainFirmwares \cup OddFirmwares

\* Every map the loop passes through.
MCMemoryMaps ==
    LET TripleEntries == MCTripleEntries \cup {r.entry : r \in OddReplies}
    IN  UNION {[1 .. n -> MCPairEntries \cup TripleEntries] : n \in 0 .. 2}
        \cup [1 .. 3 -> TripleEntries]

\* The kernel image unaligned and inside low memory, low memory itself, a
\* page of it again, and an empty range, which reserve_region ignores.
MCReservations == <<<<5, 7>>, <<0, 8>>, <<4, 8>>, <<8, 8>>, <<9, 11>>>>

=============================================================================
