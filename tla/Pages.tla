------------------------------- MODULE Pages -------------------------------
(***************************************************************************)
(* Addresses and page arithmetic of the memory subsystem                   *)
(* (kernel/memory/page.cpp).  Addresses are u64 values: the modulus is a   *)
(* parameter so that a small instance has a small address space, and every *)
(* addition the code does on addresses wraps at it.                        *)
(***************************************************************************)
EXTENDS Integers

CONSTANTS
    U64,        \* the modulus of u64 arithmetic (2^64 in the kernel)
    PAGE_SIZE   \* bytes per page (4096 in the kernel)

ASSUME PagesAssumption ==
    /\ PAGE_SIZE \in Nat \ {0}
    /\ U64 \in Nat
    /\ PAGE_SIZE < U64

Address == 0 .. (U64 - 1)

\* a + b in u64 arithmetic, for a and b already in range.
add_u64(a, b) == IF a + b < U64 THEN a + b ELSE a + b - U64

align_page_down(address) == address - (address % PAGE_SIZE)

\* Faulty variant of align_page_up: no early return for an aligned address.
align_page_up_always_adds(address) ==
    add_u64(address, PAGE_SIZE - (address % PAGE_SIZE))

align_page_up(address) ==
    LET remainder == address % PAGE_SIZE
    IN  IF remainder = 0 THEN address
                         ELSE add_u64(address, PAGE_SIZE - remainder)

is_page_aligned(address) == address % PAGE_SIZE = 0

=============================================================================
