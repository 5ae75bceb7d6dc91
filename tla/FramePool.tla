------------------------------ MODULE FramePool ------------------------------
(***************************************************************************)
(* What the physical memory of the kernel promises its users: once open, a *)
(* fixed set of frames, of which some are taken.  A request takes a run of *)
(* consecutive frames nobody has, whenever there is one; giving back       *)
(* returns frames that were taken.  Nothing else ever enters or leaves.    *)
(***************************************************************************)
EXTENDS Integers

CONSTANT Frame   \* a set of page numbers

VARIABLES open, frames, taken

poolVars == <<open, frames, taken>>

PoolInit == open = FALSE /\ frames = {} /\ taken = {}

\* Before the pool opens nothing can be taken.
Open ==
    /\ ~ open
    /\ open' = TRUE
    /\ frames' \in SUBSET Frame
    /\ taken' = {}

Run(first, n) == first .. (first + n - 1)

Take(first, n) ==
    /\ open
    /\ Run(first, n) \subseteq frames \ taken
    /\ taken' = taken \cup Run(first, n)
    /\ UNCHANGED <<open, frames>>

Give(pages) ==
    /\ open
    /\ pages \subseteq taken
    /\ taken' = taken \ pages
    /\ UNCHANGED <<open, frames>>

PoolNext ==
    \/ Open
    \/ \E first, last \in Frame : Take(first, last - first + 1)
    \/ Give(taken \ taken')

PoolSpec == PoolInit /\ [][PoolNext]_poolVars

=============================================================================
