------------------------------ MODULE EventFifo ------------------------------
(***************************************************************************)
(* What the keyboard driver promises the main loop: the events come out in *)
(* the order they went in, each once; the only loss is an event that       *)
(* arrives when Size of them wait, and then it is the new one that goes.   *)
(***************************************************************************)
EXTENDS Naturals, Sequences

CONSTANTS Event, Size

VARIABLES
    waiting,   \* the events that wait, oldest first
    read       \* the event the reader took last

fifoVars == <<waiting, read>>

FifoInit == waiting = <<>> /\ read \in Event

Put(e) ==
    /\ Len(waiting) < Size
    /\ waiting' = Append(waiting, e)
    /\ UNCHANGED read

Lose == Len(waiting) = Size /\ UNCHANGED fifoVars

Get ==
    /\ waiting # <<>>
    /\ read' = Head(waiting)
    /\ waiting' = Tail(waiting)

FifoNext == (\E e \in Event : Put(e)) \/ Lose \/ Get

FifoSpec == FifoInit /\ [][FifoNext]_fifoVars

=============================================================================
