----------------------------- MODULE EventQueue -----------------------------
(***************************************************************************)
(* The queue between the keyboard interrupt handler and the main loop      *)
(* (push_event and read_event of kernel/drivers/keyboard.cpp): a ring of   *)
(* EVENT_QUEUE_SIZE events with a head, a tail and a count.                *)
(*                                                                         *)
(* There is one processor.  The handler runs with interrupts off, so its   *)
(* push_event is one action.  read_event runs with interrupts on until its *)
(* cli, and the handler may come in before any of its instructions that    *)
(* finds them on; each of its accesses to the ring is an action, the       *)
(* decrement of the count two, since it is compiled to a load and a store. *)
(***************************************************************************)
EXTENDS Integers, Sequences

CONSTANTS
    Event,              \* the events
    ZeroEvent,          \* the event whose fields are all zero
    EVENT_QUEUE_SIZE    \* slots in the ring (64)

ASSUME EventQueueAssumption ==
    /\ EVENT_QUEUE_SIZE \in Nat \ {0}
    /\ ZeroEvent \in Event

VARIABLES
    interrupts_on,   \* the interrupt flag of the processor
    event_queue, queue_head, queue_tail, queue_count,
    reader,          \* the next step of read_event; "idle" outside of it
    curr_rflags,     \* local of read_event: the interrupt flag on entry
    loaded_count,    \* register holding queue_count during the decrement
    event            \* the caller's event, written by read_event

ring == <<event_queue, queue_head, queue_tail, queue_count>>
readerVars == <<reader, curr_rflags, loaded_count, event>>
queueVars == <<interrupts_on, ring, readerVars>>

Slot == 0 .. (EVENT_QUEUE_SIZE - 1)
ReaderStep == {"idle", "cli", "check", "copy", "advance", "load", "store",
               "restore", "restore_empty"}

QueueTypeOK ==
    /\ interrupts_on \in BOOLEAN
    /\ event_queue \in [Slot -> Event]
    /\ queue_head \in Slot
    /\ queue_tail \in Slot
    /\ queue_count \in 0 .. EVENT_QUEUE_SIZE
    /\ reader \in ReaderStep
    /\ curr_rflags \in BOOLEAN
    /\ loaded_count \in 0 .. EVENT_QUEUE_SIZE
    /\ event \in Event

QueueInit ==
    /\ event_queue = [s \in Slot |-> ZeroEvent]
    /\ queue_head = 0
    /\ queue_tail = 0
    /\ queue_count = 0
    /\ reader = "idle"
    /\ curr_rflags = FALSE
    /\ loaded_count = 0
    /\ event = ZeroEvent

next_slot(s) == (s + 1) % EVENT_QUEUE_SIZE

-----------------------------------------------------------------------------
\* Faulty variant of push_event: a full ring is not noticed.
push_event_unchecked(e) ==
    /\ event_queue' = [event_queue EXCEPT ![queue_tail] = e]
    /\ queue_tail' = next_slot(queue_tail)
    /\ queue_count' = queue_count + 1
    /\ UNCHANGED queue_head

\* push_event, called by the interrupt handler.
push_event(e) ==
    /\ IF queue_count >= EVENT_QUEUE_SIZE
       THEN UNCHANGED <<event_queue, queue_tail, queue_count>>
       ELSE /\ event_queue' = [event_queue EXCEPT ![queue_tail] = e]
            /\ queue_tail' = next_slot(queue_tail)
            /\ queue_count' = queue_count + 1
    /\ UNCHANGED queue_head

-----------------------------------------------------------------------------
(***************************************************************************)
(* read_event, step by step.                                               *)
(***************************************************************************)

\* The call, up to read_rflags.
CallReadEvent ==
    /\ reader = "idle"
    /\ reader' = "cli"
    /\ curr_rflags' = interrupts_on
    /\ UNCHANGED <<interrupts_on, ring, loaded_count, event>>

\* Faulty variant of DisableInterrupts: the cli is missing.
DisableInterruptsNot ==
    /\ reader = "cli"
    /\ reader' = "check"
    /\ UNCHANGED <<interrupts_on, ring, curr_rflags, loaded_count, event>>

DisableInterrupts ==
    /\ reader = "cli"
    /\ reader' = "check"
    /\ interrupts_on' = FALSE
    /\ UNCHANGED <<ring, curr_rflags, loaded_count, event>>

CheckCount ==
    /\ reader = "check"
    /\ reader' = IF queue_count = 0 THEN "restore_empty" ELSE "copy"
    /\ UNCHANGED <<interrupts_on, ring, curr_rflags, loaded_count, event>>

\* Faulty variant of CopyEvent: the head is taken as already advanced.
CopyNextEvent ==
    /\ reader = "copy"
    /\ reader' = "advance"
    /\ event' = event_queue[next_slot(queue_head)]
    /\ UNCHANGED <<interrupts_on, ring, curr_rflags, loaded_count>>

CopyEvent ==
    /\ reader = "copy"
    /\ reader' = "advance"
    /\ event' = event_queue[queue_head]
    /\ UNCHANGED <<interrupts_on, ring, curr_rflags, loaded_count>>

AdvanceHead ==
    /\ reader = "advance"
    /\ reader' = "load"
    /\ queue_head' = next_slot(queue_head)
    /\ UNCHANGED <<interrupts_on, event_queue, queue_tail, queue_count,
                   curr_rflags, loaded_count, event>>

LoadCount ==
    /\ reader = "load"
    /\ reader' = "store"
    /\ loaded_count' = queue_count
    /\ UNCHANGED <<interrupts_on, ring, curr_rflags, event>>

StoreCount ==
    /\ reader = "store"
    /\ reader' = "restore"
    /\ queue_count' = loaded_count - 1
    /\ UNCHANGED <<interrupts_on, event_queue, queue_head, queue_tail,
                   curr_rflags, loaded_count, event>>

\* restore_rflags and the return, of TRUE or of FALSE.
RestoreFlags(step) ==
    /\ reader = step
    /\ reader' = "idle"
    /\ interrupts_on' = curr_rflags
    /\ UNCHANGED <<ring, curr_rflags, loaded_count, event>>

ReturnTrue == RestoreFlags("restore")

\* Faulty variant of ReturnFalse: returns without restore_rflags.
ReturnFalseFlagsOff ==
    /\ reader = "restore_empty"
    /\ reader' = "idle"
    /\ UNCHANGED <<interrupts_on, ring, curr_rflags, loaded_count, event>>

ReturnFalse == RestoreFlags("restore_empty")

ReadSteps ==
    \/ DisableInterrupts \/ CheckCount \/ CopyEvent \/ AdvanceHead
    \/ LoadCount \/ StoreCount \/ ReturnTrue \/ ReturnFalse

-----------------------------------------------------------------------------
(***************************************************************************)
(* The queue by itself: an interrupt with any event whenever interrupts    *)
(* are on, and a main loop that calls read_event for ever.                 *)
(***************************************************************************)

OnInit ==
    /\ interrupts_on = TRUE
    /\ QueueInit

Interrupt(e) ==
    /\ interrupts_on
    /\ push_event(e)
    /\ UNCHANGED <<interrupts_on, readerVars>>

QueueNext == (\E e \in Event : Interrupt(e)) \/ CallReadEvent \/ ReadSteps

QueueSpec == OnInit /\ [][QueueNext]_queueVars

-----------------------------------------------------------------------------
(***************************************************************************)
(* Properties.                                                             *)
(***************************************************************************)

\* Head and count as they will be when read_event is done with the event it
\* has copied.
head_after == IF reader = "advance" THEN next_slot(queue_head) ELSE queue_head
count_after ==
    IF reader \in {"advance", "load", "store"} THEN queue_count - 1 ELSE queue_count

\* The events that wait, oldest first.
waiting ==
    [k \in 1 .. count_after |->
        event_queue[(head_after + k - 1) % EVENT_QUEUE_SIZE]]

\* Wherever the reader is, the three indices of the ring agree, no count is
\* below zero or beyond the ring, and the decrement of the count never works
\* on a number that an interrupt has made stale; interrupts are off while
\* read_event works on the ring and on again once it has returned.
RingConsistent ==
    /\ queue_tail = (head_after + count_after) % EVENT_QUEUE_SIZE
    /\ reader \in {"copy", "advance", "load", "store"} => queue_count > 0
    /\ reader = "store" => loaded_count = queue_count
    /\ interrupts_on <=> reader \in {"idle", "cli"}

\* Interrupts and reader together are a bounded FIFO of events: nothing is
\* lost but what finds the ring full, nothing is read twice, nothing
\* overtakes, and the ring never shows a slot of an event long gone.
Fifo == INSTANCE EventFifo WITH Size <- EVENT_QUEUE_SIZE, read <- event

ImplementsEventFifo == Fifo!FifoSpec

=============================================================================
