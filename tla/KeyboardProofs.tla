--------------------------- MODULE KeyboardProofs ---------------------------
(***************************************************************************)
(* Proofs about the way of a key from the keyboard to the shell, for every *)
(* keyboard, every length of its wire and every size of the ring.  First   *)
(* the ring by itself (EventQueue): wherever an interrupt breaks into      *)
(* read_event it is never out of step, and it is a bounded FIFO.  Then     *)
(* KernelLoop: the order in which kernel_main starts the machine, and the  *)
(* main loop, read_event and the keyboard interrupt interleaved in every   *)
(* way the interrupt flag allows; the lemmas about the ring's steps are    *)
(* used there again.  Last KeyDecoding: however late the handler gets to a *)
(* byte, the decoder's state is the one the byte was meant for.            *)
(***************************************************************************)
EXTENDS KernelLoop, KeyDecoding, SequenceTheorems, TLAPS

(***************************************************************************)
(* The part of the invariant that is about the ring.  It says nothing of   *)
(* the interrupt flag, which others than read_event turn off and on too:   *)
(* the lemmas about it hold wherever push_event and read_event are steps.  *)
(***************************************************************************)
RingInv ==
    /\ QueueTypeOK
    /\ queue_tail = (head_after + count_after) % EVENT_QUEUE_SIZE
    /\ reader \in {"copy", "advance", "load", "store"} => queue_count > 0
    /\ reader = "store" => loaded_count = queue_count

(***************************************************************************)
(* The inductive invariant.  RingConsistent alone is not: that interrupts  *)
(* are on again after read_event depends on what the flag was at the call. *)
(***************************************************************************)
FlagRemembered == reader # "idle" => curr_rflags

QueueInv == RingInv /\ RingConsistent /\ FlagRemembered

-----------------------------------------------------------------------------
(***************************************************************************)
(* Arithmetic of the ring.                                                 *)
(***************************************************************************)

\* An index that ran beyond the end of the ring wraps at most once.
LEMMA Wraps ==
    ASSUME NEW x \in 0 .. (2 * EVENT_QUEUE_SIZE - 1)
    PROVE  x % EVENT_QUEUE_SIZE =
              IF x < EVENT_QUEUE_SIZE THEN x ELSE x - EVENT_QUEUE_SIZE
  <1> DEFINE N == EVENT_QUEUE_SIZE
             q == x \div N
             r == x % N
  <1>1. N \in Nat \ {0} /\ x \in Nat
    BY EventQueueAssumption
  <1>2. q \in Nat /\ r \in 0 .. (N - 1) /\ x = (N * q) + r
    BY <1>1
  <1> HIDE DEF q, r
  <1>3. q = 0 \/ q = 1 \/ q >= 2
    BY <1>2
  <1>4. q >= 2 => N * q >= 2 * N
    BY <1>1, <1>2
  <1>5. q = 0 \/ q = 1
    BY <1>1, <1>2, <1>3, <1>4
  <1>6. x % N = r
    BY DEF r
  <1>7. CASE q = 0
    BY <1>1, <1>2, <1>6, <1>7
  <1>8. CASE q = 1
    BY <1>1, <1>2, <1>6, <1>8
  <1> QED
    BY <1>5, <1>7, <1>8

\* The slot after a slot.
LEMMA NextSlot ==
    ASSUME NEW s \in Slot
    PROVE  /\ next_slot(s) \in Slot
           /\ next_slot(s) = IF s + 1 < EVENT_QUEUE_SIZE THEN s + 1 ELSE 0
  <1>1. s + 1 \in 0 .. (2 * EVENT_QUEUE_SIZE - 1)
    BY EventQueueAssumption DEF Slot
  <1> QED
    BY <1>1, Wraps, EventQueueAssumption DEF next_slot, Slot

\* Stepping along the ring: n slots from the slot after s are n + 1 slots
\* from s, and the slot after the nth slot from s is the next one.
LEMMA Stepping ==
    ASSUME NEW s \in Slot, NEW n \in 0 .. (EVENT_QUEUE_SIZE - 1)
    PROVE  /\ (s + n) % EVENT_QUEUE_SIZE \in Slot
           /\ (next_slot(s) + n) % EVENT_QUEUE_SIZE = (s + (n + 1)) % EVENT_QUEUE_SIZE
           /\ next_slot((s + n) % EVENT_QUEUE_SIZE) = (s + (n + 1)) % EVENT_QUEUE_SIZE
  <1>1. /\ s + n \in 0 .. (2 * EVENT_QUEUE_SIZE - 1)
        /\ s + (n + 1) \in 0 .. (2 * EVENT_QUEUE_SIZE - 1)
        /\ next_slot(s) + n \in 0 .. (2 * EVENT_QUEUE_SIZE - 1)
    BY NextSlot, EventQueueAssumption DEF Slot
  <1>2. \A x \in {s + n, s + (n + 1), next_slot(s) + n} :
           x % EVENT_QUEUE_SIZE =
              IF x < EVENT_QUEUE_SIZE THEN x ELSE x - EVENT_QUEUE_SIZE
    BY <1>1, Wraps
  <1>3. (s + n) % EVENT_QUEUE_SIZE \in Slot
    BY <1>1, <1>2, EventQueueAssumption DEF Slot
  <1>4. next_slot((s + n) % EVENT_QUEUE_SIZE) =
          IF ((s + n) % EVENT_QUEUE_SIZE) + 1 < EVENT_QUEUE_SIZE
          THEN ((s + n) % EVENT_QUEUE_SIZE) + 1 ELSE 0
    BY <1>3, NextSlot
  <1>5. (next_slot(s) + n) % EVENT_QUEUE_SIZE = (s + (n + 1)) % EVENT_QUEUE_SIZE
    BY <1>2, NextSlot, EventQueueAssumption DEF Slot
  <1>6. next_slot((s + n) % EVENT_QUEUE_SIZE) = (s + (n + 1)) % EVENT_QUEUE_SIZE
    BY <1>2, <1>4, EventQueueAssumption DEF Slot
  <1> QED
    BY <1>3, <1>5, <1>6

\* Fewer than a whole round apart, two slots are two.
LEMMA SlotsApart ==
    ASSUME NEW s \in Slot, NEW m \in 0 .. EVENT_QUEUE_SIZE, NEW n \in Nat,
           n < m, m - n < EVENT_QUEUE_SIZE
    PROVE  (s + n) % EVENT_QUEUE_SIZE # (s + m) % EVENT_QUEUE_SIZE
  <1>1. /\ s + n \in 0 .. (2 * EVENT_QUEUE_SIZE - 1)
        /\ s + m \in 0 .. (2 * EVENT_QUEUE_SIZE - 1)
    BY EventQueueAssumption DEF Slot
  <1> QED
    BY <1>1, Wraps, EventQueueAssumption DEF Slot

-----------------------------------------------------------------------------
(***************************************************************************)
(* The invariant.                                                          *)
(***************************************************************************)

\* What the invariant says of the sizes, in a form to cite.
LEMMA RingFacts ==
    ASSUME RingInv
    PROVE  /\ EVENT_QUEUE_SIZE \in Nat \ {0}
           /\ head_after \in Slot
           /\ count_after \in 0 .. EVENT_QUEUE_SIZE
           /\ queue_tail = (head_after + count_after) % EVENT_QUEUE_SIZE
           /\ queue_tail \in Slot
  BY NextSlot, EventQueueAssumption
  DEF RingInv, QueueTypeOK, head_after, count_after

\* An empty ring is in order.
LEMMA EmptyRing ==
    ASSUME QueueInit, interrupts_on \in BOOLEAN
    PROVE  RingInv
  <1> USE EventQueueAssumption DEF QueueInit
  <1>1. 0 \in Slot
    BY DEF Slot
  <1>2. QueueTypeOK
    <2>1. curr_rflags \in BOOLEAN /\ reader \in ReaderStep
      BY Zenon DEF ReaderStep
    <2>2. event_queue \in [Slot -> Event] /\ event \in Event
      OBVIOUS
    <2>3. queue_count \in 0 .. EVENT_QUEUE_SIZE /\ loaded_count \in 0 .. EVENT_QUEUE_SIZE
      OBVIOUS
    <2> QED
      BY <1>1, <2>1, <2>2, <2>3 DEF QueueTypeOK
  <1>3. head_after = 0 /\ count_after = 0
    BY DEF head_after, count_after
  <1>4. 0 \in 0 .. (2 * EVENT_QUEUE_SIZE - 1) /\ 0 + 0 = 0
    OBVIOUS
  <1>5. 0 % EVENT_QUEUE_SIZE = 0
    BY <1>4, Wraps
  <1> QED
    BY <1>2, <1>3, <1>4, <1>5 DEF RingInv

\* Outside of the critical section of read_event, push_event keeps the ring
\* in order.
LEMMA PushKeepsRing ==
    ASSUME RingInv, NEW e \in Event, push_event(e),
           reader \in {"idle", "cli"}, UNCHANGED <<interrupts_on, readerVars>>
    PROVE  RingInv'
  <1> USE DEF readerVars
  <1>1. head_after = queue_head /\ count_after = queue_count
    BY DEF head_after, count_after
  <1>2. CASE queue_count >= EVENT_QUEUE_SIZE
    BY <1>2 DEF push_event, RingInv, QueueTypeOK, head_after, count_after, next_slot
  <1>3. CASE ~ queue_count >= EVENT_QUEUE_SIZE
    <2>1. /\ queue_tail' = next_slot(queue_tail) /\ queue_count' = queue_count + 1
          /\ event_queue' = [event_queue EXCEPT ![queue_tail] = e]
          /\ queue_head' = queue_head
      BY <1>3 DEF push_event
    <2>2. queue_count \in 0 .. (EVENT_QUEUE_SIZE - 1)
      BY <1>3, EventQueueAssumption DEF RingInv, QueueTypeOK
    <2>3. next_slot(queue_tail) = (queue_head + (queue_count + 1)) % EVENT_QUEUE_SIZE
      BY <1>1, <2>2, Stepping DEF RingInv, QueueTypeOK
    <2>4. QueueTypeOK'
      BY <2>1, <2>2, NextSlot, EventQueueAssumption DEF RingInv, QueueTypeOK
    <2>5. head_after' = queue_head /\ count_after' = queue_count + 1
      BY <1>1, <2>1 DEF head_after, count_after
    <2> QED
      BY <2>1, <2>3, <2>4, <2>5 DEF RingInv
  <1> QED
    BY <1>2, <1>3

\* So does every step of read_event.
LEMMA ReaderKeepsRing ==
    ASSUME RingInv, CallReadEvent \/ ReadSteps
    PROVE  RingInv'
  <1> USE DEF RingInv, ring
  <1>1. CASE CallReadEvent
    BY <1>1 DEF CallReadEvent, QueueTypeOK, head_after, count_after, ReaderStep, next_slot
  <1>2. CASE DisableInterrupts
    BY <1>2 DEF DisableInterrupts, QueueTypeOK, head_after, count_after,
                ReaderStep, next_slot
  <1>3. CASE CheckCount
    BY <1>3, EventQueueAssumption
    DEF CheckCount, QueueTypeOK, head_after, count_after, ReaderStep, next_slot
  <1>4. CASE CopyEvent
    <2>1. QueueTypeOK'
      BY <1>4 DEF CopyEvent, QueueTypeOK, ReaderStep
    <2>2. /\ head_after' = next_slot(queue_head)
          /\ count_after' = queue_count - 1
          /\ head_after = queue_head /\ count_after = queue_count
      BY <1>4 DEF CopyEvent, head_after, count_after, next_slot
    <2>3. queue_count - 1 \in 0 .. (EVENT_QUEUE_SIZE - 1)
      BY <1>4, EventQueueAssumption DEF CopyEvent, QueueTypeOK
    <2>4. (next_slot(queue_head) + (queue_count - 1)) % EVENT_QUEUE_SIZE =
            (queue_head + ((queue_count - 1) + 1)) % EVENT_QUEUE_SIZE
      BY <2>3, Stepping DEF QueueTypeOK
    <2>5. (queue_count - 1) + 1 = queue_count
      BY EventQueueAssumption DEF QueueTypeOK
    <2>6. queue_tail = (next_slot(queue_head) + (queue_count - 1)) % EVENT_QUEUE_SIZE
      BY <2>2, <2>4, <2>5
    <2> QED
      BY <1>4, <2>1, <2>2, <2>6 DEF CopyEvent
  <1>5. CASE AdvanceHead
    <2>1. QueueTypeOK'
      BY <1>5, NextSlot DEF AdvanceHead, QueueTypeOK, ReaderStep
    <2>2. head_after' = head_after /\ count_after' = count_after
      BY <1>5 DEF AdvanceHead, head_after, count_after
    <2> QED
      BY <1>5, <2>1, <2>2 DEF AdvanceHead
  <1>6. CASE LoadCount
    BY <1>6 DEF LoadCount, QueueTypeOK, head_after, count_after, ReaderStep, next_slot
  <1>7. CASE StoreCount
    <2>1. QueueTypeOK'
      BY <1>7, EventQueueAssumption DEF StoreCount, QueueTypeOK, ReaderStep
    <2>2. head_after' = head_after /\ count_after' = count_after
      BY <1>7 DEF StoreCount, head_after, count_after
    <2> QED
      BY <1>7, <2>1, <2>2 DEF StoreCount
  <1>8. CASE ReturnTrue \/ ReturnFalse
    BY <1>8 DEF ReturnTrue, ReturnFalse, RestoreFlags, QueueTypeOK,
                head_after, count_after, ReaderStep, next_slot
  <1> QED
    BY <1>1, <1>2, <1>3, <1>4, <1>5, <1>6, <1>7, <1>8 DEF ReadSteps

\* An interrupt finds read_event outside of its critical section.
LEMMA InterruptKeepsInv ==
    ASSUME QueueInv, NEW e \in Event, Interrupt(e)
    PROVE  QueueInv'
  <1>1. RingInv'
    BY PushKeepsRing DEF QueueInv, RingConsistent, Interrupt
  <1> QED
    BY <1>1 DEF QueueInv, RingInv, RingConsistent, FlagRemembered, Interrupt, readerVars

\* read_event turns interrupts off before it touches the ring, and leaves
\* them as it found them.
LEMMA ReaderKeepsInv ==
    ASSUME QueueInv, CallReadEvent \/ ReadSteps
    PROVE  QueueInv'
  <1>1. RingInv'
    BY ReaderKeepsRing DEF QueueInv
  <1>2. (interrupts_on <=> reader \in {"idle", "cli"})' /\ FlagRemembered'
    BY DEF QueueInv, RingInv, QueueTypeOK, RingConsistent, FlagRemembered, ReadSteps,
           CallReadEvent, DisableInterrupts, CheckCount, CopyEvent, AdvanceHead,
           LoadCount, StoreCount, ReturnTrue, ReturnFalse, RestoreFlags
  <1> QED
    BY <1>1, <1>2 DEF QueueInv, RingInv, RingConsistent

(***************************************************************************)
(* The ring is well typed and consistent in every reachable state: an      *)
(* interrupt never finds read_event half way through its update of the     *)
(* ring, and interrupts are on again when it returns.                      *)
(***************************************************************************)
THEOREM QueueInvariant == QueueSpec => []QueueInv
  <1>1. OnInit => QueueInv
    BY EmptyRing DEF OnInit, QueueInit, QueueInv, RingInv, RingConsistent, FlagRemembered
  <1>2. QueueInv /\ [QueueNext]_queueVars => QueueInv'
    <2> SUFFICES ASSUME QueueInv, [QueueNext]_queueVars
                 PROVE  QueueInv'
      OBVIOUS
    <2>1. CASE UNCHANGED queueVars
      BY <2>1 DEF queueVars, ring, readerVars, QueueInv, RingInv, QueueTypeOK,
                  RingConsistent, FlagRemembered, head_after, count_after, next_slot
    <2> QED
      BY <2>1, InterruptKeepsInv, ReaderKeepsInv DEF QueueNext
  <1> QED
    BY <1>1, <1>2, PTL DEF QueueSpec

\* The type invariant: no index leaves the ring, no count exceeds it.
THEOREM QueueTypeCorrect == QueueSpec => []QueueTypeOK
  <1>1. QueueInv => QueueTypeOK
    BY DEF QueueInv, RingInv
  <1> QED
    BY <1>1, QueueInvariant, PTL

\* Head, tail and count agree, and the decrement is never stale.
THEOREM RingIsConsistent == QueueSpec => []RingConsistent
  <1>1. QueueInv => RingConsistent
    BY DEF QueueInv
  <1> QED
    BY <1>1, QueueInvariant, PTL

-----------------------------------------------------------------------------
(***************************************************************************)
(* The ring implements the bounded FIFO.                                   *)
(***************************************************************************)

\* The events that wait form a sequence of at most EVENT_QUEUE_SIZE events.
WaitingOK ==
    /\ waiting \in Seq(Event)
    /\ Len(waiting) = count_after
    /\ \A k \in 1 .. count_after :
          waiting[k] = event_queue[(head_after + (k - 1)) % EVENT_QUEUE_SIZE]

\* The invariant makes them one.
LEMMA WaitingFacts == RingInv => WaitingOK
  <1> SUFFICES ASSUME RingInv PROVE WaitingOK
    OBVIOUS
  <1>1. \A k \in 1 .. count_after :
           /\ (head_after + (k - 1)) % EVENT_QUEUE_SIZE \in Slot
           /\ head_after + k - 1 = head_after + (k - 1)
    <2> TAKE k \in 1 .. count_after
    <2>1. k \in Nat /\ k - 1 \in 0 .. (EVENT_QUEUE_SIZE - 1)
      BY RingFacts
    <2>2. (head_after + (k - 1)) % EVENT_QUEUE_SIZE \in Slot
      BY <2>1, RingFacts, Stepping
    <2>3. head_after + k - 1 = head_after + (k - 1)
      BY <2>1, RingFacts DEF Slot
    <2> QED
      BY <2>2, <2>3
  <1>2. waiting = [k \in 1 .. count_after |->
                     event_queue[(head_after + (k - 1)) % EVENT_QUEUE_SIZE]]
    BY <1>1 DEF waiting
  <1>3. \A k \in 1 .. count_after :
           event_queue[(head_after + (k - 1)) % EVENT_QUEUE_SIZE] \in Event
    BY <1>1 DEF RingInv, QueueTypeOK
  <1>4. waiting \in [1 .. count_after -> Event]
    BY <1>2, <1>3
  <1>5. count_after \in Nat
    BY RingFacts
  <1> QED
    BY <1>2, <1>4, <1>5 DEF WaitingOK

\* The same of the state after a step.
LEMMA WaitingFactsNext == RingInv' => WaitingOK'
  BY WaitingFacts, PTL

\* A step that moves neither the ring, as it will be when read_event is done,
\* nor the event last read is a stutter of the FIFO.
LEMMA SameWaiting ==
    ASSUME RingInv,
           UNCHANGED <<event_queue, head_after, count_after, event>>
    PROVE  UNCHANGED Fifo!fifoVars
  BY DEF waiting, Fifo!fifoVars

\* push_event puts its event at the end, or loses it if the ring is full.
LEMMA PushPutsOrLoses ==
    ASSUME RingInv, RingInv', NEW e \in Event, push_event(e),
           reader \in {"idle", "cli"}, UNCHANGED readerVars
    PROVE  Fifo!Put(e) \/ UNCHANGED Fifo!fifoVars
  <1>1. /\ head_after = queue_head /\ count_after = queue_count
        /\ head_after' = queue_head' /\ count_after' = queue_count'
        /\ event' = event
    BY DEF readerVars, head_after, count_after
  <1>2. CASE queue_count >= EVENT_QUEUE_SIZE
    <2>1. UNCHANGED <<event_queue, head_after, count_after, event>>
      BY <1>1, <1>2 DEF push_event
    <2> QED
      BY <2>1, SameWaiting
  <1>3. CASE ~ queue_count >= EVENT_QUEUE_SIZE
    <2>1. /\ event_queue' = [event_queue EXCEPT ![queue_tail] = e]
          /\ head_after' = head_after /\ count_after' = count_after + 1
      BY <1>1, <1>3 DEF push_event
    <2>2. count_after \in 0 .. (EVENT_QUEUE_SIZE - 1)
      BY <1>1, <1>3, RingFacts
    <2>3. \A k \in 1 .. count_after :
             (head_after + (k - 1)) % EVENT_QUEUE_SIZE # queue_tail
      <3> TAKE k \in 1 .. count_after
      <3>1. /\ k - 1 \in Nat /\ k - 1 < count_after
            /\ count_after - (k - 1) < EVENT_QUEUE_SIZE
            /\ count_after \in 0 .. EVENT_QUEUE_SIZE
        BY <2>2, RingFacts
      <3> QED
        BY <3>1, SlotsApart, RingFacts
    <2>4. Len(waiting) = count_after /\ waiting \in Seq(Event)
      BY WaitingFacts DEF WaitingOK
    <2>5. Len(waiting') = count_after + 1 /\ waiting' \in Seq(Event)
      BY <2>1, WaitingFactsNext DEF WaitingOK
    <2>6. \A k \in 1 .. (count_after + 1) :
             waiting'[k] = event_queue'[(head_after + (k - 1)) % EVENT_QUEUE_SIZE]
      BY <2>1, WaitingFactsNext DEF WaitingOK
    <2>7. \A k \in 1 .. count_after : waiting'[k] = waiting[k]
      <3> TAKE k \in 1 .. count_after
      <3>1. waiting[k] = event_queue[(head_after + (k - 1)) % EVENT_QUEUE_SIZE]
        BY WaitingFacts DEF WaitingOK
      <3>2. waiting'[k] = event_queue'[(head_after + (k - 1)) % EVENT_QUEUE_SIZE]
        BY <2>2, <2>6
      <3>3. (head_after + (k - 1)) % EVENT_QUEUE_SIZE \in Slot
        BY RingFacts, Stepping
      <3> QED
        BY <2>1, <2>3, <3>1, <3>2, <3>3 DEF RingInv, QueueTypeOK
    <2>8. waiting'[count_after + 1] = e
      <3>1. /\ count_after + 1 \in 1 .. (count_after + 1)
            /\ (count_after + 1) - 1 = count_after
        BY <2>2
      <3>2. waiting'[count_after + 1] =
              event_queue'[(head_after + count_after) % EVENT_QUEUE_SIZE]
        BY <2>6, <3>1
      <3> QED
        BY <2>1, <3>2, RingFacts DEF RingInv, QueueTypeOK
    <2>9. waiting' = Append(waiting, e)
      BY <2>2, <2>4, <2>5, <2>7, <2>8
    <2> QED
      BY <1>1, <2>2, <2>4, <2>9, RingFacts DEF Fifo!Put
  <1> QED
    BY <1>2, <1>3

\* The copy takes the oldest event out, long before the head and the count
\* have followed.
LEMMA CopyGets ==
    ASSUME RingInv, RingInv', CopyEvent
    PROVE  Fifo!Get
  <1>1. /\ head_after = queue_head /\ count_after = queue_count
        /\ head_after' = next_slot(queue_head) /\ count_after' = queue_count - 1
        /\ event' = event_queue[queue_head] /\ event_queue' = event_queue
        /\ queue_count \in 1 .. EVENT_QUEUE_SIZE /\ queue_head \in Slot
    BY EventQueueAssumption
    DEF CopyEvent, ring, RingInv, QueueTypeOK, head_after, count_after, next_slot
  <1>2. /\ waiting \in Seq(Event) /\ Len(waiting) = queue_count
        /\ \A k \in 1 .. queue_count :
              waiting[k] = event_queue[(queue_head + (k - 1)) % EVENT_QUEUE_SIZE]
    BY <1>1, WaitingFacts DEF WaitingOK
  <1>3. /\ waiting' \in Seq(Event) /\ Len(waiting') = queue_count - 1
        /\ \A k \in 1 .. (queue_count - 1) :
              waiting'[k] =
                 event_queue[(next_slot(queue_head) + (k - 1)) % EVENT_QUEUE_SIZE]
    BY <1>1, WaitingFactsNext DEF WaitingOK
  <1>4. event' = Head(waiting)
    <2>1. /\ queue_head + (1 - 1) = queue_head /\ 1 \in 1 .. queue_count
          /\ queue_head \in 0 .. (2 * EVENT_QUEUE_SIZE - 1)
      BY <1>1, EventQueueAssumption DEF Slot
    <2>2. queue_head % EVENT_QUEUE_SIZE = queue_head
      BY <1>1, <2>1, Wraps, EventQueueAssumption DEF Slot
    <2>3. waiting[1] = event_queue[queue_head]
      BY <1>2, <2>1, <2>2
    <2> QED
      BY <1>1, <1>2, <2>3
  <1>5. \A k \in 1 .. (queue_count - 1) : waiting'[k] = waiting[k + 1]
    <2> TAKE k \in 1 .. (queue_count - 1)
    <2>1. /\ k - 1 \in 0 .. (EVENT_QUEUE_SIZE - 1) /\ (k - 1) + 1 = (k + 1) - 1
          /\ k + 1 \in 1 .. queue_count
      BY <1>1, EventQueueAssumption
    <2>2. (next_slot(queue_head) + (k - 1)) % EVENT_QUEUE_SIZE =
             (queue_head + ((k - 1) + 1)) % EVENT_QUEUE_SIZE
      BY <1>1, <2>1, Stepping
    <2> QED
      BY <1>2, <1>3, <2>1, <2>2
  <1>6. waiting' = Tail(waiting)
    BY <1>1, <1>2, <1>3, <1>5
  <1> QED
    BY <1>1, <1>2, <1>4, <1>6 DEF Fifo!Get

\* Every other step of read_event is a stutter of the FIFO.
LEMMA ReaderGets ==
    ASSUME RingInv, RingInv', CallReadEvent \/ ReadSteps
    PROVE  Fifo!Get \/ UNCHANGED Fifo!fifoVars
  <1>1. CASE CopyEvent
    BY <1>1, CopyGets
  <1>2. CASE AdvanceHead
    BY <1>2, SameWaiting DEF AdvanceHead, head_after, count_after
  <1>3. CASE StoreCount
    BY <1>3, SameWaiting DEF StoreCount, RingInv, head_after, count_after
  <1>4. CASE \/ CallReadEvent \/ DisableInterrupts \/ CheckCount \/ LoadCount
             \/ ReturnTrue \/ ReturnFalse
    BY <1>4, SameWaiting
    DEF CallReadEvent, DisableInterrupts, CheckCount, LoadCount, ReturnTrue,
        ReturnFalse, RestoreFlags, ring, head_after, count_after, next_slot
  <1> QED
    BY <1>1, <1>2, <1>3, <1>4 DEF ReadSteps

\* An empty ring is an empty FIFO.
LEMMA EmptyFifo ==
    ASSUME QueueInit
    PROVE  Fifo!FifoInit
  <1>1. count_after = 0 /\ event \in Event
    BY EventQueueAssumption DEF QueueInit, count_after
  <1>2. waiting = <<>>
    BY <1>1 DEF waiting
  <1> QED
    BY <1>1, <1>2 DEF Fifo!FifoInit

(***************************************************************************)
(* Interrupts and read_event together are a bounded FIFO of events,        *)
(* whatever the size of the ring: the copy is the moment an event leaves,  *)
(* and no later step of read_event loses or repeats one.                   *)
(***************************************************************************)
THEOREM RingImplementsFifo == QueueSpec => ImplementsEventFifo
  <1>1. OnInit => Fifo!FifoInit
    BY EmptyFifo DEF OnInit
  <1>2. QueueInv /\ QueueInv' /\ [QueueNext]_queueVars => [Fifo!FifoNext]_(Fifo!fifoVars)
    <2> SUFFICES ASSUME QueueInv, QueueInv', [QueueNext]_queueVars
                 PROVE  Fifo!FifoNext \/ UNCHANGED Fifo!fifoVars
      BY DEF Fifo!fifoVars
    <2>1. CASE UNCHANGED queueVars
      BY <2>1, SameWaiting
      DEF queueVars, ring, readerVars, QueueInv, head_after, count_after, next_slot
    <2>2. CASE \E e \in Event : Interrupt(e)
      BY <2>2, PushPutsOrLoses DEF Interrupt, QueueInv, RingConsistent, Fifo!FifoNext
    <2>3. CASE CallReadEvent \/ ReadSteps
      BY <2>3, ReaderGets DEF QueueInv, Fifo!FifoNext
    <2> QED
      BY <2>1, <2>2, <2>3 DEF QueueNext
  <1> QED
    BY <1>1, <1>2, QueueInvariant, PTL DEF QueueSpec, ImplementsEventFifo, Fifo!FifoSpec

-----------------------------------------------------------------------------
(***************************************************************************)
(* KernelLoop.                                                             *)
(***************************************************************************)

(***************************************************************************)
(* The inductive invariant.                                                *)
(***************************************************************************)

\* What travels from the keyboard to the handler.
Sent == [byte : Byte, shifted : BOOLEAN]

DataInv ==
    /\ DecoderTypeOK
    /\ held \subseteq Keys
    /\ wire \in Seq(Sent) /\ Len(wire) <= WIRE_SIZE
    /\ output_buffer \in Seq(Sent) /\ Len(output_buffer) <= 1
    /\ line_ready \in BOOLEAN /\ late \in BOOLEAN /\ stale \in BOOLEAN

\* Until sti nothing can break into kernel_main, and the ring is empty.
BootInv ==
    /\ pc \in BootStep \cup LoopStep \cup {"panicked"}
    /\ pc \in BootStep =>
          /\ ~ interrupts_on /\ context = "main" /\ reader = "idle"
          /\ queue_head = 0 /\ queue_tail = 0 /\ queue_count = 0

\* In the main loop interrupts are off in two places only: inside read_event
\* and in the handler, which never runs inside read_event's critical section.
FlagInv ==
    /\ context \in {"main", "read", "eoi", "return"}
    /\ reader # "idle" => pc = "poll" /\ curr_rflags
    /\ context = "main" /\ pc \in LoopStep =>
          (interrupts_on <=> reader \in {"idle", "cli"})
    /\ context # "main" =>
          /\ ~ interrupts_on /\ pc # "halted" /\ reader \in {"idle", "cli"}

\* read_event's answer "no" holds until interrupts are on again.
DrainInv ==
    /\ reader = "restore_empty" => queue_count = 0
    /\ NoEventForgotten

\* What a chip expects after the first n writes of remap.
expected(chip, n) ==
    LET m == IF chip = "slave" THEN n - 1 ELSE n
    IN  IF m \in {1, 2} THEN "offset" ELSE IF m \in {3, 4} THEN "cascade"
        ELSE IF m \in {5, 6} THEN "mode" ELSE "mask"

Remapped == pc \notin {"idt", "remap"}

\* The states of a chip.
Chip(c) ==
    [offset : {FirmwareOffset[c], MASTER_OFFSET, SLAVE_OFFSET},
     masked : SUBSET Lines[c], requested : SUBSET Lines[c], in_service : SUBSET Lines[c],
     expects : {"offset", "cascade", "mode", "mask"}]

PicInv ==
    /\ DOMAIN pic = Chips
    /\ \A c \in Chips : pic[c] \in Chip(c) /\ pic[c].expects = expected(c, outbs)
    /\ outbs \in 0 .. 10
    /\ pc = "idt" => outbs = 0
    /\ pc = "remap" => outbs < 10
    /\ Remapped => outbs = 10
    /\ outbs >= 3 => pic["master"].offset = MASTER_OFFSET
    /\ outbs >= 9 /\ pc \in BootStep \ {"sti"} => pic["master"].masked = Lines.master
    /\ Remapped /\ pc # "keyboard" =>
          pic["master"].masked = Lines.master \ {keyboard_irq}
    /\ idt \in [Vector -> {"none", "default", "keyboard"}]
    /\ Remapped /\ pc # "keyboard" => idt[KEYBOARD_VECTOR] = "keyboard"

\* A request of the keyboard stands for a byte at port 0x60 that no handler
\* is about to read, and the handler's interrupt is in service until its EOI.
RequestInv ==
    /\ keyboard_irq \in pic["master"].requested => output_buffer # <<>> /\ context # "read"
    /\ context = "read" => output_buffer # <<>>
    /\ pic["master"].in_service = IF context \in {"read", "eoi"} THEN {keyboard_irq} ELSE {}

LoopInv ==
    /\ RingInv
    /\ DataInv
    /\ BootInv
    /\ FlagInv
    /\ DrainInv
    /\ PicInv
    /\ RequestInv

-----------------------------------------------------------------------------
(***************************************************************************)
(* The controllers and what the kernel writes to them.                     *)
(***************************************************************************)

LEMMA ChipsFacts ==
    /\ Chips = {"master", "slave"}
    /\ Lines["master"] = {0, 1, 2} /\ Lines["slave"] = {6}
    /\ FirmwareOffset["master"] = 8 /\ FirmwareOffset["slave"] = 112
  BY DEF Chips, Lines, FirmwareOffset, timer, keyboard_irq, cascade, disk

\* The ten writes of remap.
LEMMA RemapWrites ==
    /\ Len(remap) = 10
    /\ remap[1] = command("master", ICW1) /\ remap[2] = command("slave", ICW1)
    /\ remap[3] = data("master", MASTER_OFFSET) /\ remap[4] = data("slave", SLAVE_OFFSET)
    /\ remap[5] = data("master", 4) /\ remap[6] = data("slave", 2)
    /\ remap[7] = data("master", 1) /\ remap[8] = data("slave", 1)
    /\ remap[9] = data("master", Lines.master) /\ remap[10] = data("slave", Lines.slave)
  BY DEF remap, icws, mask_all

\* What a write does.
LEMMA CommandWrites ==
    ASSUME NEW p, NEW c
    PROVE  /\ outb(p, command(c, ICW1)) = [p EXCEPT ![c] = initialised(@)]
           /\ outb(p, command(c, PIC_EOI)) = [p EXCEPT ![c] = after_eoi(@)]
  BY DEF outb, command, ICW1, PIC_EOI

LEMMA DataWrites ==
    ASSUME NEW p, NEW c, NEW v
    PROVE  outb(p, data(c, v)) = [p EXCEPT ![c] = after_data(@, v)]
  BY DEF outb, data

LEMMA UnmaskWrites ==
    ASSUME NEW p, NEW line
    PROVE  unmask_irq(p, line) =
              [p EXCEPT !["master"] = after_data(@, p["master"].masked \ {line})]
  BY DEF unmask_irq, outb, data

\* The first word resets a chip, and the words after it go where the chip
\* expects them.
LEMMA ChipWords ==
    ASSUME NEW c \in Chips, NEW chip \in Chip(c), NEW v
    PROVE  /\ /\ initialised(chip) \in Chip(c)
              /\ initialised(chip).expects = "offset"
           /\ (chip.expects = "offset" /\ v \in {MASTER_OFFSET, SLAVE_OFFSET}) =>
                 /\ after_data(chip, v) \in Chip(c)
                 /\ after_data(chip, v).expects = "cascade"
                 /\ after_data(chip, v).offset = v
           /\ chip.expects = "cascade" =>
                 /\ after_data(chip, v) \in Chip(c)
                 /\ after_data(chip, v).expects = "mode"
                 /\ after_data(chip, v).offset = chip.offset
           /\ chip.expects = "mode" =>
                 /\ after_data(chip, v) \in Chip(c)
                 /\ after_data(chip, v).expects = "mask"
                 /\ after_data(chip, v).offset = chip.offset
           /\ (chip.expects = "mask" /\ v \in SUBSET Lines[c]) =>
                 /\ after_data(chip, v) \in Chip(c)
                 /\ after_data(chip, v).expects = "mask"
                 /\ after_data(chip, v).offset = chip.offset
                 /\ after_data(chip, v).masked = v
           /\ initialised(chip).requested = {} /\ initialised(chip).in_service = {}
           /\ after_data(chip, v).requested = chip.requested
           /\ after_data(chip, v).in_service = chip.in_service
  BY DEF Chip, initialised, after_data


\* A write of remap brings the chip it goes to one step on.
LEMMA RemapKeepsPic ==
    ASSUME PicInv, PicRemap
    PROVE  /\ PicInv'
           /\ pic'["master"].requested \subseteq pic["master"].requested
           /\ pic'["master"].in_service \subseteq pic["master"].in_service
  <1>1. /\ pc = "remap" /\ outbs \in 0 .. 9 /\ outbs' = outbs + 1
        /\ pc' = IF outbs < 9 THEN "remap" ELSE "keyboard"
        /\ pic' = outb(pic, remap[outbs + 1]) /\ idt' = idt
    BY RemapWrites DEF PicRemap, PicInv, goto
  <1>2. /\ DOMAIN pic = {"master", "slave"}
        /\ pic["master"] \in Chip("master") /\ pic["slave"] \in Chip("slave")
        /\ pic["master"].expects = expected("master", outbs)
        /\ pic["slave"].expects = expected("slave", outbs)
        /\ outbs >= 3 => pic["master"].offset = MASTER_OFFSET
        /\ outbs >= 9 => pic["master"].masked = Lines["master"]
        /\ idt \in [Vector -> {"none", "default", "keyboard"}]
    BY <1>1, ChipsFacts DEF PicInv, BootStep
  <1>3. SUFFICES /\ DOMAIN pic' = {"master", "slave"}
                 /\ pic'["master"] \in Chip("master") /\ pic'["slave"] \in Chip("slave")
                 /\ pic'["master"].expects = expected("master", outbs + 1)
                 /\ pic'["slave"].expects = expected("slave", outbs + 1)
                 /\ outbs + 1 >= 3 => pic'["master"].offset = MASTER_OFFSET
                 /\ pic'["master"].requested \subseteq pic["master"].requested
                 /\ pic'["master"].in_service \subseteq pic["master"].in_service
                 /\ outbs + 1 >= 9 => pic'["master"].masked = Lines["master"]
    <2>1. outbs' \in 1 .. 10
      BY <1>1
    <2>2. \A c \in Chips : pic'[c] \in Chip(c) /\ pic'[c].expects = expected(c, outbs')
      BY <1>1, <1>3, ChipsFacts
    <2>3. PicInv'
      BY <1>1, <1>2, <1>3, <2>1, <2>2, ChipsFacts DEF PicInv, Remapped, BootStep
    <2> QED
      BY <1>3, <2>3
  <1>4. CASE outbs = 0
    <2>1. pic' = [pic EXCEPT !["master"] = initialised(@)]
      <3>1. remap[outbs + 1] = command("master", ICW1)
        BY <1>4, RemapWrites
      <3> QED
        BY <1>1, <3>1, CommandWrites
    <2>2. /\ pic'["master"] = initialised(pic["master"])
          /\ pic'["slave"] = pic["slave"] /\ DOMAIN pic' = DOMAIN pic
      BY <1>2, <2>1
    <2> QED
      BY <1>2, <1>4, <2>2, ChipWords, ChipsFacts DEF expected
  <1>5. CASE outbs = 1
    <2>1. pic' = [pic EXCEPT !["slave"] = initialised(@)]
      <3>1. remap[outbs + 1] = command("slave", ICW1)
        BY <1>5, RemapWrites
      <3> QED
        BY <1>1, <3>1, CommandWrites
    <2>2. /\ pic'["slave"] = initialised(pic["slave"])
          /\ pic'["master"] = pic["master"] /\ DOMAIN pic' = DOMAIN pic
      BY <1>2, <2>1
    <2> QED
      BY <1>2, <1>5, <2>2, ChipWords, ChipsFacts DEF expected
  <1>6. CASE outbs = 2
    <2>1. pic' = [pic EXCEPT !["master"] = after_data(@, MASTER_OFFSET)]
      <3>1. remap[outbs + 1] = data("master", MASTER_OFFSET)
        BY <1>6, RemapWrites
      <3> QED
        BY <1>1, <3>1, DataWrites
    <2>2. /\ pic'["master"] = after_data(pic["master"], MASTER_OFFSET)
          /\ pic'["slave"] = pic["slave"] /\ DOMAIN pic' = DOMAIN pic
      BY <1>2, <2>1
    <2> QED
      BY <1>2, <1>6, <2>2, ChipWords, ChipsFacts DEF expected
  <1>7. CASE outbs = 3
    <2>1. pic' = [pic EXCEPT !["slave"] = after_data(@, SLAVE_OFFSET)]
      <3>1. remap[outbs + 1] = data("slave", SLAVE_OFFSET)
        BY <1>7, RemapWrites
      <3> QED
        BY <1>1, <3>1, DataWrites
    <2>2. /\ pic'["slave"] = after_data(pic["slave"], SLAVE_OFFSET)
          /\ pic'["master"] = pic["master"] /\ DOMAIN pic' = DOMAIN pic
      BY <1>2, <2>1
    <2> QED
      BY <1>2, <1>7, <2>2, ChipWords, ChipsFacts DEF expected
  <1>8. CASE outbs = 4
    <2>1. pic' = [pic EXCEPT !["master"] = after_data(@, 4)]
      <3>1. remap[outbs + 1] = data("master", 4)
        BY <1>8, RemapWrites
      <3> QED
        BY <1>1, <3>1, DataWrites
    <2>2. /\ pic'["master"] = after_data(pic["master"], 4)
          /\ pic'["slave"] = pic["slave"] /\ DOMAIN pic' = DOMAIN pic
      BY <1>2, <2>1
    <2> QED
      BY <1>2, <1>8, <2>2, ChipWords, ChipsFacts DEF expected
  <1>9. CASE outbs = 5
    <2>1. pic' = [pic EXCEPT !["slave"] = after_data(@, 2)]
      <3>1. remap[outbs + 1] = data("slave", 2)
        BY <1>9, RemapWrites
      <3> QED
        BY <1>1, <3>1, DataWrites
    <2>2. /\ pic'["slave"] = after_data(pic["slave"], 2)
          /\ pic'["master"] = pic["master"] /\ DOMAIN pic' = DOMAIN pic
      BY <1>2, <2>1
    <2> QED
      BY <1>2, <1>9, <2>2, ChipWords, ChipsFacts DEF expected
  <1>10. CASE outbs = 6
    <2>1. pic' = [pic EXCEPT !["master"] = after_data(@, 1)]
      <3>1. remap[outbs + 1] = data("master", 1)
        BY <1>10, RemapWrites
      <3> QED
        BY <1>1, <3>1, DataWrites
    <2>2. /\ pic'["master"] = after_data(pic["master"], 1)
          /\ pic'["slave"] = pic["slave"] /\ DOMAIN pic' = DOMAIN pic
      BY <1>2, <2>1
    <2> QED
      BY <1>2, <1>10, <2>2, ChipWords, ChipsFacts DEF expected
  <1>11. CASE outbs = 7
    <2>1. pic' = [pic EXCEPT !["slave"] = after_data(@, 1)]
      <3>1. remap[outbs + 1] = data("slave", 1)
        BY <1>11, RemapWrites
      <3> QED
        BY <1>1, <3>1, DataWrites
    <2>2. /\ pic'["slave"] = after_data(pic["slave"], 1)
          /\ pic'["master"] = pic["master"] /\ DOMAIN pic' = DOMAIN pic
      BY <1>2, <2>1
    <2> QED
      BY <1>2, <1>11, <2>2, ChipWords, ChipsFacts DEF expected
  <1>12. CASE outbs = 8
    <2>1. pic' = [pic EXCEPT !["master"] = after_data(@, Lines.master)]
      <3>1. remap[outbs + 1] = data("master", Lines.master)
        BY <1>12, RemapWrites
      <3> QED
        BY <1>1, <3>1, DataWrites
    <2>2. /\ pic'["master"] = after_data(pic["master"], Lines.master)
          /\ pic'["slave"] = pic["slave"] /\ DOMAIN pic' = DOMAIN pic
      BY <1>2, <2>1
    <2> QED
      BY <1>2, <1>12, <2>2, ChipWords, ChipsFacts DEF expected
  <1>13. CASE outbs = 9
    <2>1. pic' = [pic EXCEPT !["slave"] = after_data(@, Lines.slave)]
      <3>1. remap[outbs + 1] = data("slave", Lines.slave)
        BY <1>13, RemapWrites
      <3> QED
        BY <1>1, <3>1, DataWrites
    <2>2. /\ pic'["slave"] = after_data(pic["slave"], Lines.slave)
          /\ pic'["master"] = pic["master"] /\ DOMAIN pic' = DOMAIN pic
      BY <1>2, <2>1
    <2> QED
      BY <1>2, <1>13, <2>2, ChipWords, ChipsFacts DEF expected
  <1> QED
    BY <1>1, <1>4, <1>5, <1>6, <1>7, <1>8, <1>9, <1>10, <1>11, <1>12, <1>13

-----------------------------------------------------------------------------
(***************************************************************************)
(* What a step that leaves some variables alone keeps.                     *)
(***************************************************************************)

LEMMA RingFrame ==
    ASSUME RingInv, UNCHANGED <<ring, readerVars>>, interrupts_on' \in BOOLEAN
    PROVE  RingInv'
  BY DEF RingInv, QueueTypeOK, ring, readerVars, head_after, count_after, next_slot

LEMMA DataFrame ==
    ASSUME DataInv, UNCHANGED <<decoder, keyboard, output_buffer>>,
           line_ready' \in BOOLEAN, late' \in BOOLEAN, stale' \in BOOLEAN
    PROVE  DataInv'
  BY DEF DataInv, DecoderTypeOK, decoder, keyboard

LEMMA MachineFrame ==
    ASSUME PicInv, UNCHANGED <<idt, pic, outbs>>,
           pc \notin BootStep, pc' \notin BootStep
    PROVE  PicInv'
  BY DEF PicInv, Remapped, BootStep

\* A request or its service changes one chip, and nothing that the kernel
\* programmed.
LEMMA MasterFrame ==
    ASSUME PicInv, UNCHANGED <<idt, outbs>>,
           pc' = pc \/ (pc \notin BootStep /\ pc' \notin BootStep),
           DOMAIN pic' = Chips, pic'["slave"] = pic["slave"],
           pic'["master"] \in Chip("master"),
           pic'["master"].masked = pic["master"].masked,
           pic'["master"].offset = pic["master"].offset,
           pic'["master"].expects = pic["master"].expects
    PROVE  PicInv'
  <1>1. idt' = idt /\ outbs' = outbs
    OBVIOUS
  <1>2. \A c \in Chips : pic'[c] \in Chip(c) /\ pic'[c].expects = expected(c, outbs')
    BY <1>1, ChipsFacts DEF PicInv
  <1> QED
    BY <1>1, <1>2 DEF PicInv, Remapped, BootStep

LEMMA RequestFrame ==
    ASSUME RequestInv, UNCHANGED <<pic, output_buffer, context>>
    PROVE  RequestInv'
  BY DEF RequestInv

-----------------------------------------------------------------------------
(***************************************************************************)
(* The steps of boot.                                                      *)
(***************************************************************************)

LEMMA KeyboardVectorOK == KEYBOARD_VECTOR \in Vector
  BY DEF KEYBOARD_VECTOR, Vector, Lines, MASTER_OFFSET, keyboard_irq

LEMMA IdtKeepsInv ==
    ASSUME LoopInv, IdtInitialize
    PROVE  LoopInv'
  <1> USE DEF LoopInv, IdtInitialize, goto, queueVars
  <1>1. RingInv' /\ DataInv' /\ RequestInv'
    BY RingFrame, DataFrame, RequestFrame DEF RingInv, QueueTypeOK, DataInv
  <1>2. PicInv'
    BY DEF PicInv, Remapped, BootStep
  <1> QED
    BY <1>1, <1>2
    DEF BootInv, FlagInv, DrainInv, NoEventForgotten, BootStep, LoopStep, AfterDrain,
        ring, readerVars

LEMMA RemapKeepsInv ==
    ASSUME LoopInv, PicRemap
    PROVE  LoopInv'
  <1> USE DEF LoopInv, PicRemap, goto, queueVars
  <1>1. /\ context = "main" /\ context' = "main" /\ pc = "remap"
        /\ pc' \in {"remap", "keyboard"} /\ UNCHANGED queueVars
        /\ UNCHANGED <<decoder, keyboard, output_buffer, line_ready, late>>
        /\ stale' \in BOOLEAN
    BY DEF DataInv
  <1>2. RingInv' /\ DataInv'
    BY <1>1, RingFrame, DataFrame DEF RingInv, QueueTypeOK, DataInv
  <1>3. PicInv' /\ RequestInv'
    BY <1>1, RemapKeepsPic DEF RequestInv
  <1> QED
    BY <1>1, <1>2, <1>3
    DEF BootInv, FlagInv, DrainInv, NoEventForgotten, BootStep, LoopStep, AfterDrain,
        ring, readerVars

LEMMA KeyboardKeepsInv ==
    ASSUME LoopInv, KeyboardInitialize
    PROVE  LoopInv'
  <1> USE DEF LoopInv, KeyboardInitialize, goto
  <1>1. /\ context = "main" /\ context' = "main" /\ pc = "keyboard" /\ pc' = "sti"
        /\ UNCHANGED <<interrupts_on, ring, readerVars>>
        /\ UNCHANGED <<keyboard, outbs, output_buffer, line_ready, late, stale>>
    BY DEF BootInv, BootStep, ring
  <1>2. RingInv'
    BY <1>1, RingFrame DEF RingInv, QueueTypeOK
  <1>3. DataInv'
    BY <1>1 DEF DataInv, DecoderTypeOK, decoder, keyboard
  <1>4. /\ pic["master"] \in Chip("master") /\ pic["slave"] \in Chip("slave")
        /\ pic["master"].expects = "mask" /\ outbs = 10
        /\ pic["master"].offset = MASTER_OFFSET
        /\ pic["master"].masked = Lines["master"] /\ DOMAIN pic = Chips
    BY <1>1, ChipsFacts DEF PicInv, Remapped, expected, BootStep
  <1>5. pic' = [pic EXCEPT !["master"] = after_data(@, Lines["master"] \ {keyboard_irq})]
    BY <1>4, UnmaskWrites
  <1>6. /\ pic'["master"] = after_data(pic["master"], Lines["master"] \ {keyboard_irq})
        /\ pic'["slave"] = pic["slave"] /\ DOMAIN pic' = Chips
    BY <1>4, <1>5, ChipsFacts
  <1>7. /\ pic'["master"] \in Chip("master") /\ pic'["master"].expects = "mask"
        /\ pic'["master"].offset = MASTER_OFFSET
        /\ pic'["master"].masked = Lines["master"] \ {keyboard_irq}
        /\ pic'["master"].requested = pic["master"].requested
        /\ pic'["master"].in_service = pic["master"].in_service
    BY <1>4, <1>6, ChipWords, ChipsFacts
  <1>8. \A c \in Chips : pic'[c] \in Chip(c) /\ pic'[c].expects = expected(c, 10)
    BY <1>1, <1>4, <1>6, <1>7, ChipsFacts DEF PicInv, expected
  <1>9. /\ idt' \in [Vector -> {"none", "default", "keyboard"}]
        /\ idt'[KEYBOARD_VECTOR] = "keyboard"
    BY KeyboardVectorOK DEF PicInv
  <1>10. PicInv'
    BY <1>1, <1>4, <1>6, <1>7, <1>8, <1>9 DEF PicInv, Remapped, BootStep
  <1>11. RequestInv'
    BY <1>1, <1>7 DEF RequestInv
  <1> QED
    BY <1>1, <1>2, <1>3, <1>10, <1>11
    DEF BootInv, FlagInv, DrainInv, NoEventForgotten, BootStep, LoopStep, AfterDrain,
        ring, readerVars

LEMMA StiKeepsInv ==
    ASSUME LoopInv, EnableInterrupts
    PROVE  LoopInv'
  <1> USE DEF LoopInv, EnableInterrupts, goto, machine
  <1>1. /\ context = "main" /\ context' = "main" /\ pc = "sti" /\ pc' = "poll"
        /\ interrupts_on' /\ UNCHANGED <<ring, readerVars>>
        /\ UNCHANGED <<decoder, keyboard, machine, line_ready, late, stale>>
    OBVIOUS
  <1>2. RingInv' /\ DataInv' /\ RequestInv'
    BY <1>1, RingFrame, DataFrame, RequestFrame DEF DataInv
  <1>3. PicInv'
    BY <1>1 DEF PicInv, Remapped, BootStep
  <1> QED
    BY <1>1, <1>2, <1>3
    DEF BootInv, FlagInv, DrainInv, NoEventForgotten, BootStep, LoopStep, AfterDrain,
        ring, readerVars


-----------------------------------------------------------------------------
(***************************************************************************)
(* The steps of the main loop.                                             *)
(***************************************************************************)

\* read_event turns interrupts off before it looks at the ring and on again
\* when it is done, so that the handler never sees the ring half changed.
LEMMA ReadKeepsInv ==
    ASSUME LoopInv,
           CallRead \/ InsideRead \/ ReadEventReturnsTrue \/ ReadEventReturnsFalse
    PROVE  LoopInv'
  <1> USE DEF LoopInv
  <1> DEFINE Inside == \/ DisableInterrupts \/ CheckCount \/ CopyEvent
                       \/ AdvanceHead \/ LoadCount \/ StoreCount
  <1>1. /\ context = "main" /\ context' = "main" /\ pc = "poll"
        /\ \/ CallReadEvent /\ pc' = "poll" /\ late' = late
           \/ Inside /\ pc' = "poll" /\ late' = late
           \/ ReturnTrue /\ pc' = "handle" /\ late' = late
           \/ ReturnFalse /\ pc' = "line" /\ late' = FALSE
        /\ UNCHANGED <<decoder, keyboard, machine, line_ready, stale>>
    BY DEF CallRead, InsideRead, ReadEventReturnsTrue, ReadEventReturnsFalse, goto
  <1>2. RingInv'
    BY <1>1, ReaderKeepsRing DEF ReadSteps
  <1>3. late' \in BOOLEAN
    BY <1>1 DEF DataInv
  <1>4. DataInv' /\ RequestInv'
    BY <1>1, <1>3, DataFrame, RequestFrame DEF machine, DataInv
  <1>5. PicInv'
    BY <1>1, MachineFrame DEF machine, BootStep
  <1>6. BootInv'
    BY <1>1 DEF BootInv, BootStep, LoopStep
  <1>7. /\ interrupts_on <=> reader \in {"idle", "cli"}
        /\ reader # "idle" => curr_rflags
        /\ interrupts_on \in BOOLEAN /\ curr_rflags \in BOOLEAN
        /\ reader = "restore_empty" => queue_count = 0
    BY <1>1 DEF FlagInv, DrainInv, LoopStep, RingInv, QueueTypeOK
  <1>8. /\ interrupts_on' <=> reader' \in {"idle", "cli"}
        /\ reader' # "idle" => curr_rflags' /\ pc' = "poll"
        /\ reader' = "restore_empty" => queue_count' = 0
        /\ pc' = "line" => queue_count' = 0
    <2>1. CASE CallReadEvent /\ pc' = "poll"
      BY <1>7, <2>1 DEF CallReadEvent
    <2>2. CASE Inside /\ pc' = "poll"
      BY <1>7, <2>2 DEF DisableInterrupts, CheckCount, CopyEvent, AdvanceHead,
                        LoadCount, StoreCount, ring
    <2>3. CASE ReturnTrue /\ pc' = "handle"
      BY <1>7, <2>3 DEF ReturnTrue, RestoreFlags
    <2>4. CASE ReturnFalse /\ pc' = "line"
      BY <1>7, <2>4 DEF ReturnFalse, RestoreFlags, ring
    <2> QED
      BY <1>1, <2>1, <2>2, <2>3, <2>4
  <1>9. FlagInv' /\ DrainInv'
    BY <1>1, <1>8 DEF FlagInv, DrainInv, NoEventForgotten, LoopStep, AfterDrain
  <1> QED
    BY <1>2, <1>4, <1>5, <1>6, <1>9

\* The rest of the loop leaves the ring to read_event and the handler.
LEMMA LoopKeepsInv ==
    ASSUME LoopInv,
           handle_key_event \/ ReadLine \/ ExecuteCommand \/ PanicStops \/ Halt
    PROVE  LoopInv'
  <1> USE DEF LoopInv
  <1>1. /\ context = "main" /\ context' = "main"
        /\ UNCHANGED <<ring, readerVars>>
        /\ UNCHANGED <<decoder, keyboard, machine, late, stale>>
        /\ \/ pc = "handle" /\ pc' = "poll" /\ UNCHANGED interrupts_on
           \/ pc = "line" /\ pc' \in {"execute", "hlt"} /\ UNCHANGED interrupts_on
           \/ pc = "execute" /\ pc' \in {"hlt", "panicked"} /\ UNCHANGED interrupts_on
           \/ pc = "hlt" /\ pc' = "halted" /\ UNCHANGED interrupts_on
           \/ pc = "panicked" /\ pc' = "panicked" /\ interrupts_on' = FALSE
    BY DEF handle_key_event, ReadLine, ExecuteCommand, PanicStops, Halt, goto, queueVars
  <1>2. line_ready' \in BOOLEAN
    BY DEF handle_key_event, ReadLine, ExecuteCommand, PanicStops, Halt, DataInv
  <1>3. RingInv'
    BY <1>1, RingFrame DEF RingInv, QueueTypeOK
  <1>4. DataInv' /\ RequestInv'
    BY <1>1, <1>2, DataFrame, RequestFrame DEF machine, DataInv
  <1>5. PicInv'
    BY <1>1, MachineFrame DEF machine, BootStep
  <1>6. BootInv' /\ FlagInv' /\ DrainInv'
    BY <1>1
    DEF BootInv, FlagInv, DrainInv, NoEventForgotten, BootStep, LoopStep, AfterDrain,
        ring, readerVars
  <1> QED
    BY <1>3, <1>4, <1>5, <1>6

-----------------------------------------------------------------------------
(***************************************************************************)
(* Interrupts.                                                             *)
(***************************************************************************)

\* Once interrupts are on, the one line the controllers let through is the
\* keyboard's, and its vector has the keyboard's handler.
LEMMA OnlyKeyboardEnabled ==
    ASSUME LoopInv, interrupts_on, NEW chip \in Chips, NEW line \in Lines[chip],
           enabled_line(pic, chip, line)
    PROVE  /\ chip = "master" /\ line = keyboard_irq
           /\ pic[chip].offset + line = KEYBOARD_VECTOR
           /\ idt[KEYBOARD_VECTOR] = "keyboard"
  <1>1. Remapped /\ pc # "keyboard" /\ outbs = 10
    BY DEF LoopInv, BootInv, PicInv, Remapped, BootStep
  <1>2. /\ pic["master"].masked = {0, 2} /\ pic["master"].offset = 32
        /\ idt[KEYBOARD_VECTOR] = "keyboard"
    BY <1>1, ChipsFacts DEF LoopInv, PicInv, MASTER_OFFSET, keyboard_irq
  <1>3. chip = "master"
    BY <1>2, ChipsFacts DEF enabled_line, cascade
  <1>4. line = 1
    BY <1>2, <1>3, ChipsFacts DEF enabled_line
  <1> QED
    BY <1>2, <1>3, <1>4 DEF KEYBOARD_VECTOR, keyboard_irq

\* The chip of an interrupt that is taken.
acknowledged(chip, irq) ==
    [chip EXCEPT !.requested = @ \ {irq}, !.in_service = @ \cup {irq}]

LEMMA AcknowledgedChip ==
    ASSUME NEW c \in Chips, NEW chip \in Chip(c), NEW irq \in Lines[c]
    PROVE  /\ acknowledged(chip, irq) \in Chip(c)
           /\ acknowledged(chip, irq).requested = chip.requested \ {irq}
           /\ acknowledged(chip, irq).in_service = chip.in_service \cup {irq}
           /\ acknowledged(chip, irq).masked = chip.masked
           /\ acknowledged(chip, irq).offset = chip.offset
           /\ acknowledged(chip, irq).expects = chip.expects
  <1> DEFINE mid == [chip EXCEPT !.requested = @ \ {irq}]
             last == [mid EXCEPT !.in_service = @ \cup {irq}]
  <1>1. /\ mid \in Chip(c) /\ mid.requested = chip.requested \ {irq}
        /\ mid.in_service = chip.in_service /\ mid.masked = chip.masked
        /\ mid.offset = chip.offset /\ mid.expects = chip.expects
    BY DEF Chip
  <1>2. acknowledged(chip, irq) = last
    BY DEF Chip, acknowledged
  <1> HIDE DEF mid
  <1>3. /\ last \in Chip(c) /\ last.requested = mid.requested
        /\ last.in_service = mid.in_service \cup {irq} /\ last.masked = mid.masked
        /\ last.offset = mid.offset /\ last.expects = mid.expects
    BY <1>1 DEF Chip
  <1> QED
    BY <1>1, <1>2, <1>3

\* The interrupt that is taken is the keyboard's, with a byte to read, and
\* read_event is not at work on the ring.
LEMMA TakeKeepsInv ==
    ASSUME LoopInv, NEW irq \in {timer, keyboard_irq}, TakeInterrupt(irq)
    PROVE  LoopInv'
  <1> USE DEF LoopInv
  <1>1. /\ interrupts_on /\ context = "main" /\ irq \in Lines["master"]
        /\ irq \in pic["master"].requested /\ enabled_line(pic, "master", irq)
    BY ChipsFacts DEF TakeInterrupt, Offered, timer, keyboard_irq
  <1>2. irq = keyboard_irq /\ idt[pic["master"].offset + irq] = "keyboard"
    BY <1>1, OnlyKeyboardEnabled, ChipsFacts
  <1>3. /\ interrupts_on' = FALSE /\ context' = "read"
        /\ pc' = IF pc = "halted" THEN "poll" ELSE pc
        /\ pic' = [pic EXCEPT !["master"].requested = @ \ {irq},
                              !["master"].in_service = @ \cup {irq}]
        /\ UNCHANGED <<ring, readerVars>>
        /\ UNCHANGED <<decoder, keyboard, idt, outbs, output_buffer>>
        /\ UNCHANGED <<line_ready, late, stale>>
    BY <1>2 DEF TakeInterrupt
  <1>4. pc \notin BootStep /\ reader \in {"idle", "cli"} /\ output_buffer # <<>>
    BY <1>1, <1>2 DEF BootInv, FlagInv, RequestInv, BootStep, LoopStep
  <1>5. RingInv' /\ DataInv'
    BY <1>3, RingFrame, DataFrame DEF DataInv
  <1>6. /\ pic["master"] \in Chip("master") /\ DOMAIN pic = {"master", "slave"}
        /\ pic["master"].in_service = {}
    BY <1>1, ChipsFacts DEF PicInv, RequestInv
  <1>7. /\ DOMAIN pic' = Chips /\ pic'["slave"] = pic["slave"]
        /\ pic'["master"] = acknowledged(pic["master"], irq)
    BY <1>3, <1>6, ChipsFacts DEF acknowledged
  <1>8. /\ pic'["master"] \in Chip("master")
        /\ pic'["master"].requested = pic["master"].requested \ {irq}
        /\ pic'["master"].in_service = {irq}
        /\ pic'["master"].masked = pic["master"].masked
        /\ pic'["master"].offset = pic["master"].offset
        /\ pic'["master"].expects = pic["master"].expects
    BY <1>1, <1>6, <1>7, AcknowledgedChip, ChipsFacts
  <1>9. PicInv'
    <2>1. pc' \notin BootStep
      BY <1>3, <1>4 DEF BootStep
    <2> QED
      BY <1>3, <1>4, <1>7, <1>8, <2>1, MasterFrame
  <1>10. RequestInv'
    BY <1>2, <1>3, <1>4, <1>8 DEF RequestInv
  <1>11. BootInv' /\ FlagInv' /\ DrainInv'
    BY <1>3, <1>4
    DEF BootInv, FlagInv, DrainInv, NoEventForgotten, BootStep, LoopStep, AfterDrain,
        ring, readerVars
  <1> QED
    BY <1>5, <1>9, <1>10, <1>11


\* The byte at port 0x60 makes an event that the ring can hold.
LEMMA EventOfByte ==
    ASSUME NEW raw \in Byte, NEW extended \in BOOLEAN, NEW shift_down \in BOOLEAN,
           NEW caps \in BOOLEAN
    PROVE  event_of(raw, extended, shift_down, caps) \in Event
  BY KernelLoopAssumption DEF EventsOfBytes

LEMMA ByteDecodes ==
    ASSUME DataInv, output_buffer # <<>>
    PROVE  decoded(Head(output_buffer).byte) \in Event
  <1>1. Head(output_buffer) \in Sent
    BY DEF DataInv
  <1>2. Head(output_buffer).byte \in Byte
    BY <1>1 DEF Sent
  <1>3. /\ pending_extended \in BOOLEAN /\ caps_lock_on \in BOOLEAN
        /\ (left_shift_down \/ right_shift_down) \in BOOLEAN
    BY DEF DataInv, DecoderTypeOK, decoder
  <1> QED
    BY <1>2, <1>3, EventOfByte, Zenon DEF decoded

\* The handler puts the event in the ring while read_event is out of it.
LEMMA HandleKeepsInv ==
    ASSUME LoopInv, HandleScancode
    PROVE  LoopInv'
  <1> USE DEF LoopInv
  <1> DEFINE raw == Head(output_buffer).byte
  <1>1. /\ context = "read" /\ context' = "eoi" /\ output_buffer' = <<>>
        /\ update_decoder(raw)
        /\ \/ UNCHANGED <<ring, late>>
           \/ push_event(decoded(raw)) /\ late' = (late \/ pc \in AfterDrain)
        /\ UNCHANGED <<interrupts_on, readerVars>>
        /\ UNCHANGED <<keyboard, pc, idt, pic, outbs, line_ready, stale>>
    BY DEF HandleScancode
  <1>2. /\ output_buffer # <<>> /\ ~ interrupts_on /\ pc \notin BootStep
        /\ reader \in {"idle", "cli"}
    BY <1>1 DEF RequestInv, FlagInv, BootInv
  <1>3. decoded(raw) \in Event
    BY <1>2, ByteDecodes
  <1> HIDE DEF raw
  <1>4. RingInv'
    <2>1. CASE UNCHANGED <<ring, late>>
      BY <1>1, <2>1, RingFrame DEF RingInv, QueueTypeOK
    <2>2. CASE push_event(decoded(raw))
      BY <1>1, <1>2, <1>3, <2>2, PushKeepsRing
    <2> QED
      BY <1>1, <2>1, <2>2
  <1>5. DecoderTypeOK'
    BY <1>1 DEF DataInv, DecoderTypeOK, decoder, update_decoder, is_release
  <1>6. late' \in BOOLEAN
    <2>1. CASE UNCHANGED <<ring, late>>
      BY <2>1 DEF DataInv
    <2>2. CASE late' = (late \/ pc \in AfterDrain)
      BY <2>2
    <2> QED
      BY <1>1, <2>1, <2>2
  <1>7. DataInv'
    BY <1>1, <1>5, <1>6 DEF DataInv, keyboard
  <1>8. PicInv' /\ RequestInv'
    BY <1>1, <1>2, MachineFrame DEF RequestInv
  <1>9. BootInv' /\ FlagInv'
    BY <1>1, <1>2 DEF BootInv, FlagInv, readerVars
  <1>10. DrainInv'
    <2>1. reader' # "restore_empty"
      BY <1>1, <1>2 DEF readerVars
    <2>2. pc' \in AfterDrain /\ queue_count' > 0 => late'
      <3>1. CASE UNCHANGED <<ring, late>>
        BY <1>1, <3>1 DEF DrainInv, NoEventForgotten, ring
      <3>2. CASE late' = (late \/ pc \in AfterDrain)
        BY <1>1, <3>2
      <3> QED
        BY <1>1, <3>1, <3>2
    <2> QED
      BY <2>1, <2>2 DEF DrainInv, NoEventForgotten
  <1> QED
    BY <1>4, <1>7, <1>8, <1>9, <1>10

\* The EOI ends the keyboard's service: there is no other.
LEMMA EoiKeepsInv ==
    ASSUME LoopInv, SendEoi
    PROVE  LoopInv'
  <1> USE DEF LoopInv
  <1>1. /\ context = "eoi" /\ context' = "return" /\ pic' = send_eoi(pic)
        /\ UNCHANGED queueVars /\ UNCHANGED <<decoder, keyboard, pc>>
        /\ UNCHANGED <<idt, outbs, output_buffer, line_ready, late, stale>>
    BY DEF SendEoi
  <1>2. ~ interrupts_on /\ pc \notin BootStep /\ reader \in {"idle", "cli"}
    BY <1>1 DEF FlagInv, BootInv
  <1>3. /\ pic["master"] \in Chip("master") /\ DOMAIN pic = {"master", "slave"}
        /\ pic["master"].in_service = {1}
    BY <1>1, ChipsFacts DEF PicInv, RequestInv, keyboard_irq
  <1>4. Min({1}) = 1
    BY DEF Min
  <1>5. after_eoi(pic["master"]) = [pic["master"] EXCEPT !.in_service = {}]
    <2>1. pic["master"].in_service \ {1} = {} /\ pic["master"].in_service # {}
      BY <1>3
    <2> QED
      BY <1>3, <1>4, <2>1 DEF after_eoi
  <1>6. /\ DOMAIN pic' = Chips /\ pic'["slave"] = pic["slave"]
        /\ pic'["master"] = [pic["master"] EXCEPT !.in_service = {}]
    <2>1. pic' = [pic EXCEPT !["master"] = after_eoi(@)]
      BY <1>1, CommandWrites DEF send_eoi
    <2> QED
      BY <1>3, <1>5, <2>1, ChipsFacts
  <1>7. /\ pic'["master"] \in Chip("master") /\ pic'["master"].in_service = {}
        /\ pic'["master"].requested = pic["master"].requested
        /\ pic'["master"].masked = pic["master"].masked
        /\ pic'["master"].offset = pic["master"].offset
        /\ pic'["master"].expects = pic["master"].expects
    BY <1>3, <1>6 DEF Chip
  <1>8. PicInv'
    BY <1>1, <1>6, <1>7, MasterFrame
  <1>9. RequestInv'
    BY <1>1, <1>7 DEF RequestInv
  <1>10. RingInv' /\ DataInv'
    BY <1>1, RingFrame, DataFrame DEF queueVars, RingInv, QueueTypeOK, DataInv
  <1>11. BootInv' /\ FlagInv' /\ DrainInv'
    BY <1>1, <1>2
    DEF BootInv, FlagInv, DrainInv, NoEventForgotten, queueVars, ring, readerVars
  <1> QED
    BY <1>8, <1>9, <1>10, <1>11

LEMMA ReturnKeepsInv ==
    ASSUME LoopInv, ReturnFromInterrupt
    PROVE  LoopInv'
  <1> USE DEF LoopInv
  <1>1. /\ context = "return" /\ context' = "main" /\ interrupts_on' = TRUE
        /\ UNCHANGED <<ring, readerVars>> /\ UNCHANGED <<decoder, keyboard, pc>>
        /\ UNCHANGED <<machine, line_ready, late, stale>>
    BY DEF ReturnFromInterrupt
  <1>2. pc \notin BootStep /\ reader \in {"idle", "cli"}
    BY <1>1 DEF FlagInv, BootInv
  <1>3. RingInv' /\ DataInv'
    BY <1>1, RingFrame, DataFrame DEF DataInv, machine
  <1>4. PicInv' /\ RequestInv'
    BY <1>1, <1>2, MachineFrame DEF machine, RequestInv
  <1>5. BootInv' /\ FlagInv' /\ DrainInv'
    BY <1>1, <1>2
    DEF BootInv, FlagInv, DrainInv, NoEventForgotten, ring, readerVars
  <1> QED
    BY <1>3, <1>4, <1>5

-----------------------------------------------------------------------------
(***************************************************************************)
(* The devices.                                                            *)
(***************************************************************************)

\* Whatever key goes down or up, the keyboard sends bytes.
LEMMA CodesAreBytes ==
    ASSUME NEW k \in Keys
    PROVE  make_code(k) \in Seq(Byte) /\ break_code(k) \in Seq(Byte)
  <1>1. /\ prefix \in Byte /\ k.code \in Byte /\ k.code + \h80 \in Byte
        /\ \h2A \in Byte /\ \hAA \in Byte
    <2>1. k.code \in Code /\ \h2A \in Code
      BY DEF Code, normal_keys
    <2>2. \A c \in Code : c \in Byte /\ c + \h80 \in Byte
      BY DEF Byte
    <2>3. \h2A + \h80 = \hAA
      OBVIOUS
    <2> QED
      BY <2>1, <2>2, <2>3 DEF Byte
  <1> HIDE DEF prefix, Byte
  <1> QED
    BY <1>1 DEF make_code, break_code

\* So the wire carries nothing else.
LEMMA SendKeepsWire ==
    ASSUME wire \in Seq(Sent), NEW bytes \in Seq(Byte), send(bytes)
    PROVE  wire' \in Seq(Sent) /\ Len(wire') <= WIRE_SIZE
  <1> DEFINE marked == [n \in DOMAIN bytes |-> [byte |-> bytes[n], shifted |-> shift_held]]
  <1>1. \A n \in 1 .. Len(bytes) : [byte |-> bytes[n], shifted |-> shift_held] \in Sent
    BY DEF Sent, shift_held
  <1>2. marked \in Seq(Sent) /\ Len(marked) = Len(bytes)
    BY <1>1
  <1> HIDE DEF marked
  <1>3. wire' = wire \o marked /\ Len(wire) + Len(bytes) <= WIRE_SIZE
    BY DEF send, marked
  <1> QED
    BY <1>2, <1>3, KeyDecoderAssumption

LEMMA TypeKeepsInv ==
    ASSUME LoopInv, TypeKey
    PROVE  LoopInv'
  <1> USE DEF LoopInv
  <1>1. UNCHANGED <<queueVars, decoder, loopVars>>
    BY DEF TypeKey
  <1>2. PICK k \in Keys : Press(k) \/ Release(k)
    BY DEF TypeKey, Type
  <1>3. held' \subseteq Keys /\ (send(make_code(k)) \/ send(break_code(k)))
    BY <1>2 DEF Press, Release, DataInv
  <1>4. wire' \in Seq(Sent) /\ Len(wire') <= WIRE_SIZE
    BY <1>3, CodesAreBytes, SendKeepsWire DEF DataInv
  <1>5. DataInv'
    BY <1>1, <1>3, <1>4 DEF DataInv, DecoderTypeOK, decoder, loopVars, machine
  <1> QED
    BY <1>1, <1>5
    DEF queueVars, ring, readerVars, loopVars, machine, RingInv, QueueTypeOK, head_after,
        count_after, next_slot, BootInv, FlagInv, DrainInv, NoEventForgotten, PicInv,
        Remapped, RequestInv

\* A device raises its line; that is all the controllers hear of it.
LEMMA RequestedChip ==
    ASSUME PicInv, NEW irq \in Lines["master"],
           pic' = [pic EXCEPT !["master"].requested = @ \cup {irq}],
           UNCHANGED <<idt, outbs, pc>>
    PROVE  /\ PicInv'
           /\ pic'["master"].requested = pic["master"].requested \cup {irq}
           /\ pic'["master"].in_service = pic["master"].in_service
  <1>1. pic["master"] \in Chip("master") /\ DOMAIN pic = {"master", "slave"}
    BY ChipsFacts DEF PicInv
  <1>2. /\ DOMAIN pic' = Chips /\ pic'["slave"] = pic["slave"]
        /\ pic'["master"] = [pic["master"] EXCEPT !.requested = @ \cup {irq}]
    BY <1>1, ChipsFacts
  <1>3. /\ pic'["master"] \in Chip("master")
        /\ pic'["master"].requested = pic["master"].requested \cup {irq}
        /\ pic'["master"].in_service = pic["master"].in_service
        /\ pic'["master"].masked = pic["master"].masked
        /\ pic'["master"].offset = pic["master"].offset
        /\ pic'["master"].expects = pic["master"].expects
    BY <1>1, <1>2 DEF Chip
  <1>4. PicInv'
    BY <1>2, <1>3, MasterFrame
  <1> QED
    BY <1>3, <1>4

LEMMA DeviceKeepsInv ==
    ASSUME LoopInv, ByteArrives \/ TimerTicks
    PROVE  LoopInv'
  <1> USE DEF LoopInv
  <1>1. /\ UNCHANGED queueVars /\ UNCHANGED <<decoder, held, pc, context>>
        /\ UNCHANGED <<idt, outbs, line_ready, late, stale>>
    BY DEF ByteArrives, TimerTicks, keyboard
  <1>2. RingInv' /\ BootInv' /\ FlagInv' /\ DrainInv'
    BY <1>1
    DEF queueVars, ring, readerVars, RingInv, QueueTypeOK, head_after, count_after,
        next_slot, BootInv, FlagInv, DrainInv, NoEventForgotten
  <1>3. CASE ByteArrives
    <2>1. /\ wire # <<>> /\ output_buffer = <<>>
          /\ output_buffer' = <<Head(wire)>> /\ wire' = Tail(wire)
          /\ pic' = [pic EXCEPT !["master"].requested = @ \cup {keyboard_irq}]
      BY <1>3 DEF ByteArrives
    <2>2. /\ Head(wire) \in Sent /\ wire' \in Seq(Sent) /\ Len(wire') <= WIRE_SIZE
      BY <2>1, KeyDecoderAssumption DEF DataInv
    <2>3. DataInv'
      BY <1>1, <2>1, <2>2 DEF DataInv, DecoderTypeOK, decoder
    <2>4. /\ PicInv'
          /\ pic'["master"].requested = pic["master"].requested \cup {keyboard_irq}
          /\ pic'["master"].in_service = pic["master"].in_service
      BY <1>1, <2>1, RequestedChip, ChipsFacts DEF keyboard_irq
    <2>5. RequestInv'
      BY <1>1, <2>1, <2>4 DEF RequestInv
    <2> QED
      BY <1>2, <2>3, <2>4, <2>5
  <1>4. CASE TimerTicks
    <2>1. /\ UNCHANGED <<wire, output_buffer>>
          /\ pic' = [pic EXCEPT !["master"].requested = @ \cup {timer}]
      BY <1>4 DEF TimerTicks, keyboard
    <2>2. DataInv'
      BY <1>1, <2>1 DEF DataInv, DecoderTypeOK, decoder
    <2>3. /\ PicInv'
          /\ pic'["master"].requested = pic["master"].requested \cup {timer}
          /\ pic'["master"].in_service = pic["master"].in_service
      BY <1>1, <2>1, RequestedChip, ChipsFacts DEF timer
    <2>4. RequestInv'
      BY <1>1, <2>1, <2>3 DEF RequestInv, timer, keyboard_irq
    <2> QED
      BY <1>2, <2>2, <2>3, <2>4
  <1> QED
    BY <1>3, <1>4


-----------------------------------------------------------------------------
(***************************************************************************)
(* The invariant holds in every reachable state.  What LoopSpec says of    *)
(* fairness plays no part.                                                 *)
(***************************************************************************)

LEMMA LoopInitInv == LoopInit => LoopInv
  <1> SUFFICES ASSUME LoopInit PROVE LoopInv
    OBVIOUS
  <1> USE DEF LoopInit
  <1>1. RingInv
    BY EmptyRing
  <1>2. DataInv
    <2>1. DecoderTypeOK
      BY DEF DecoderInit, DecoderTypeOK, decoder
    <2>2. <<>> \in Seq(Sent) /\ Len(<<>>) = 0
      OBVIOUS
    <2>3. /\ wire \in Seq(Sent) /\ Len(wire) <= WIRE_SIZE
          /\ output_buffer \in Seq(Sent) /\ Len(output_buffer) <= 1
      BY <2>2, KeyDecoderAssumption
    <2>4. line_ready \in BOOLEAN /\ late \in BOOLEAN /\ stale \in BOOLEAN
      OBVIOUS
    <2> QED
      BY <2>1, <2>3, <2>4 DEF DataInv
  <1>3. BootInv /\ FlagInv /\ DrainInv
    BY DEF QueueInit, BootInv, FlagInv, DrainInv, NoEventForgotten, BootStep, LoopStep,
           AfterDrain
  <1>4. /\ DOMAIN pic = Chips
        /\ \A c \in Chips :
              /\ pic[c] \in Chip(c) /\ pic[c].expects = "mask"
              /\ pic[c].requested = {} /\ pic[c].in_service = {}
    BY DEF FirmwareControllers, Chip
  <1>5. PicInv
    BY <1>4, ChipsFacts DEF PicInv, Remapped, expected
  <1>6. RequestInv
    BY <1>4, ChipsFacts DEF RequestInv
  <1> QED
    BY <1>1, <1>2, <1>3, <1>5, <1>6 DEF LoopInv

LEMMA LoopNextInv == LoopInv /\ [LoopNext]_vars => LoopInv'
  <1> SUFFICES ASSUME LoopInv, [LoopNext]_vars PROVE LoopInv'
    OBVIOUS
  <1>1. CASE Main
    BY <1>1, IdtKeepsInv, RemapKeepsInv, KeyboardKeepsInv, StiKeepsInv, ReadKeepsInv,
       LoopKeepsInv DEF Main
  <1>2. CASE \E irq \in {timer, keyboard_irq} : TakeInterrupt(irq)
    BY <1>2, TakeKeepsInv
  <1>3. CASE Handler
    BY <1>3, HandleKeepsInv, EoiKeepsInv, ReturnKeepsInv DEF Handler
  <1>4. CASE ByteArrives \/ TimerTicks
    BY <1>4, DeviceKeepsInv
  <1>5. CASE TypeKey
    BY <1>5, TypeKeepsInv
  <1>6. CASE UNCHANGED vars
    BY <1>6
    DEF vars, queueVars, ring, readerVars, decoder, keyboard, loopVars, machine, LoopInv,
        RingInv, QueueTypeOK, head_after, count_after, next_slot, DataInv, DecoderTypeOK,
        BootInv, FlagInv, DrainInv, NoEventForgotten, PicInv, Remapped, RequestInv
  <1> QED
    BY <1>1, <1>2, <1>3, <1>4, <1>5, <1>6 DEF LoopNext

\* From the boot on, and whatever instruction an interrupt comes in at, the
\* boot order, the interrupt flag, the controllers, the byte at port 0x60 and
\* the ring are in step with where kernel_main and the handler are.
THEOREM LoopInvariant == LoopSpec => []LoopInv
  <1>1. LoopSpec => LoopInit /\ [][LoopNext]_vars
    BY PTL DEF LoopSpec
  <1> QED
    BY <1>1, LoopInitInv, LoopNextInv, PTL

-----------------------------------------------------------------------------
(***************************************************************************)
(* What follows from it.                                                   *)
(***************************************************************************)

\* The type invariant of the loop, the ring and the controllers included: no
\* word that the kernel writes ends up in a register it is not meant for.
THEOREM LoopTypeCorrect == LoopSpec => []LoopTypeOK
  <1>1. LoopInv => LoopTypeOK
    <2> SUFFICES ASSUME LoopInv PROVE LoopTypeOK
      OBVIOUS
    <2> USE DEF LoopInv
    <2>1. ControllersOK(pic)
      BY DEF PicInv, ControllersOK, Chip
    <2>2. outbs \in 0 .. Len(remap)
      BY RemapWrites DEF PicInv
    <2>3. {line_ready, late, stale} \subseteq BOOLEAN
      BY DEF DataInv
    <2> QED
      BY <2>1, <2>2, <2>3
      DEF LoopTypeOK, RingInv, DataInv, BootInv, FlagInv, PicInv, Stopped
  <1> QED
    BY <1>1, LoopInvariant, PTL

\* No interrupt is ever taken through a vector without its handler, and once
\* interrupts are on no line of either controller could cause one.
THEOREM NoUnexpectedInterrupts == LoopSpec => []NoUnexpectedInterrupt
  <1>1. LoopInv => NoUnexpectedInterrupt
    <2> SUFFICES ASSUME LoopInv PROVE NoUnexpectedInterrupt
      OBVIOUS
    <2>1. pc # "trapped"
      BY DEF LoopInv, BootInv, BootStep, LoopStep
    <2> QED
      BY <2>1, OnlyKeyboardEnabled DEF NoUnexpectedInterrupt
  <1> QED
    BY <1>1, LoopInvariant, PTL

\* Wherever the loop may wait for an interrupt, it can be interrupted.
THEOREM InterruptsStayOn == LoopSpec => []InterruptsOnInLoop
  <1>1. LoopInv => InterruptsOnInLoop
    BY DEF LoopInv, FlagInv, InterruptsOnInLoop, InReadEvent
  <1> QED
    BY <1>1, LoopInvariant, PTL

\* An event that waits while the loop is on its way to hlt came in after
\* read_event found the ring empty.
THEOREM NoEventIsForgotten == LoopSpec => []NoEventForgotten
  <1>1. LoopInv => NoEventForgotten
    BY DEF LoopInv, DrainInv
  <1> QED
    BY <1>1, LoopInvariant, PTL

\* The handler never reads port 0x60 without a byte, and its interrupt is in
\* service exactly until the EOI.
THEOREM HandlerAlwaysHasByte == LoopSpec => []HandlerHasByte
  <1>1. LoopInv => HandlerHasByte
    BY DEF LoopInv, RequestInv, HandlerHasByte
  <1> QED
    BY <1>1, LoopInvariant, PTL

(***************************************************************************)
(* Boot, main loop and interrupts together are a bounded FIFO of events.   *)
(***************************************************************************)
THEOREM LoopImplementsFifo == LoopSpec => LoopImplementsEventFifo
  <1>1. LoopInit => Fifo!FifoInit
    BY EmptyFifo DEF LoopInit
  <1>2. LoopInv /\ LoopInv' /\ [LoopNext]_vars => [Fifo!FifoNext]_(Fifo!fifoVars)
    <2> SUFFICES ASSUME LoopInv, LoopInv', [LoopNext]_vars
                 PROVE  Fifo!FifoNext \/ UNCHANGED Fifo!fifoVars
      BY DEF Fifo!fifoVars
    <2>1. RingInv /\ RingInv'
      BY DEF LoopInv
    <2>2. UNCHANGED <<ring, readerVars>> => UNCHANGED Fifo!fifoVars
      BY <2>1, SameWaiting DEF ring, readerVars, head_after, count_after, next_slot
    <2>3. CASE CallRead \/ InsideRead \/ ReadEventReturnsTrue \/ ReadEventReturnsFalse
      <3>1. CallReadEvent \/ ReadSteps
        BY <2>3 DEF CallRead, InsideRead, ReadEventReturnsTrue, ReadEventReturnsFalse,
                    ReadSteps
      <3> QED
        BY <2>1, <3>1, ReaderGets DEF Fifo!FifoNext
    <2>4. CASE KeyboardInitialize
      <3>1. UNCHANGED <<ring, readerVars>>
        BY <2>4 DEF KeyboardInitialize, goto, ring, LoopInv, BootInv, BootStep
      <3> QED
        BY <2>2, <3>1
    <2>5. CASE HandleScancode
      <3>1. CASE push_event(decoded(Head(output_buffer).byte))
        <4>1. /\ reader \in {"idle", "cli"} /\ UNCHANGED readerVars
              /\ output_buffer # <<>>
          BY <2>5 DEF HandleScancode, LoopInv, FlagInv, RequestInv
        <4>2. decoded(Head(output_buffer).byte) \in Event
          BY <4>1, ByteDecodes DEF LoopInv
        <4> QED
          BY <2>1, <3>1, <4>1, <4>2, PushPutsOrLoses DEF Fifo!FifoNext
      <3>2. CASE UNCHANGED ring
        BY <2>2, <2>5, <3>2 DEF HandleScancode
      <3> QED
        BY <2>5, <3>1, <3>2 DEF HandleScancode
    <2>6. CASE \/ IdtInitialize \/ PicRemap \/ EnableInterrupts
               \/ handle_key_event \/ ReadLine \/ ExecuteCommand \/ PanicStops \/ Halt
      BY <2>2, <2>6
      DEF IdtInitialize, PicRemap, EnableInterrupts, handle_key_event, ReadLine,
          ExecuteCommand, PanicStops, Halt, queueVars
    <2>7. CASE \/ \E irq \in {timer, keyboard_irq} : TakeInterrupt(irq)
               \/ SendEoi \/ ReturnFromInterrupt
      BY <2>2, <2>7 DEF TakeInterrupt, SendEoi, ReturnFromInterrupt, queueVars
    <2>8. CASE ByteArrives \/ TimerTicks \/ TypeKey \/ UNCHANGED vars
      BY <2>2, <2>8 DEF ByteArrives, TimerTicks, TypeKey, queueVars, vars
    <2> QED
      BY <2>3, <2>4, <2>5, <2>6, <2>7, <2>8 DEF LoopNext, Main, Handler
  <1>3. LoopSpec => LoopInit /\ [][LoopNext]_vars
    BY PTL DEF LoopSpec
  <1> QED
    BY <1>1, <1>2, <1>3, LoopInvariant, PTL DEF LoopImplementsEventFifo, Fifo!FifoSpec

-----------------------------------------------------------------------------
(***************************************************************************)
(* KeyDecoding.                                                            *)
(***************************************************************************)

(***************************************************************************)
(* The inductive invariant reads the wire ahead.  There are states of the  *)
(* decoder, one before each byte that is under way and one after the last, *)
(* such that each byte brings one to the next, each byte is legitimate in  *)
(* the state it will find, and the last one agrees with the keys held.     *)
(***************************************************************************)
SentByte == [byte : 0 .. \hFF, shifted : BOOLEAN]

\* The decoder, but for caps lock, of which the keyboard knows nothing.
State == [extended : BOOLEAN, left : BOOLEAN, right : BOOLEAN]

current ==
    [extended |-> pending_extended, left |-> left_shift_down, right |-> right_shift_down]

settled ==
    [extended |-> FALSE, left |-> LeftShift \in held, right |-> RightShift \in held]

modifier(s, raw, key) == raw # prefix /\ ~ s.extended /\ key_of(raw, FALSE) = key

after(s, raw) ==
    [extended |-> raw = prefix,
     left |-> IF modifier(s, raw, "LEFT_SHIFT") THEN ~ is_release(raw) ELSE s.left,
     right |-> IF modifier(s, raw, "RIGHT_SHIFT") THEN ~ is_release(raw) ELSE s.right]

\* A character finds the shift keys as they were when it was typed, and an
\* event is about a key.
legitimate(s, b) ==
    /\ (~ s.extended /\ ~ is_release(b.byte) /\ key_of(b.byte, FALSE) = "CHARACTER") =>
          (b.shifted <=> s.left \/ s.right)
    /\ (b.byte # prefix /\ key_of(b.byte, s.extended) # "UNKNOWN") =>
          [code |-> clean_scancode(b.byte), grey |-> s.extended] \in Keys

Reads(w, s, t) ==
    \E st \in Seq(State) :
       /\ Len(st) = Len(w) + 1 /\ st[1] = s /\ st[Len(w) + 1] = t
       /\ \A k \in 1 .. Len(w) :
             legitimate(st[k], w[k]) /\ st[k + 1] = after(st[k], w[k].byte)

DecodingInv ==
    /\ DecoderTypeOK
    /\ held \subseteq Keys
    /\ wire \in Seq(SentByte) /\ Len(wire) <= WIRE_SIZE
    /\ emitted.key \in KeyCode /\ emitted.scancode \in 0 .. \h7F
    /\ sent \in SentByte
    /\ Reads(wire, current, settled)
    /\ CharactersAsTyped
    /\ NoPhantomKey

-----------------------------------------------------------------------------
(***************************************************************************)
(* The tables.                                                             *)
(***************************************************************************)

LEMMA NormalKeys ==
    ASSUME NEW c
    PROVE  /\ translate_normal_key_scancode(c) \in KeyCode
           /\ translate_normal_key_scancode(c) = "LEFT_SHIFT" <=> c = \h2A
           /\ translate_normal_key_scancode(c) = "RIGHT_SHIFT" <=> c = \h36
           /\ translate_normal_key_scancode(c) = "CHARACTER" => c \in printable
  <1> DEFINE K == {"ESCAPE", "ENTER", "BACKSPACE", "TAB", "LEFT_SHIFT", "RIGHT_SHIFT",
                   "CAPS_LOCK", "LEFT_CTRL", "LEFT_ALT"}
  <1>1. /\ DOMAIN normal_keys = K
        /\ \A k \in K : normal_keys[k] = \h2A <=> k = "LEFT_SHIFT"
        /\ \A k \in K : normal_keys[k] = \h36 <=> k = "RIGHT_SHIFT"
    BY DEF normal_keys
  <1>2. CASE \E k \in K : normal_keys[k] = c
    <2>1. PICK k \in K : normal_keys[k] = c /\ translate_normal_key_scancode(c) = k
      <3> DEFINE k == CHOOSE k \in K : normal_keys[k] = c
      <3>1. k \in K /\ normal_keys[k] = c
        BY <1>2
      <3>2. translate_normal_key_scancode(c) = k
        BY <1>1, <1>2 DEF translate_normal_key_scancode
      <3> HIDE DEF k
      <3> QED
        BY <3>1, <3>2
    <2>2. k \in KeyCode /\ k # "CHARACTER"
      BY <1>1 DEF KeyCode
    <2> QED
      BY <1>1, <2>1, <2>2
  <1>3. CASE ~ \E k \in K : normal_keys[k] = c
    <2>1. translate_normal_key_scancode(c) =
             IF c \in printable THEN "CHARACTER" ELSE "UNKNOWN"
      BY <1>1, <1>3 DEF translate_normal_key_scancode
    <2>2. c # \h2A /\ c # \h36
      BY <1>1, <1>3
    <2> QED
      BY <2>1, <2>2 DEF KeyCode
  <1> QED
    BY <1>2, <1>3

\* The shifts that are faked around grey keys are keys of nothing.
LEMMA ExtendedKeys ==
    /\ \A c : translate_extended_key_scancode(c) \in KeyCode
    /\ \A c : translate_extended_key_scancode(c) # "CHARACTER"
    /\ translate_extended_key_scancode(\h2A) = "UNKNOWN"
  <1> DEFINE K == {"LEFT_ARROW", "RIGHT_ARROW", "UP_ARROW", "DOWN_ARROW", "HOME", "END",
                   "INSERT", "DELETE"}
  <1>1. DOMAIN extended_keys = K /\ \A k \in K : extended_keys[k] # \h2A
    BY DEF extended_keys
  <1>2. ASSUME NEW c
        PROVE  translate_extended_key_scancode(c) \in K \cup {"UNKNOWN"}
    BY <1>1 DEF translate_extended_key_scancode
  <1>3. translate_extended_key_scancode(\h2A) = "UNKNOWN"
    BY <1>1 DEF translate_extended_key_scancode
  <1>4. K \cup {"UNKNOWN"} \subseteq KeyCode /\ "CHARACTER" \notin K
    BY <1>1 DEF KeyCode
  <1> QED
    BY <1>2, <1>3, <1>4

\* A byte names a code, going down or coming up.
LEMMA Bytes ==
    ASSUME NEW c \in (1 .. \h7F) \ {\h60}
    PROVE  /\ c # prefix /\ ~ is_release(c) /\ clean_scancode(c) = c
           /\ c + \h80 # prefix /\ is_release(c + \h80) /\ clean_scancode(c + \h80) = c
           /\ c \in 0 .. \hFF /\ c + \h80 \in 0 .. \hFF /\ prefix \in 0 .. \hFF
  BY DEF prefix, is_release, clean_scancode

-----------------------------------------------------------------------------
(***************************************************************************)
(* Reading ahead.                                                          *)
(***************************************************************************)

\* Nothing to read.
LEMMA ReadsNothing ==
    ASSUME NEW s \in State
    PROVE  Reads(<<>>, s, s)
  <1> DEFINE st == <<s>>
             w == <<>>
  <1>1. st \in Seq(State) /\ Len(st) = 1 /\ st[1] = s /\ Len(w) = 0
    OBVIOUS
  <1> HIDE DEF st, w
  <1>2. Reads(w, s, s)
    BY <1>1 DEF Reads
  <1> QED
    BY <1>2 DEF w

\* One byte.
LEMMA ReadsOne ==
    ASSUME NEW s \in State, NEW t \in State, NEW b,
           legitimate(s, b), t = after(s, b.byte)
    PROVE  Reads(<<b>>, s, t)
  <1> DEFINE st == <<s, t>>
             w == <<b>>
  <1>1. /\ st \in Seq(State) /\ Len(st) = 2 /\ st[1] = s /\ st[2] = t
        /\ Len(w) = 1 /\ w[1] = b
    OBVIOUS
  <1> HIDE DEF st, w
  <1>2. \A k \in 1 .. Len(w) :
           legitimate(st[k], w[k]) /\ st[k + 1] = after(st[k], w[k].byte)
    <2> TAKE k \in 1 .. Len(w)
    <2>1. k = 1 /\ k + 1 = 2
      BY <1>1
    <2> QED
      BY <1>1, <2>1
  <1>3. Reads(w, s, t)
    BY <1>1, <1>2 DEF Reads
  <1> QED
    BY <1>3 DEF w

\* One stretch after the other.
LEMMA ReadsBoth ==
    ASSUME NEW v \in Seq(SentByte), NEW w \in Seq(SentByte), NEW r, NEW s, NEW t,
           Reads(v, r, s), Reads(w, s, t)
    PROVE  Reads(v \o w, r, t)
  <1>1. PICK x \in Seq(State) :
           /\ Len(x) = Len(v) + 1 /\ x[1] = r /\ x[Len(v) + 1] = s
           /\ \A k \in 1 .. Len(v) :
                 legitimate(x[k], v[k]) /\ x[k + 1] = after(x[k], v[k].byte)
    BY DEF Reads
  <1>2. PICK y \in Seq(State) :
           /\ Len(y) = Len(w) + 1 /\ y[1] = s /\ y[Len(w) + 1] = t
           /\ \A k \in 1 .. Len(w) :
                 legitimate(y[k], w[k]) /\ y[k + 1] = after(y[k], w[k].byte)
    BY DEF Reads
  <1> DEFINE m == Len(v)
             n == Len(w)
             st == [k \in 1 .. (m + n + 1) |-> IF k <= m THEN x[k] ELSE y[k - m]]
             vw == v \o w
  <1>3. m \in Nat /\ n \in Nat
    OBVIOUS
  <1>4. /\ Len(vw) = m + n
        /\ \A k \in 1 .. m : vw[k] = v[k]
        /\ \A k \in 1 .. n : vw[m + k] = w[k]
    OBVIOUS
  <1>5. st \in Seq(State) /\ Len(st) = m + n + 1
    <2>1. \A k \in 1 .. (m + n + 1) : (IF k <= m THEN x[k] ELSE y[k - m]) \in State
      <3> TAKE k \in 1 .. (m + n + 1)
      <3>1. CASE k <= m
        BY <1>1, <1>3, <3>1
      <3>2. CASE ~ k <= m
        BY <1>2, <1>3, <3>2
      <3> QED
        BY <3>1, <3>2
    <2> QED
      BY <1>3, <2>1
  <1>6. /\ \A k \in 1 .. (m + 1) : st[k] = x[k]
        /\ \A k \in 1 .. (n + 1) : st[m + k] = y[k]
    <2>1. \A k \in 1 .. m : st[k] = x[k]
      BY <1>3
    <2>2. \A k \in 1 .. (n + 1) : st[m + k] = y[k]
      <3> TAKE k \in 1 .. (n + 1)
      <3>1. m + k \in 1 .. (m + n + 1) /\ ~ (m + k <= m) /\ (m + k) - m = k
        BY <1>3
      <3> QED
        BY <3>1
    <2>3. st[m + 1] = x[m + 1]
      <3>1. 1 \in 1 .. (n + 1)
        BY <1>3
      <3> QED
        BY <1>1, <1>2, <2>2, <3>1
    <2> QED
      BY <1>3, <2>1, <2>2, <2>3
  <1> HIDE DEF st, vw
  <1>7. \A k \in 1 .. (m + n) :
           legitimate(st[k], vw[k]) /\ st[k + 1] = after(st[k], vw[k].byte)
    <2> TAKE k \in 1 .. (m + n)
    <2>1. CASE k <= m
      <3>1. k \in 1 .. m /\ k \in 1 .. (m + 1) /\ k + 1 \in 1 .. (m + 1)
        BY <1>3, <2>1
      <3> QED
        BY <1>1, <1>4, <1>6, <3>1
    <2>2. CASE ~ k <= m
      <3> DEFINE j == k - m
      <3>1. /\ j \in 1 .. n /\ j \in 1 .. (n + 1) /\ j + 1 \in 1 .. (n + 1)
            /\ m + j = k /\ m + (j + 1) = k + 1
        BY <1>3, <2>2
      <3> HIDE DEF j
      <3>2. st[k] = y[j] /\ st[k + 1] = y[j + 1]
        BY <1>6, <3>1
      <3>3. vw[k] = w[j]
        BY <1>4, <3>1
      <3>4. legitimate(y[j], w[j]) /\ y[j + 1] = after(y[j], w[j].byte)
        BY <1>2, <3>1
      <3> QED
        BY <3>2, <3>3, <3>4
    <2> QED
      BY <2>1, <2>2
  <1>8. st[1] = r /\ st[m + n + 1] = t
    <2>1. /\ 1 \in 1 .. (m + 1) /\ n + 1 \in 1 .. (n + 1)
          /\ m + (n + 1) = m + n + 1
      BY <1>3
    <2> QED
      BY <1>1, <1>2, <1>6, <2>1
  <1>9. Reads(vw, r, t)
    BY <1>4, <1>5, <1>7, <1>8 DEF Reads
  <1> QED
    BY <1>9 DEF vw

\* The first byte, and the rest.
LEMMA ReadsHead ==
    ASSUME NEW w \in Seq(SentByte), w # <<>>, NEW s, NEW t, Reads(w, s, t)
    PROVE  /\ s \in State /\ legitimate(s, Head(w))
           /\ after(s, Head(w).byte) \in State
           /\ Reads(Tail(w), after(s, Head(w).byte), t)
  <1>1. PICK x \in Seq(State) :
           /\ Len(x) = Len(w) + 1 /\ x[1] = s /\ x[Len(w) + 1] = t
           /\ \A k \in 1 .. Len(w) :
                 legitimate(x[k], w[k]) /\ x[k + 1] = after(x[k], w[k].byte)
    BY DEF Reads
  <1>2. /\ Len(w) \in Nat \ {0} /\ 1 \in 1 .. Len(w) /\ w[1] = Head(w)
        /\ Len(Tail(w)) = Len(w) - 1 /\ \A k \in 1 .. Len(Tail(w)) : Tail(w)[k] = w[k + 1]
    OBVIOUS
  <1> DEFINE y == Tail(x)
  <1>3. /\ y \in Seq(State) /\ Len(y) = Len(w)
        /\ \A k \in 1 .. Len(y) : y[k] = x[k + 1]
    BY <1>1, <1>2
  <1>4. s \in State /\ x[2] = after(s, Head(w).byte) /\ legitimate(s, Head(w))
    BY <1>1, <1>2
  <1>5. y[1] = after(s, Head(w).byte) /\ y[Len(w)] = t /\ y[1] \in State
    BY <1>1, <1>2, <1>3, <1>4
  <1> HIDE DEF y
  <1>6. \A k \in 1 .. Len(Tail(w)) :
           legitimate(y[k], Tail(w)[k]) /\ y[k + 1] = after(y[k], Tail(w)[k].byte)
    <2> TAKE k \in 1 .. Len(Tail(w))
    <2>1. k + 1 \in 1 .. Len(w) /\ k \in 1 .. Len(y) /\ k + 1 \in 1 .. Len(y)
      BY <1>2, <1>3
    <2> QED
      BY <1>1, <1>2, <1>3, <2>1
  <1>7. Len(y) = Len(Tail(w)) + 1 /\ y[Len(Tail(w)) + 1] = t
    BY <1>2, <1>3, <1>5
  <1>8. Reads(Tail(w), after(s, Head(w).byte), t)
    BY <1>3, <1>5, <1>6, <1>7 DEF Reads
  <1> QED
    BY <1>4, <1>5, <1>8

-----------------------------------------------------------------------------
(***************************************************************************)
(* What the keyboard sends.                                                *)
(***************************************************************************)

LEMMA Pairs ==
    ASSUME NEW a \in SentByte, NEW b \in SentByte
    PROVE  /\ <<a>> \in Seq(SentByte) /\ <<b>> \in Seq(SentByte) /\ <<a, b>> \in Seq(SentByte)
           /\ <<a, b>> = <<a>> \o <<b>>
  <1> DEFINE u == <<a, b>>
             v == <<a>>
             w == <<b>>
  <1>1. u \in Seq(SentByte) /\ Len(u) = 2 /\ u[1] = a /\ u[2] = b
    OBVIOUS
  <1>2. v \in Seq(SentByte) /\ Len(v) = 1 /\ v[1] = a
    OBVIOUS
  <1>3. w \in Seq(SentByte) /\ Len(w) = 1 /\ w[1] = b
    OBVIOUS
  <1> HIDE DEF u, v, w
  <1>4. v \o w \in Seq(SentByte) /\ Len(v \o w) = 2 /\ (v \o w)[1] = a /\ (v \o w)[2] = b
    BY <1>2, <1>3, ConcatProperties
  <1>5. u = v \o w
    <2>1. \A i \in 1 .. Len(u) : u[i] = (v \o w)[i]
      BY <1>1, <1>4
    <2> QED
      BY <1>1, <1>4, <2>1, SeqEqual
  <1> QED
    BY <1>1, <1>2, <1>3, <1>5 DEF u, v, w

\* The decoder as it should be when keys h are down.
shifts(h) ==
    [extended |-> FALSE, left |-> LeftShift \in h, right |-> RightShift \in h]

item(x) == [byte |-> x, shifted |-> shift_held]

tagged(bytes) == [n \in DOMAIN bytes |-> item(bytes[n])]

LEMMA Shifts ==
    ASSUME NEW h
    PROVE  /\ shifts(h) \in State /\ shifts(h).extended = FALSE
           /\ shifts(h).left <=> LeftShift \in h
           /\ shifts(h).right <=> RightShift \in h
  <1>1. shifts(h) \in State /\ shifts(h).extended = FALSE
    BY DEF shifts, State
  <1>2. shifts(h).left <=> LeftShift \in h
    BY DEF shifts
  <1>3. shifts(h).right <=> RightShift \in h
    BY DEF shifts
  <1> QED
    BY <1>1, <1>2, <1>3

\* A byte takes a state of the decoder to a state.
LEMMA After ==
    ASSUME NEW s \in State, NEW x
    PROVE  /\ after(s, x) \in State
           /\ after(s, x).extended <=> x = prefix
           /\ after(s, x).left <=>
                 IF modifier(s, x, "LEFT_SHIFT") THEN ~ is_release(x) ELSE s.left
           /\ after(s, x).right <=>
                 IF modifier(s, x, "RIGHT_SHIFT") THEN ~ is_release(x) ELSE s.right
  BY DEF after, State, is_release

LEMMA SameState ==
    ASSUME NEW s \in State, NEW t \in State, s.extended <=> t.extended,
           s.left <=> t.left, s.right <=> t.right
    PROVE  s = t
  BY DEF State

LEMMA Items ==
    ASSUME NEW x \in 0 .. \hFF
    PROVE  item(x) \in SentByte /\ item(x).byte = x /\ item(x).shifted = shift_held
  BY DEF item, SentByte, shift_held

LEMMA Tagged ==
    /\ tagged(<<>>) = <<>>
    /\ \A x \in 0 .. \hFF : tagged(<<x>>) = <<item(x)>>
    /\ \A x, y \in 0 .. \hFF : tagged(<<x, y>>) = <<item(x), item(y)>>
    /\ \A v, w \in Seq(0 .. \hFF) : tagged(v \o w) = tagged(v) \o tagged(w)
  <1> HIDE DEF item
  <1>1. tagged(<<>>) = <<>>
    BY DEF tagged
  <1>2. \A x \in 0 .. \hFF : tagged(<<x>>) = <<item(x)>>
    BY DEF tagged
  <1>3. \A x, y \in 0 .. \hFF : tagged(<<x, y>>) = <<item(x), item(y)>>
    BY DEF tagged
  <1>4. ASSUME NEW v \in Seq(0 .. \hFF), NEW w \in Seq(0 .. \hFF)
        PROVE  tagged(v \o w) = tagged(v) \o tagged(w)
    <2> DEFINE u == v \o w
               S == {item(x) : x \in 0 .. \hFF}
    <2>1. /\ u \in Seq(0 .. \hFF) /\ Len(u) = Len(v) + Len(w)
          /\ \A n \in 1 .. (Len(v) + Len(w)) :
                u[n] = IF n <= Len(v) THEN v[n] ELSE w[n - Len(v)]
      OBVIOUS
    <2> HIDE DEF u
    <2>2. ASSUME NEW x \in Seq(0 .. \hFF)
          PROVE  /\ tagged(x) \in Seq(S) /\ Len(tagged(x)) = Len(x)
                 /\ \A n \in 1 .. Len(x) : tagged(x)[n] = item(x[n])
      <3>1. tagged(x) = [n \in 1 .. Len(x) |-> item(x[n])] /\ Len(x) \in Nat
        BY DEF tagged
      <3>2. \A n \in 1 .. Len(x) : item(x[n]) \in S
        <4> TAKE n \in 1 .. Len(x)
        <4>1. x[n] \in 0 .. \hFF
          BY ElementOfSeq
        <4> QED
          BY <4>1
      <3> HIDE DEF S
      <3> QED
        BY <3>1, <3>2
    <2> HIDE DEF S
    <2>3. \A n \in 1 .. (Len(v) + Len(w)) :
             tagged(u)[n] = IF n <= Len(v) THEN tagged(v)[n] ELSE tagged(w)[n - Len(v)]
      <3> TAKE n \in 1 .. (Len(v) + Len(w))
      <3>1. tagged(u)[n] = item(u[n])
        BY <2>1, <2>2
      <3>2. CASE n <= Len(v)
        BY <2>1, <2>2, <3>1, <3>2
      <3>3. CASE ~ n <= Len(v)
        <4>1. n - Len(v) \in 1 .. Len(w)
          BY <3>3
        <4> QED
          BY <2>1, <2>2, <3>1, <3>3, <4>1
      <3> QED
        BY <3>2, <3>3
    <2>4. tagged(u) = tagged(v) \o tagged(w)
      <3>1. tagged(v) \in Seq(S) /\ tagged(w) \in Seq(S) /\ tagged(u) \in Seq(S)
        BY <2>1, <2>2
      <3>2. Len(tagged(v)) = Len(v) /\ Len(tagged(w)) = Len(w) /\ Len(tagged(u)) = Len(u)
        BY <2>1, <2>2
      <3> DEFINE y == tagged(v)
                 z == tagged(w)
                 x == y \o z
      <3> HIDE DEF y, z
      <3>3. /\ x \in Seq(S) /\ Len(x) = Len(v) + Len(w)
            /\ \A n \in 1 .. (Len(v) + Len(w)) :
                  x[n] = IF n <= Len(v) THEN y[n] ELSE z[n - Len(v)]
        <4>1. y \in Seq(S) /\ z \in Seq(S) /\ Len(y) = Len(v) /\ Len(z) = Len(w)
          BY <3>1, <3>2 DEF y, z
        <4>2. /\ x \in Seq(S) /\ Len(x) = Len(y) + Len(z)
              /\ \A n \in 1 .. Len(y) + Len(z) :
                    x[n] = IF n <= Len(y) THEN y[n] ELSE z[n - Len(y)]
          BY <4>1, ConcatProperties
        <4> QED
          BY <4>1, <4>2
      <3> HIDE DEF x
      <3>4. \A n \in 1 .. Len(tagged(u)) : tagged(u)[n] = x[n]
        BY <2>1, <2>3, <3>2, <3>3 DEF y, z
      <3>5. tagged(u) = x
        BY <2>1, <3>1, <3>2, <3>3, <3>4, SeqEqual
      <3> QED
        BY <3>5 DEF x, y, z
    <2> QED
      BY <2>4 DEF u
  <1> QED
    BY <1>1, <1>2, <1>3, <1>4

\* A prefix and a byte that it makes a grey key, or nothing at all, leave the
\* decoder as it was.
LEMMA ReadsPair ==
    ASSUME NEW h, NEW x \in 0 .. \hFF, x # prefix,
           key_of(x, TRUE) # "UNKNOWN" =>
              [code |-> clean_scancode(x), grey |-> TRUE] \in Keys
    PROVE  /\ tagged(<<prefix, x>>) \in Seq(SentByte)
           /\ Reads(tagged(<<prefix, x>>), shifts(h), shifts(h))
  <1> DEFINE s == shifts(h)
             a == item(prefix)
             b == item(x)
  <1>1. prefix \in 0 .. \hFF /\ is_release(prefix)
    BY DEF prefix, is_release
  <1>2. s \in State /\ s.extended = FALSE
    BY Shifts
  <1>3. a \in SentByte /\ b \in SentByte /\ a.byte = prefix /\ b.byte = x
    BY <1>1, Items
  <1> HIDE DEF s, a, b
  <1> DEFINE t == after(s, prefix)
  <1>4. t \in State /\ t.extended = TRUE /\ (t.left <=> s.left) /\ (t.right <=> s.right)
    <2>1. ~ modifier(s, prefix, "LEFT_SHIFT") /\ ~ modifier(s, prefix, "RIGHT_SHIFT")
      BY DEF modifier
    <2>2. t \in State /\ (t.extended <=> TRUE)
      BY <1>2, After
    <2>3. t.left <=> s.left
      BY <1>2, <2>1, After
    <2>4. t.right <=> s.right
      BY <1>2, <2>1, After
    <2> QED
      BY <2>2, <2>3, <2>4 DEF State
  <1>5. after(t, x) = s
    <2>1. ~ modifier(t, x, "LEFT_SHIFT") /\ ~ modifier(t, x, "RIGHT_SHIFT")
      BY <1>4 DEF modifier
    <2>2. after(t, x) \in State /\ (after(t, x).extended <=> s.extended)
      BY <1>2, <1>4, After
    <2>3. after(t, x).left <=> s.left
      BY <1>4, <2>1, After
    <2>4. after(t, x).right <=> s.right
      BY <1>4, <2>1, After
    <2> QED
      BY <1>2, <2>2, <2>3, <2>4, SameState
  <1> HIDE DEF t
  <1>6. legitimate(s, a) /\ legitimate(t, b)
    BY <1>1, <1>2, <1>3, <1>4 DEF legitimate
  <1>7. Reads(<<a>>, s, t) /\ Reads(<<b>>, t, s)
    BY <1>2, <1>3, <1>4, <1>5, <1>6, ReadsOne DEF t
  <1>8. Reads(<<a, b>>, s, s) /\ <<a, b>> \in Seq(SentByte)
    BY <1>3, <1>7, Pairs, ReadsBoth
  <1>9. tagged(<<prefix, x>>) = <<a, b>>
    BY <1>1, Tagged DEF a, b
  <1> QED
    BY <1>8, <1>9 DEF s

\* A byte without a prefix moves the shift keys if it is theirs.
LEMMA ReadsSingle ==
    ASSUME held \subseteq Keys, NEW k \in Keys, ~ k.grey
    PROVE  /\ tagged(<<k.code>>) \in Seq(SentByte)
           /\ Reads(tagged(<<k.code>>), shifts(held), shifts(held \cup {k}))
           /\ tagged(<<k.code + \h80>>) \in Seq(SentByte)
           /\ Reads(tagged(<<k.code + \h80>>), shifts(held), shifts(held \ {k}))
  <1> DEFINE s == shifts(held)
             up == shifts(held \ {k})
             down == shifts(held \cup {k})
             c == k.code
             d == k.code + \h80
             a == item(c)
             b == item(d)
  <1>1. /\ c \in (1 .. \h7F) \ {\h60}
        /\ k = [code |-> c, grey |-> FALSE]
    BY KeyDecoderAssumption
  <1>2. (k = LeftShift <=> c = \h2A) /\ (k = RightShift <=> c = \h36)
    BY <1>1 DEF LeftShift, RightShift, normal_keys
  <1>3. /\ c # prefix /\ ~ is_release(c) /\ clean_scancode(c) = c
        /\ d # prefix /\ is_release(d) /\ clean_scancode(d) = c
        /\ c \in 0 .. \hFF /\ d \in 0 .. \hFF
    BY <1>1, Bytes
  <1> HIDE DEF c, d
  <1>4. /\ key_of(c, FALSE) = translate_normal_key_scancode(c)
        /\ key_of(d, FALSE) = translate_normal_key_scancode(c)
    BY <1>3 DEF key_of
  <1>5. /\ key_of(c, FALSE) = "LEFT_SHIFT" <=> k = LeftShift
        /\ key_of(c, FALSE) = "RIGHT_SHIFT" <=> k = RightShift
        /\ key_of(d, FALSE) = "LEFT_SHIFT" <=> k = LeftShift
        /\ key_of(d, FALSE) = "RIGHT_SHIFT" <=> k = RightShift
    <2>1. /\ translate_normal_key_scancode(c) = "LEFT_SHIFT" <=> c = \h2A
          /\ translate_normal_key_scancode(c) = "RIGHT_SHIFT" <=> c = \h36
      BY NormalKeys
    <2> QED
      BY <1>2, <1>4, <2>1
  <1>6. /\ a \in SentByte /\ a.byte = c /\ a.shifted = shift_held
        /\ b \in SentByte /\ b.byte = d
    BY <1>3, Items
  <1>7. /\ s \in State /\ s.extended = FALSE
        /\ s.left <=> LeftShift \in held
        /\ s.right <=> RightShift \in held
    BY Shifts
  <1>8. /\ up \in State /\ up.extended = FALSE
        /\ up.left <=> LeftShift \in held \ {k}
        /\ up.right <=> RightShift \in held \ {k}
    BY Shifts
  <1>9. /\ down \in State /\ down.extended = FALSE
        /\ down.left <=> LeftShift \in held \cup {k}
        /\ down.right <=> RightShift \in held \cup {k}
    BY Shifts
  <1>10. shift_held <=> LeftShift \in held \/ RightShift \in held
    BY DEF shift_held
  <1> HIDE DEF s, up, down, a, b
  <1>11. legitimate(s, a)
    <2>1. a.shifted <=> s.left \/ s.right
      BY <1>6, <1>7, <1>10
    <2>2. [code |-> clean_scancode(a.byte), grey |-> s.extended] \in Keys
      BY <1>1, <1>3, <1>6, <1>7
    <2> QED
      BY <2>1, <2>2 DEF legitimate
  <1>12. legitimate(s, b)
    <2>1. [code |-> clean_scancode(b.byte), grey |-> s.extended] \in Keys
      BY <1>1, <1>3, <1>6, <1>7
    <2> QED
      BY <1>3, <1>6, <2>1 DEF legitimate
  <1>13. down = after(s, c)
    <2>1. /\ modifier(s, c, "LEFT_SHIFT") <=> k = LeftShift
          /\ modifier(s, c, "RIGHT_SHIFT") <=> k = RightShift
      BY <1>3, <1>5, <1>7 DEF modifier
    <2>2. /\ after(s, c) \in State
          /\ after(s, c).extended <=> down.extended
      BY <1>3, <1>7, <1>9, After
    <2>3. after(s, c).left <=> down.left
      BY <1>3, <1>7, <1>9, <2>1, After
    <2>4. after(s, c).right <=> down.right
      BY <1>3, <1>7, <1>9, <2>1, After
    <2> QED
      BY <1>9, <2>2, <2>3, <2>4, SameState
  <1>14. up = after(s, d)
    <2>1. /\ modifier(s, d, "LEFT_SHIFT") <=> k = LeftShift
          /\ modifier(s, d, "RIGHT_SHIFT") <=> k = RightShift
      BY <1>3, <1>5, <1>7 DEF modifier
    <2>2. /\ after(s, d) \in State
          /\ after(s, d).extended <=> up.extended
      BY <1>3, <1>7, <1>8, After
    <2>3. after(s, d).left <=> up.left
      BY <1>3, <1>7, <1>8, <2>1, After
    <2>4. after(s, d).right <=> up.right
      BY <1>3, <1>7, <1>8, <2>1, After
    <2> QED
      BY <1>8, <2>2, <2>3, <2>4, SameState
  <1>15. Reads(<<a>>, s, down) /\ Reads(<<b>>, s, up)
    BY <1>6, <1>7, <1>8, <1>9, <1>11, <1>12, <1>13, <1>14, ReadsOne
  <1>16. tagged(<<c>>) = <<a>> /\ tagged(<<d>>) = <<b>>
    BY <1>3, Tagged DEF a, b
  <1>17. <<a>> \in Seq(SentByte) /\ <<b>> \in Seq(SentByte)
    BY <1>6, Pairs
  <1> QED
    BY <1>15, <1>16, <1>17 DEF s, up, down, c, d

\* The shifts that are faked around a grey key go unnoticed.
LEMMA FakedShift ==
    ASSUME NEW h, NEW x \in {\h2A, \hAA}
    PROVE  /\ tagged(<<prefix, x>>) \in Seq(SentByte)
           /\ Reads(tagged(<<prefix, x>>), shifts(h), shifts(h))
  <1>1. x \in 0 .. \hFF /\ x # prefix /\ clean_scancode(x) = \h2A
    BY DEF clean_scancode, prefix
  <1>2. key_of(x, TRUE) = "UNKNOWN"
    BY <1>1, ExtendedKeys DEF key_of
  <1>3. key_of(x, TRUE) # "UNKNOWN" => [code |-> clean_scancode(x), grey |-> TRUE] \in Keys
    BY <1>2
  <1>4. x \in 0 .. \hFF /\ x # prefix
    BY <1>1
  <1> QED
    BY <1>3, <1>4, ReadsPair

\* A grey key is no shift key.
LEMMA GreyKeys ==
    ASSUME NEW k, k.grey, NEW h
    PROVE  shifts(h \cup {k}) = shifts(h) /\ shifts(h \ {k}) = shifts(h)
  <1>1. k # LeftShift /\ k # RightShift
    BY DEF LeftShift, RightShift
  <1>2. ASSUME NEW g, LeftShift \in g <=> LeftShift \in h,
                      RightShift \in g <=> RightShift \in h
        PROVE  shifts(g) = shifts(h)
    BY <1>2, Shifts, SameState
  <1> QED
    BY <1>1, <1>2

\* The bytes of a key going down bring the decoder from the keys that were
\* held to the keys that are.
LEMMA MakeCode ==
    ASSUME held \subseteq Keys, NEW k \in Keys
    PROVE  /\ make_code(k) \in Seq(0 .. \hFF) /\ tagged(make_code(k)) \in Seq(SentByte)
           /\ Reads(tagged(make_code(k)), shifts(held), shifts(held \cup {k}))
  <1>1. CASE ~ k.grey
    <2>1. make_code(k) = <<>> \o <<k.code>>
      BY <1>1 DEF make_code
    <2>2. <<>> \o <<k.code>> = <<k.code>> /\ k.code \in 0 .. \hFF
      BY KeyDecoderAssumption
    <2>3. <<k.code>> \in Seq(0 .. \hFF)
      BY <2>2
    <2> QED
      BY <1>1, <2>1, <2>2, <2>3, ReadsSingle
  <1>2. CASE k.grey
    <2> DEFINE s == shifts(held)
               c == k.code
               p == <<prefix, \hAA>>
               q == <<prefix, c>>
    <2>1. c \in (1 .. \h7F) \ {\h60} /\ k = [code |-> c, grey |-> TRUE]
      BY <1>2, KeyDecoderAssumption
    <2> HIDE DEF c
    <2>2. shifts(held \cup {k}) = s
      BY <1>2, GreyKeys
    <2>3. c # prefix /\ clean_scancode(c) = c /\ c \in 0 .. \hFF /\ prefix \in 0 .. \hFF
      BY <2>1, Bytes
    <2>4. tagged(q) \in Seq(SentByte) /\ Reads(tagged(q), s, s)
      BY <2>1, <2>3, ReadsPair
    <2>5. tagged(p) \in Seq(SentByte) /\ Reads(tagged(p), s, s)
      BY FakedShift
    <2>6. p \in Seq(0 .. \hFF) /\ q \in Seq(0 .. \hFF)
      BY <2>3
    <2>7. make_code(k) = IF LeftShift \in held THEN p \o q ELSE <<>> \o q
      BY <1>2 DEF make_code, c
    <2> HIDE DEF s, p, q
    <2>8. CASE LeftShift \in held
      <3>1. p \o q \in Seq(0 .. \hFF)
        BY <2>6
      <3>2. tagged(p \o q) = tagged(p) \o tagged(q)
        BY <2>6, Tagged
      <3>3. tagged(p) \o tagged(q) \in Seq(SentByte)
        BY <2>4, <2>5
      <3>4. Reads(tagged(p) \o tagged(q), s, s)
        BY <2>4, <2>5, ReadsBoth
      <3> QED
        BY <2>2, <2>7, <2>8, <3>1, <3>2, <3>3, <3>4 DEF s
    <2>9. CASE LeftShift \notin held
      <3>1. <<>> \o q = q
        BY <2>6
      <3> QED
        BY <2>2, <2>4, <2>6, <2>7, <2>9, <3>1 DEF s
    <2> QED
      BY <2>8, <2>9
  <1> QED
    BY <1>1, <1>2

\* So do the bytes of a key coming up.
LEMMA BreakCode ==
    ASSUME held \subseteq Keys, NEW k \in Keys
    PROVE  /\ break_code(k) \in Seq(0 .. \hFF) /\ tagged(break_code(k)) \in Seq(SentByte)
           /\ Reads(tagged(break_code(k)), shifts(held), shifts(held \ {k}))
  <1>1. CASE ~ k.grey
    <2>1. break_code(k) = <<k.code + \h80>> \o <<>>
      BY <1>1 DEF break_code
    <2>2. <<k.code + \h80>> \o <<>> = <<k.code + \h80>> /\ k.code + \h80 \in 0 .. \hFF
      BY KeyDecoderAssumption
    <2>3. <<k.code + \h80>> \in Seq(0 .. \hFF)
      BY <2>2
    <2> QED
      BY <1>1, <2>1, <2>2, <2>3, ReadsSingle
  <1>2. CASE k.grey
    <2> DEFINE s == shifts(held)
               d == k.code + \h80
               p == <<prefix, \h2A>>
               q == <<prefix, d>>
    <2>1. /\ k.code \in (1 .. \h7F) \ {\h60}
          /\ k = [code |-> k.code, grey |-> TRUE]
      BY <1>2, KeyDecoderAssumption
    <2>2. shifts(held \ {k}) = s
      BY <1>2, GreyKeys
    <2>3. /\ d # prefix /\ clean_scancode(d) = k.code
          /\ d \in 0 .. \hFF /\ prefix \in 0 .. \hFF
      BY <2>1, Bytes
    <2> HIDE DEF d
    <2>4. tagged(q) \in Seq(SentByte) /\ Reads(tagged(q), s, s)
      BY <2>1, <2>3, ReadsPair
    <2>5. tagged(p) \in Seq(SentByte) /\ Reads(tagged(p), s, s)
      BY FakedShift
    <2>6. p \in Seq(0 .. \hFF) /\ q \in Seq(0 .. \hFF)
      BY <2>3
    <2>7. break_code(k) = IF LeftShift \in held THEN q \o p ELSE q \o <<>>
      BY <1>2 DEF break_code, d
    <2> HIDE DEF s, p, q
    <2>8. CASE LeftShift \in held
      <3>1. q \o p \in Seq(0 .. \hFF)
        BY <2>6
      <3>2. tagged(q \o p) = tagged(q) \o tagged(p)
        BY <2>6, Tagged
      <3>3. tagged(q) \o tagged(p) \in Seq(SentByte)
        BY <2>4, <2>5
      <3>4. Reads(tagged(q) \o tagged(p), s, s)
        BY <2>4, <2>5, ReadsBoth
      <3> QED
        BY <2>2, <2>7, <2>8, <3>1, <3>2, <3>3, <3>4 DEF s
    <2>9. CASE LeftShift \notin held
      <3>1. q \o <<>> = q
        BY <2>6
      <3> QED
        BY <2>2, <2>4, <2>6, <2>7, <2>9, <3>1 DEF s
    <2> QED
      BY <2>8, <2>9
  <1> QED
    BY <1>1, <1>2

-----------------------------------------------------------------------------
(***************************************************************************)
(* The steps.                                                              *)
(***************************************************************************)

LEMMA Sending ==
    ASSUME DecodingInv, NEW bytes \in Seq(0 .. \hFF), NEW h,
           tagged(bytes) \in Seq(SentByte), Reads(tagged(bytes), shifts(held), shifts(h)),
           send(bytes)
    PROVE  /\ wire' \in Seq(SentByte) /\ Len(wire') <= WIRE_SIZE
           /\ Reads(wire', current, shifts(h))
  <1> DEFINE t == tagged(bytes)
  <1>1. wire' = wire \o t /\ Len(wire) + Len(bytes) <= WIRE_SIZE
    BY DEF send, tagged, item
  <1>2. Len(t) = Len(bytes)
    <2>1. DOMAIN t = DOMAIN bytes
      BY DEF tagged
    <2> HIDE DEF t
    <2>2. t \in Seq(SentByte)
      BY DEF t
    <2> QED
      BY <2>1, <2>2
  <1>3. /\ wire \in Seq(SentByte) /\ t \in Seq(SentByte)
        /\ Reads(wire, current, shifts(held)) /\ Reads(t, shifts(held), shifts(h))
    BY DEF DecodingInv, settled, shifts
  <1> HIDE DEF t
  <1>4. Len(wire \o t) = Len(wire) + Len(t) /\ wire \o t \in Seq(SentByte)
    BY <1>3
  <1>5. Reads(wire \o t, current, shifts(h))
    BY <1>3, ReadsBoth
  <1> QED
    BY <1>1, <1>2, <1>4, <1>5

\* The keyboard adds what brings the decoder up to date.
LEMMA KeyTypedKeeps ==
    ASSUME DecodingInv, KeyTyped
    PROVE  DecodingInv'
  <1>1. UNCHANGED <<decoder, emitted, sent>> /\ held \subseteq Keys
    BY DEF KeyTyped, DecodingInv
  <1>2. PICK k \in Keys : Press(k) \/ Release(k)
    BY DEF KeyTyped, Type
  <1>3. /\ held' \subseteq Keys /\ wire' \in Seq(SentByte) /\ Len(wire') <= WIRE_SIZE
        /\ Reads(wire', current, shifts(held'))
    <2>1. CASE Press(k)
      <3>1. send(make_code(k)) /\ held' = held \cup {k}
        BY <2>1 DEF Press
      <3>2. Reads(wire', current, shifts(held \cup {k}))
            /\ wire' \in Seq(SentByte) /\ Len(wire') <= WIRE_SIZE
        BY <1>1, <3>1, MakeCode, Sending
      <3> QED
        BY <1>1, <3>1, <3>2
    <2>2. CASE Release(k)
      <3>1. send(break_code(k)) /\ held' = held \ {k}
        BY <2>2 DEF Release
      <3>2. Reads(wire', current, shifts(held \ {k}))
            /\ wire' \in Seq(SentByte) /\ Len(wire') <= WIRE_SIZE
        BY <1>1, <3>1, BreakCode, Sending
      <3> QED
        BY <1>1, <3>1, <3>2
    <2> QED
      BY <1>2, <2>1, <2>2
  <1>4. current' = current /\ settled' = shifts(held')
    BY <1>1 DEF current, settled, shifts, decoder
  <1>5. Reads(wire, current, settled)'
    BY <1>3, <1>4 DEF Reads, legitimate, after, modifier
  <1>6. DecoderTypeOK' /\ CharactersAsTyped' /\ NoPhantomKey'
    BY <1>1 DEF DecodingInv, DecoderTypeOK, decoder, CharactersAsTyped, NoPhantomKey
  <1> QED
    BY <1>1, <1>3, <1>5, <1>6 DEF DecodingInv

\* The handler reads one byte.
LEMMA HandlerKeeps ==
    ASSUME DecodingInv, handle_raw_scancode
    PROVE  DecodingInv'
  <1> DEFINE b == Head(wire)
             raw == b.byte
             extended == pending_extended
             shift == left_shift_down \/ right_shift_down
             caps == caps_lock_on
             key == key_of(raw, extended)
  <1>1. /\ wire # <<>> /\ wire' = Tail(wire) /\ held' = held /\ sent' = b
        /\ update_decoder(raw) /\ emitted' = event_of(raw, extended, shift, caps)
    BY DEF handle_raw_scancode, decoded
  <1>2. /\ wire \in Seq(SentByte) /\ Len(wire) <= WIRE_SIZE /\ held \subseteq Keys
        /\ Reads(wire, current, settled)
        /\ extended \in BOOLEAN /\ left_shift_down \in BOOLEAN
        /\ right_shift_down \in BOOLEAN /\ caps \in BOOLEAN
    BY DEF DecodingInv, DecoderTypeOK, decoder
  <1>3. /\ legitimate(current, b)
        /\ Reads(Tail(wire), after(current, raw), settled)
    BY <1>1, <1>2, ReadsHead
  <1>4. b \in SentByte /\ raw \in 0 .. \hFF
    <2>1. b \in SentByte
      BY <1>1, <1>2, HeadTailProperties
    <2> QED
      BY <2>1 DEF SentByte
  <1>5. Tail(wire) \in Seq(SentByte) /\ Len(Tail(wire)) <= WIRE_SIZE
    <2>1. Tail(wire) \in Seq(SentByte) /\ Len(Tail(wire)) = Len(wire) - 1 /\ Len(wire) \in Nat
      BY <1>1, <1>2, HeadTailProperties
    <2> QED
      BY <1>2, <2>1, KeyDecoderAssumption
  <1> HIDE DEF b, raw
  <1>6. clean_scancode(raw) \in 0 .. \h7F /\ (~ is_release(raw) => clean_scancode(raw) = raw)
    BY <1>4 DEF clean_scancode, is_release
  <1>7. key \in KeyCode /\ (extended => key # "CHARACTER")
    BY NormalKeys, ExtendedKeys DEF key_of
  <1>8. current' = after(current, raw) /\ settled' = settled
    BY <1>1 DEF current, settled, after, modifier, update_decoder
  <1>9. DecoderTypeOK'
    BY <1>1, <1>2 DEF update_decoder, DecoderTypeOK, decoder, is_release
  <1>10. Reads(wire, current, settled)'
    <2>1. Reads(wire', current', settled')
      BY <1>1, <1>3, <1>8
    <2> QED
      BY <2>1 DEF Reads, legitimate, after, modifier
  <1>11. CASE raw = prefix \/ key = "UNKNOWN"
    <2>1. emitted' = NoEvent
      BY <1>1, <1>11 DEF event_of
    <2>2. /\ emitted'.key = "UNKNOWN" /\ emitted'.scancode = 0
          /\ "UNKNOWN" \in KeyCode
      BY <2>1 DEF NoEvent, KeyEvent, KeyCode
    <2>3. CharactersAsTyped' /\ NoPhantomKey'
      BY <2>1, <2>2 DEF CharactersAsTyped, NoPhantomKey
    <2> QED
      BY <1>1, <1>2, <1>4, <1>5, <1>9, <1>10, <2>2, <2>3 DEF DecodingInv
  <1>12. CASE raw # prefix /\ key # "UNKNOWN"
    <2>1. /\ emitted'.key = key /\ emitted'.scancode = clean_scancode(raw)
          /\ emitted'.ascii = ascii_of(raw, extended, shift, caps)
          /\ emitted'.extended = extended
      BY <1>1, <1>12 DEF event_of, KeyEvent
    <2>2. NoPhantomKey'
      <3>1. [code |-> clean_scancode(raw), grey |-> extended] \in Keys
        BY <1>3, <1>12 DEF legitimate, current, raw
      <3> QED
        BY <2>1, <3>1 DEF NoPhantomKey
    <2>3. CharactersAsTyped'
      <3> SUFFICES ASSUME key = "CHARACTER", ascii_of(raw, extended, shift, caps) # Nul
                   PROVE  ascii_of(raw, extended, shift, caps)[1] = "shifted" <=>
                             IF raw \in letters THEN b.shifted # caps ELSE b.shifted
        <4>1. ASSUME key = "CHARACTER", ascii_of(raw, extended, shift, caps) # Nul
              PROVE  ~ is_release(raw) /\ caps' = caps
          <5>1. ~ is_release(raw)
            BY <4>1 DEF ascii_of
          <5>2. key_of(raw, FALSE) # "CAPS_LOCK"
            BY <1>2, <1>7, <4>1
          <5> QED
            BY <1>1, <5>1, <5>2 DEF update_decoder
        <4> QED
          BY <1>1, <1>6, <2>1, <4>1 DEF CharactersAsTyped
      <3>1. ~ extended /\ ~ is_release(raw) /\ key_of(raw, FALSE) = "CHARACTER"
        BY <1>2, <1>7 DEF ascii_of
      <3>2. b.shifted <=> shift
        BY <1>3, <3>1 DEF legitimate, current, raw
      <3>3. ascii_of(raw, extended, shift, caps) = translate_ascii_scancode(raw, shift, caps)
        BY <3>1 DEF ascii_of
      <3>4. CASE raw \in letters
        <4>1. translate_ascii_scancode(raw, shift, caps)[1] =
                 IF shift # caps THEN "shifted" ELSE "plain"
          BY <3>4 DEF translate_ascii_scancode
        <4>2. b.shifted \in BOOLEAN /\ caps \in BOOLEAN /\ shift \in BOOLEAN
          BY <1>2, <1>4 DEF SentByte
        <4>3. (shift # caps) <=> (b.shifted # caps)
          BY <3>2, <4>2
        <4>4. translate_ascii_scancode(raw, shift, caps)[1] = "shifted" <=> shift # caps
          BY <4>1
        <4> QED
          BY <3>3, <3>4, <4>3, <4>4
      <3>5. CASE raw \notin letters
        <4>1. CASE shift
          <5>1. translate_ascii_scancode(raw, shift, caps)[1] = "shifted"
            BY <3>3, <3>5, <4>1 DEF translate_ascii_scancode, shifted_ascii_from_scancode
          <5> QED
            BY <3>2, <3>3, <3>5, <4>1, <5>1
        <4>2. CASE ~ shift
          <5>1. translate_ascii_scancode(raw, shift, caps)[1] = "plain"
            BY <3>5, <4>2 DEF translate_ascii_scancode, unshifted_ascii_from_scancode
          <5> QED
            BY <3>2, <3>3, <3>5, <4>2, <5>1
        <4> QED
          BY <4>1, <4>2
      <3> QED
        BY <3>4, <3>5
    <2> QED
      BY <1>1, <1>2, <1>4, <1>5, <1>6, <1>7, <1>9, <1>10, <2>1, <2>2, <2>3 DEF DecodingInv
  <1> QED
    BY <1>11, <1>12

\* At the start nothing is under way and no key is down.
LEMMA DecodingStart ==
    ASSUME DecodingInit
    PROVE  DecodingInv
  <1>1. /\ pending_extended = FALSE /\ left_shift_down = FALSE
        /\ right_shift_down = FALSE /\ caps_lock_on = FALSE
        /\ held = {} /\ wire = <<>> /\ emitted = NoEvent
        /\ sent = [byte |-> prefix, shifted |-> FALSE]
    BY DEF DecodingInit, DecoderInit
  <1>2. DecoderTypeOK /\ held \subseteq Keys
    BY <1>1 DEF DecoderTypeOK, decoder
  <1>3. wire \in Seq(SentByte) /\ Len(wire) <= WIRE_SIZE
    BY <1>1, KeyDecoderAssumption
  <1>4. sent \in SentByte
    BY <1>1 DEF SentByte, prefix
  <1>5. /\ emitted.key = "UNKNOWN" /\ emitted.scancode = 0
        /\ "UNKNOWN" \in KeyCode
    BY <1>1 DEF NoEvent, KeyEvent, KeyCode
  <1>6. current = settled /\ current \in State
    <2>1. current \in State /\ settled \in State
      <3>1. settled = shifts(held)
        BY DEF settled, shifts
      <3>2. current = [extended |-> FALSE, left |-> FALSE, right |-> FALSE]
        BY <1>1 DEF current
      <3> QED
        BY <3>1, <3>2, Shifts DEF State
    <2>2. current.left <=> settled.left
      BY <1>1 DEF current, settled
    <2>3. current.right <=> settled.right
      BY <1>1 DEF current, settled
    <2>4. current.extended <=> settled.extended
      BY <1>1 DEF current, settled
    <2> QED
      BY <2>1, <2>2, <2>3, <2>4, SameState
  <1>7. Reads(wire, current, settled)
    BY <1>1, <1>6, ReadsNothing
  <1>8. CharactersAsTyped /\ NoPhantomKey
    BY <1>1, <1>5 DEF CharactersAsTyped, NoPhantomKey
  <1> QED
    BY <1>2, <1>3, <1>4, <1>5, <1>7, <1>8 DEF DecodingInv

-----------------------------------------------------------------------------
(***************************************************************************)
(* The results.                                                            *)
(***************************************************************************)

\* However the keys go down, repeat and come up, and however late the bytes
\* are handled, DecodingInv holds: each byte under way will be read in the
\* state it was sent for.
THEOREM DecodingInvariant == DecodingSpec => []DecodingInv
  <1>1. ASSUME DecodingInv, [DecodingNext]_decodingVars
        PROVE  DecodingInv'
    <2>1. CASE KeyTyped
      BY <1>1, <2>1, KeyTypedKeeps
    <2>2. CASE handle_raw_scancode
      BY <1>1, <2>2, HandlerKeeps
    <2>3. CASE UNCHANGED decodingVars
      <3>1. UNCHANGED <<decoder, held, wire, emitted, sent>>
        BY <2>3 DEF decodingVars, keyboard
      <3>2. current' = current /\ settled' = settled
        BY <3>1 DEF current, settled, decoder
      <3>3. Reads(wire', current', settled')
        BY <1>1, <3>1, <3>2 DEF DecodingInv
      <3>4. Reads(wire, current, settled)'
        BY <3>3 DEF Reads, legitimate, after, modifier
      <3>5. DecoderTypeOK' /\ CharactersAsTyped' /\ NoPhantomKey'
        BY <1>1, <3>1
           DEF DecodingInv, DecoderTypeOK, decoder, CharactersAsTyped, NoPhantomKey
      <3> QED
        BY <1>1, <3>1, <3>4, <3>5 DEF DecodingInv
    <2> QED
      BY <1>1, <2>1, <2>2, <2>3 DEF DecodingNext
  <1> QED
    BY <1>1, DecodingStart, PTL DEF DecodingSpec

\* The decoder's state is made of booleans, and the events of the key codes
\* and scan codes of the program.
THEOREM DecodingTypeCorrect == DecodingSpec => []DecodingTypeOK
  <1>1. DecodingInv => DecodingTypeOK
    BY DEF DecodingInv, DecodingTypeOK
  <1> QED
    BY <1>1, DecodingInvariant, PTL

\* When every byte has been handled the driver's two shift flags are the
\* truth about the two keys, and no prefix is left over
\* (handle_raw_scancode in kernel/drivers/keyboard.cpp).
THEOREM ModifiersAreRight == DecodingSpec => []ModifiersTrackKeys
  <1>1. ASSUME DecodingInv, wire = <<>>
        PROVE  current = settled
    <2>1. PICK st \in Seq(State) : st[1] = current /\ st[Len(wire) + 1] = settled
      BY <1>1 DEF DecodingInv, Reads
    <2>2. Len(wire) + 1 = 1
      BY <1>1
    <2> QED
      BY <2>1, <2>2
  <1>2. ASSUME DecodingInv
        PROVE  ModifiersTrackKeys
    <2>1. SUFFICES ASSUME wire = <<>>
                   PROVE  /\ left_shift_down <=> LeftShift \in held
                          /\ right_shift_down <=> RightShift \in held
                          /\ ~ pending_extended
      BY DEF ModifiersTrackKeys
    <2>2. /\ current.left = settled.left /\ current.right = settled.right
          /\ current.extended = settled.extended
      BY <1>1, <1>2, <2>1
    <2>3. /\ left_shift_down = (LeftShift \in held)
          /\ right_shift_down = (RightShift \in held)
          /\ pending_extended = FALSE
      BY <2>2 DEF current, settled
    <2> QED
      BY <2>3
  <1> QED
    BY <1>2, DecodingInvariant, PTL

\* A character event carries the glyph that was meant when its key went
\* down, even when shift has been released since.
THEOREM CharactersAreAsTyped == DecodingSpec => []CharactersAsTyped
  <1>1. DecodingInv => CharactersAsTyped
    BY DEF DecodingInv
  <1> QED
    BY <1>1, DecodingInvariant, PTL

\* No event is about a key the keyboard does not have: the faked shifts stay
\* invisible.
THEOREM NoPhantomKeys == DecodingSpec => []NoPhantomKey
  <1>1. DecodingInv => NoPhantomKey
    BY DEF DecodingInv
  <1> QED
    BY <1>1, DecodingInvariant, PTL

=============================================================================
