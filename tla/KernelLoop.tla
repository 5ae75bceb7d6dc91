----------------------------- MODULE KernelLoop -----------------------------
(***************************************************************************)
(* kernel_main around the keyboard: the boot order, the main loop and the  *)
(* interrupts that break into it.                                          *)
(*                                                                         *)
(* KeyDecoder gives what a byte means, EventQueue the ring it ends up in   *)
(* and the steps of read_event, Pic the interrupt controllers.  Here are   *)
(* the processor (interrupt flag, vector table, hlt), the keyboard         *)
(* controller with its one-byte buffer, and the loop of kernel/main.cpp.   *)
(*                                                                         *)
(* The interrupt lines that are raised are 1, the keyboard, and 0, the     *)
(* timer, which the firmware leaves running and this kernel never serves.  *)
(***************************************************************************)
EXTENDS KeyDecoder, EventQueue, Pic

VARIABLES
    pc,              \* where kernel_main is
    context,         \* "main", or the step of the keyboard interrupt handler
    idt,             \* vector -> what the vector table has for it
    pic,             \* the interrupt controllers
    outbs,           \* how many of remap's writes are done
    output_buffer,   \* the byte at port 0x60, as a sequence of at most one
    line_ready,      \* the console holds a line for the shell
    late,            \* history: an event came in after read_event said no
    stale            \* history: a byte waited at port 0x60 when the first write
                     \* of pic::remap made the master forget its request

machine == <<idt, pic, outbs, output_buffer>>
loopVars == <<pc, context, machine, line_ready, late, stale>>
vars == <<queueVars, decoder, keyboard, loopVars>>

KEYBOARD_VECTOR == 33

\* The ring can hold whatever the decoder makes of the bytes.
EventsOfBytes ==
    {event_of(raw, extended, shift_down, caps) :
        raw \in Byte, extended \in BOOLEAN, shift_down \in BOOLEAN, caps \in BOOLEAN}

ASSUME KernelLoopAssumption == EventsOfBytes \subseteq Event

BootStep == {"idt", "remap", "keyboard", "sti"}
LoopStep == {"poll", "handle", "line", "execute", "hlt", "halted"}
AfterDrain == {"line", "execute", "hlt", "halted"}
Stopped == {"panicked", "trapped"}

LoopTypeOK ==
    /\ QueueTypeOK
    /\ DecoderTypeOK
    /\ held \subseteq Keys
    /\ Len(wire) <= WIRE_SIZE
    /\ pc \in BootStep \cup LoopStep \cup Stopped
    /\ context \in {"main", "read", "eoi", "return"}
    /\ idt \in [Vector -> {"none", "default", "keyboard"}]
    /\ ControllersOK(pic)
    /\ outbs \in 0 .. Len(remap)
    /\ Len(output_buffer) <= 1
    /\ {line_ready, late, stale} \subseteq BOOLEAN

\* kernel.asm enters kernel_main with interrupts off and no vector table.
LoopInit ==
    /\ interrupts_on = FALSE
    /\ QueueInit
    /\ DecoderInit
    /\ held = {} /\ wire = <<>>
    /\ pc = "idt"
    /\ context = "main"
    /\ idt = [v \in Vector |-> "none"]
    /\ pic = FirmwareControllers
    /\ outbs = 0
    /\ output_buffer = <<>>
    /\ line_ready = FALSE /\ late = FALSE /\ stale = FALSE

-----------------------------------------------------------------------------
(***************************************************************************)
(* The boot order of kernel_main.                                          *)
(***************************************************************************)

goto(from, to) == context = "main" /\ pc = from /\ pc' = to /\ UNCHANGED context

\* idt::initialize: every vector gets the default stub, which panics.
IdtInitialize ==
    /\ goto("idt", "remap")
    /\ idt' = [v \in Vector |-> "default"]
    /\ UNCHANGED <<queueVars, decoder, keyboard, pic, outbs, output_buffer,
                   line_ready, late, stale>>

\* pic::remap, a write at a time: initialisation forgets all requests, and a
\* line that is up already does not count as a request again.
PicRemap ==
    /\ goto("remap", IF outbs + 1 < Len(remap) THEN "remap" ELSE "keyboard")
    /\ pic' = outb(pic, remap[outbs + 1])
    /\ outbs' = outbs + 1
    /\ stale' = (stale \/ (outbs = 0 /\ output_buffer # <<>>))
    /\ UNCHANGED <<queueVars, decoder, keyboard, idt, output_buffer,
                   line_ready, late>>

KeyboardInitialize ==
    /\ goto("keyboard", "sti")
    /\ pending_extended' = FALSE
    /\ left_shift_down' = FALSE /\ right_shift_down' = FALSE
    /\ caps_lock_on' = FALSE
    /\ queue_head' = 0 /\ queue_tail' = 0 /\ queue_count' = 0
    /\ idt' = [idt EXCEPT ![KEYBOARD_VECTOR] = "keyboard"]
    /\ pic' = unmask_irq(pic, keyboard_irq)
    /\ UNCHANGED <<interrupts_on, event_queue, readerVars, keyboard,
                   outbs, output_buffer, line_ready, late, stale>>

EnableInterrupts ==
    /\ goto("sti", "poll")
    /\ interrupts_on' = TRUE
    /\ UNCHANGED <<ring, readerVars, decoder, keyboard, machine,
                   line_ready, late, stale>>

-----------------------------------------------------------------------------
(***************************************************************************)
(* The main loop.                                                          *)
(***************************************************************************)

\* while(read_event(event)): the call and the steps inside it.
CallRead ==
    /\ goto("poll", "poll")
    /\ CallReadEvent
    /\ UNCHANGED <<decoder, keyboard, machine, line_ready, late, stale>>

InsideRead ==
    /\ goto("poll", "poll")
    /\ \/ DisableInterrupts \/ CheckCount \/ CopyEvent
       \/ AdvanceHead \/ LoadCount \/ StoreCount
    /\ UNCHANGED <<decoder, keyboard, machine, line_ready, late, stale>>

ReadEventReturnsTrue ==
    /\ goto("poll", "handle")
    /\ ReturnTrue
    /\ UNCHANGED <<decoder, keyboard, machine, line_ready, late, stale>>

ReadEventReturnsFalse ==
    /\ goto("poll", "line")
    /\ ReturnFalse
    /\ late' = FALSE
    /\ UNCHANGED <<decoder, keyboard, machine, line_ready, stale>>

\* Faulty variant of handle_key_event: one event per round of the loop.
handle_one_key_event ==
    /\ goto("handle", "line")
    /\ line_ready' = (line_ready \/ (event.pressed /\ event.key = "ENTER"))
    /\ UNCHANGED <<queueVars, decoder, keyboard, machine, late, stale>>

\* console::handle_key_event, of which the loop sees that ENTER going down
\* completes a line.
handle_key_event ==
    /\ goto("handle", "poll")
    /\ line_ready' = (line_ready \/ (event.pressed /\ event.key = "ENTER"))
    /\ UNCHANGED <<queueVars, decoder, keyboard, machine, late, stale>>

\* Faulty variant of ReadLine: waits for a line.
ReadLineBlocking ==
    /\ \/ line_ready /\ goto("line", "execute")
       \/ ~ line_ready /\ goto("line", "line")
    /\ line_ready' = FALSE
    /\ UNCHANGED <<queueVars, decoder, keyboard, machine, late, stale>>

\* Faulty variant of ReadLine: takes the line and answers no.
ReadLineForgets ==
    /\ goto("line", "hlt")
    /\ line_ready' = FALSE
    /\ UNCHANGED <<queueVars, decoder, keyboard, machine, late, stale>>

\* if(read_line(command)).
ReadLine ==
    /\ \/ line_ready /\ goto("line", "execute")
       \/ ~ line_ready /\ goto("line", "hlt")
    /\ line_ready' = FALSE
    /\ UNCHANGED <<queueVars, decoder, keyboard, machine, late, stale>>

\* shell::execute_command returns, or is PANIC-TEST or IDT-TEST.
ExecuteCommand ==
    /\ goto("execute", "hlt") \/ goto("execute", "panicked")
    /\ UNCHANGED <<queueVars, decoder, keyboard, machine, line_ready, late, stale>>

\* panic turns interrupts off once it has written its message, and halts.
PanicStops ==
    /\ goto("panicked", "panicked")
    /\ interrupts_on' = FALSE
    /\ UNCHANGED <<ring, readerVars, decoder, keyboard, machine,
                   line_ready, late, stale>>

\* hlt stops the processor until the next interrupt.
Halt ==
    /\ goto("hlt", "halted")
    /\ UNCHANGED <<queueVars, decoder, keyboard, machine, line_ready, late, stale>>

Main ==
    \/ IdtInitialize \/ PicRemap \/ KeyboardInitialize \/ EnableInterrupts
    \/ CallRead \/ InsideRead \/ ReadEventReturnsTrue \/ ReadEventReturnsFalse
    \/ handle_key_event \/ ReadLine \/ ExecuteCommand
    \/ PanicStops \/ Halt

-----------------------------------------------------------------------------
(***************************************************************************)
(* Interrupts.                                                             *)
(***************************************************************************)

\* The master offers a request that is not masked, unless an interrupt of the
\* same or a higher priority (a lower number) is still in service.
Offered(irq) ==
    /\ irq \in pic["master"].requested
    /\ enabled_line(pic, "master", irq)
    /\ \A other \in pic["master"].in_service : irq < other

\* The processor takes an interrupt between two instructions, or out of hlt.
\* The gate turns interrupts off.  Only the keyboard's stub ever returns:
\* the default stub panics, and with no vector table the machine resets.
TakeInterrupt(irq) ==
    /\ interrupts_on
    /\ context = "main"
    /\ Offered(irq)
    /\ interrupts_on' = FALSE
    /\ pic' = [pic EXCEPT !["master"].requested = @ \ {irq},
                          !["master"].in_service = @ \cup {irq}]
    /\ IF idt[pic["master"].offset + irq] = "keyboard"
       THEN /\ context' = "read"
            /\ pc' = IF pc = "halted" THEN "poll" ELSE pc
       ELSE /\ UNCHANGED context
            /\ pc' = "trapped"
    /\ UNCHANGED <<ring, readerVars, decoder, keyboard, idt, outbs, output_buffer,
                   line_ready, late, stale>>

\* keyboard_interrupt_handler: inb and handle_raw_scancode.
HandleScancode ==
    /\ context = "read"
    /\ context' = "eoi"
    /\ LET raw == Head(output_buffer).byte
       IN  /\ update_decoder(raw)
           /\ IF decoded(raw) = NoEvent
              THEN UNCHANGED <<ring, late>>
              ELSE push_event(decoded(raw)) /\ late' = (late \/ pc \in AfterDrain)
    /\ output_buffer' = <<>>
    /\ UNCHANGED <<interrupts_on, readerVars, keyboard, pc, idt, pic,
                   outbs, line_ready, stale>>

\* Faulty variant of SendEoi: the EOI is missing.
SendEoiNot ==
    /\ context = "eoi"
    /\ context' = "return"
    /\ UNCHANGED <<queueVars, decoder, keyboard, pc, machine,
                   line_ready, late, stale>>

SendEoi ==
    /\ context = "eoi"
    /\ context' = "return"
    /\ pic' = send_eoi(pic)
    /\ UNCHANGED <<queueVars, decoder, keyboard, pc, idt, outbs, output_buffer,
                   line_ready, late, stale>>

\* iretq restores the flags, with interrupts on as they were when it came.
ReturnFromInterrupt ==
    /\ context = "return"
    /\ context' = "main"
    /\ interrupts_on' = TRUE
    /\ UNCHANGED <<ring, readerVars, decoder, keyboard, pc, machine,
                   line_ready, late, stale>>

Handler == HandleScancode \/ SendEoi \/ ReturnFromInterrupt

-----------------------------------------------------------------------------
(***************************************************************************)
(* The devices.                                                            *)
(***************************************************************************)

\* The keyboard controller puts the next byte where the handler reads it and
\* raises its line, masked or not.
ByteArrives ==
    /\ wire # <<>> /\ output_buffer = <<>>
    /\ output_buffer' = <<Head(wire)>>
    /\ wire' = Tail(wire)
    /\ pic' = [pic EXCEPT !["master"].requested = @ \cup {keyboard_irq}]
    /\ UNCHANGED <<queueVars, decoder, held, pc, context, idt, outbs,
                   line_ready, late, stale>>

TimerTicks ==
    /\ pic' = [pic EXCEPT !["master"].requested = @ \cup {timer}]
    /\ UNCHANGED <<queueVars, decoder, keyboard, pc, context, idt, outbs, output_buffer,
                   line_ready, late, stale>>

TypeKey == Type /\ UNCHANGED <<queueVars, decoder, loopVars>>

LoopNext ==
    \/ Main
    \/ \E irq \in {timer, keyboard_irq} : TakeInterrupt(irq)
    \/ Handler
    \/ ByteArrives \/ TimerTicks \/ TypeKey

(***************************************************************************)
(* The handler runs to its end, and the keyboard controller delivers.  An  *)
(* interrupt offered again and again, as the flag goes off and on, is      *)
(* taken in the end; and the main loop gets on although interrupts break   *)
(* into it again and again, since a keyboard is slower than a processor.   *)
(* Nobody has to type.                                                     *)
(***************************************************************************)
LoopSpec ==
    /\ LoopInit /\ [][LoopNext]_vars
    /\ WF_vars(Handler) /\ WF_vars(ByteArrives)
    /\ SF_vars(TakeInterrupt(keyboard_irq)) /\ SF_vars(Main)

-----------------------------------------------------------------------------
(***************************************************************************)
(* Properties.                                                             *)
(***************************************************************************)

\* No interrupt ever reaches a vector whose handler is not there: not during
\* boot, with the timer ticking and keys going down, and not later.  And no
\* device of either controller could: from the moment interrupts are on,
\* every line that is let through ends at a vector that has its handler.
NoUnexpectedInterrupt ==
    /\ pc # "trapped"
    /\ interrupts_on =>
          \A chip \in Chips : \A line \in Lines[chip] :
             enabled_line(pic, chip, line) =>
                idt[pic[chip].offset + line] = "keyboard"

\* Interrupts are on wherever the main loop may have to wait for one.
InReadEvent == reader \notin {"idle", "cli"}

InterruptsOnInLoop ==
    (pc \in LoopStep /\ context = "main" /\ ~ InReadEvent) => interrupts_on

\* The main loop drains the queue before it looks for a line or halts: the
\* only events it leaves behind came in after read_event found none.
NoEventForgotten ==
    (pc \in AfterDrain /\ queue_count > 0) => late

\* The handler only runs with a byte to read, and its interrupt is in
\* service until the EOI: the controller never gets out of step.
HandlerHasByte ==
    /\ context = "read" => output_buffer # <<>>
    /\ keyboard_irq \in pic["master"].in_service <=> context \in {"read", "eoi"}

\* Seen from the main loop the queue is a bounded FIFO, interrupts, boot
\* and all.
LoopImplementsEventFifo == Fifo!FifoSpec

\* Unless a byte was already waiting when remap started, every byte
\* the keyboard sends is handled as long as the kernel has not panicked.
BytesAreHandled ==
    (output_buffer # <<>> /\ pc \notin BootStep /\ ~ stale)
        ~> (output_buffer = <<>> \/ pc \in Stopped)

\* An event is read in the end if bytes keep coming.  The proviso is real:
\* an event that slips in between the last read_event and hlt waits for the
\* interrupt of a later byte.
EventsAreReadIfTyping ==
    []<>(<<ByteArrives>>_vars) =>
        (queue_count > 0 ~> (reader = "restore" \/ pc \in Stopped))

\* Once the user stops typing, a completed line is executed.
LinesAreExecuted ==
    (<>[](wire = <<>> /\ output_buffer = <<>>)) =>
        (line_ready ~> pc = "execute")

=============================================================================
