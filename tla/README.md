# SentinelOS in TLA+

SentinelOS is a small x86_64 kernel: a BIOS boot loader, a text console on the
VGA buffer, a PS/2 keyboard driver behind interrupt line 1, a physical memory
manager fed by the firmware's E820 map, and a shell whose commands exercise it.
There is one processor, one interrupt handler that returns, and no scheduler:
the concurrency is between the main loop of `kernel_main` and that handler. The
memory manager is sequential; what is hard there is the arithmetic of unaligned
regions and full tables, and two data structures that must agree.

Paths below are relative to `src/`.

1. [Inventory](#1-inventory)
2. [Modules and how they correspond to the code](#2-modules-and-how-they-correspond-to-the-code)
3. [What the runs check](#3-what-the-runs-check)
4. [Fairness](#4-fairness)
5. [What is proved](#5-what-is-proved)
6. [Where the code and its words disagree](#6-where-the-code-and-its-words-disagree)
7. [What is not modelled, and why](#7-what-is-not-modelled-and-why)
8. [Plan](#8-plan)

## 1. Inventory

| component | state it keeps | operations | talks to |
|---|---|---|---|
| Boot loader (`boot/bios/*.asm`, `kernel/kernel.asm`) | the memory map at 0x5000 | load the kernel, E820 loop, long mode | hands `BootInfo` to `kernel_main`, interrupts off |
| Main loop (`kernel/main.cpp`) | the program counter | boot order; drain events, run a command, `hlt` | calls everything below |
| IDT, PIC, stubs, panic (`kernel/arch/x86_64`, `kernel/core/panic.cpp`) | vector table; masks, requests and in-service bits of the 8259 | `idt::initialize`, `set_entry`, `pic::remap`, `mask_all`, `unmask_irq`, `send_eoi`, `panic` | the keyboard stub calls the driver; every other stub panics |
| Keyboard driver (`kernel/drivers/keyboard.cpp`) | prefix and modifier flags; the ring of 64 events | `handle_raw_scancode`, `push_event` (handler); `read_event` (main loop); `initialize` | handler → ring → main loop |
| Console (`kernel/core/console.cpp`) | line, cursor, history of 16, browsing, completed line, prompt position | `handle_key_event`, `read_line`, `print_prompt` | events in, lines out to the shell, cells out to the terminal |
| Terminal (`kernel/core/terminal.cpp`) | 80×25 cells, cursor, colour | `putchar`, `write`, `clear`, `set_cursor`, scrolling | VGA memory |
| Physical memory (`kernel/memory/physical_memory.cpp`, `page.cpp`) | tables of at most 32 usable and 32 reserved regions | `initialize`, `reserve_region` | reads `BootInfo`; read by the page allocator |
| Physical page allocator (`kernel/memory/physical_page_allocator.cpp`) | bitmap and metadata of 131072 pages | `initialize`, `allocate_page`, `allocate_contiguous_pages`, `free_page`, `free_contiguous_pages` | called by the shell |
| Shell (`kernel/core/shell.cpp`) | `last_test_page`, `last_contiguous_page`, `last_contiguous_count` | `execute_command`, one function per command | console line in; string library, allocator, heap, terminal |
| String library (`kernel/core/string.cpp`) | none | `parse_u64`, `substr`, comparisons, copies | called by shell and console |
| Kernel heap, logger | a flag; none | | |

Which behaviours are hard, and what makes each component correct (the full list,
line by line, is under `hazards` in `PROJECT.json`):

* **Boot loader.** The firmware may answer with empty, short or unsigned
  entries, more than there is room for, and end its list in two ways. Correct:
  the kernel is told the firmware's list, no entry mixed up with what another
  left in its slot, and the loop ends.
* **Event queue.** The handler may run between any two instructions of
  `read_event` that find interrupts on; the decrement of `queue_count` is a load
  and a store. Correct: the indices always agree, and the whole is a bounded
  FIFO that drops only what finds it full. Both exits of `read_event` restore
  the interrupt flag.
* **Main loop and interrupts.** Interrupts must not be let in before their
  handlers are there; the handler needs a byte, then an EOI, in that order; the
  loop must not halt on work it could have done. An event that comes in after
  the last `read_event` of a round and before `hlt` does stay in the queue until
  a later interrupt: the properties state exactly that proviso.
* **Decoder.** State (prefix, shifts, caps lock) is carried from byte to byte,
  the bytes are handled later than the keys move, and a PC keyboard fakes
  shifts around grey keys. Correct: modifiers follow the keys, characters are
  what the user meant, no key appears that was not pressed.
* **Console.** Characters are moved inside a fixed array up to a terminating 0,
  history and line change in different cases of one switch, and a redraw has to
  erase what a longer line left. Correct: it is a line editor, inside its
  bounds, and the screen shows it.
* **Physical memory.** Unaligned, overlapping, unordered entries; full tables.
  Correct: nothing but whole pages of RAM above 1 MiB, none lost, each once,
  every reservation kept.
* **Page allocator.** Bitmap, metadata and region table are three answers to one
  question; `free_page` accepts almost anything; 0 is an address and a failure.
  Correct: they agree, reserved pages never get out, no page is lost or handed
  out twice.
* **Command line.** A number is read digit by digit up to a terminating 0.
  Correct: a command runs with the number its argument denotes, or not at all;
  what the shell prints can be typed back.
* **Shell.** The only caller; only its handles keep it from freeing what it does
  not hold. Correct: what it frees it holds, nothing twice.

## 2. Modules and how they correspond to the code

```
Pages <- PhysicalMemory <- PageAllocator <- Shell ....> FramePool    (implements)
         PhysicalMemory <- BootMap
         PhysicalMemory <- PageLoops ....> PageAllocator             (implements)
Numbers <- CommandLine
KeyDecoder <- KeyDecoding
KeyDecoder, EventQueue, Pic <- KernelLoop ....> EventFifo            (implements)
            EventQueue               ....> EventFifo                 (implements)
Terminal <- Console ....> LineEditor                                 (implements)
```

`A <- B` means B EXTENDS A: memory, allocator and shell are one behaviour from
the firmware's map to the last command, and `KernelLoop` is the decoder and the
queue put under the processor and its interrupt controllers.

`PROJECT.json` maps every definition to the lines it stands for. Definitions
whose comment calls them a *faulty variant* are not part of any specification:
each is its neighbour with a plausible mistake in it, and is there to be put in
that neighbour's place to see that a property notices.

**Pages.** `page.cpp`. A u64 is a number below the constant `U64`, so that small
instances wrap where the kernel would. `add_u64` is the only addition.

**PhysicalMemory.** `physical_memory.cpp`. A region is its `[start, end)`: the
stored length is always the difference. `i` is the loop's index; one action per
way round the loop (`SkipEntry`, `AddRegion`, `EndScan`) and one per
`reserve_region` call. The addresses of the kernel image and of the boot
structures are linker symbols, so the calls are a constant list `Reservations`.
`NoMap` is a null `boot_info` or map: the code then returns before the
reservations too.

**BootMap.** `detect_memory_map` of `kernel/kernel.asm`, in front of
`PhysicalMemory`: the map the kernel scans is the one the loop has gathered.
A firmware is a list of answers with their size, signature and attributes, and
the way it ends its list; `ebx` is the index of the next answer. The buffer is
kept as the sequence of accepted entries, which `di` and the counter always
describe together, and, for all its slots, the attributes field: that is the
one part of a slot an answer may leave alone. What the field holds before the
loop is 0, which stands for anything the preset has to replace.

**PageAllocator.** `physical_page_allocator.cpp`. `initialize` is one action for
the two fills and one per region; `mark_used`, `mark_free`, `mark_reserved` are
the three marking loops, each of which touches a page at most once and so is a
function of the set of pages it covers. That set need not lie inside the arrays:
usable RAM goes on beyond the 512 MiB they track. `written` adds an element to
an array that is written outside its bounds, so that `TypeOK` says no such write
happens; where the code compares the index with `TOTAL_PAGES`, the model has
`tracked`, and where it does not, in the flagging of `mark_region_used`, it has
nothing. The searches go upwards from page 0 and
stop at the first fit, which is `Min(free_runs(n))`. `live` is a history
variable: what callers hold. In this module the callers may call anything with
any argument, an unaligned or a foreign address included. `mark_page_used` and
`mark_page_free` are in the header, but nothing outside the file calls them:
they are part of these actions.

**PageLoops.** The same file, with every round of every loop a step and the
bitmap the array of bytes it is, so that byte and bit index, the reset of the
counting loop, the marking loop after it, the fills with their two bounds and
the addresses of a run that wraps are all there. Nobody sees a loop half done:
no handler calls the allocator. So `committed`, a history variable, keeps the
state of the arrays when a loop, or a region's loop, ends; that is the abstract
bitmap, metadata and `live` of `PageAllocator`, which is INSTANCEd with it.

**CommandLine / Numbers.** `execute_command` up to the call of a command, and
`parse_u64` with one action per way round its loops. A line is the longest
command name it begins with and the characters after it: how letters compare is
left out, which of the two comparisons a command uses is not. A character is
its value as a digit, or x, blank, or another. `Numbers` has the digit loops of
`write_u64` and `write_hex` and what a numeral means, which is where the number
of nibbles of a u64 is a constant. `copied` is history: a number the shell
has shown that the user types back. `substr` copies the argument without a
bound: `ParseArgument` is a copy that fits the buffer, `OverrunArgument` one that
does not, after which the command may end in any way or not at all.

**Shell.** The four commands that change memory and the two that stop the
machine, with the handles of `shell.cpp`. A command runs to its end in the main
loop and no handler touches this state, so it is one action. `last_allocated` is
history.

**FramePool** is what the three together promise: frames that are fixed once
`initialize` returns, taken in runs of free ones, given back only if taken.

**KeyDecoder / KeyDecoding.** `handle_raw_scancode` with its tables and flags,
and, in the same module because the driver's correctness depends on it, the
part of a PC keyboard that drives it: make and break codes, repeat, the prefix,
and the shift codes faked around grey keys while the left shift is down. A
character is `<<form, scancode>>`, plain or shifted: the tables differ in nothing
else that a property could tell apart, except that the shifted one has no entry
for the space bar. `event_of` is the event a byte makes, which `KernelLoop` puts
into the ring; `KeyDecoderAssumption` says that no key has the code of the
prefix.

**EventQueue.** `push_event` is one action, since the handler runs with
interrupts off. `read_event` has one action per access to shared state
(`CallReadEvent` reads the flags, then `cli`, the test, the copy, the head, the
load and the store of the count, `popf`), although after a correct `cli` nothing
can come in between: that is what the runs and proofs establish, and what they
would refute without the `cli`. `Interrupt(e)` stands for the handler there.

**EventFifo** is the promise: a queue of at most `Size`, `Put` at one end, `Get`
from the other, an event lost only if full.

**Pic.** `pic.cpp` and the two 8259A chips it programs, as far as the kernel
uses them: a chip expects vector offset, cascade, mode or mask at its data port
by the place of the word after ICW1, forgets its requests and unmasks all lines
at ICW1, and ends the service with the highest priority at an end-of-interrupt.
Requests are edge-triggered. `remap` is the sequence of the code's writes. The
slave has one line, the disk's, which no action raises: what is checked is that
nothing would let it through.

**KernelLoop.** `pc` is where `kernel_main` is, `context` whether the handler is
on the processor and at which step. Boot has the four calls that matter to
interrupts in their order, with interrupts off and the timer, left running by
the firmware, already asking. `pic::remap` is a write at a time: interrupt
requests come in between. `TakeInterrupt` goes through the vector table; any
vector without the keyboard's handler ends in `"trapped"`, as the default stub's
panic does.
`ExecuteCommand` returns or panics; `PanicStops` is `panic`'s `cli`.

**Terminal.** A record of cells and cursor with `putchar`, `write`,
`set_cursor`, scrolling. Colours are left out.

**Console.** One action per key of `handle_key_event`, `read_line`, and the
execution of a command with the prompt after it. `command_buffer` is the array
with its loops up to the first 0, since that is where it can go wrong; the other
buffers are sequences; `line` is what the array holds. What a command prints is
a choice from a small set, or the screen cleared by CLEAR. Two history variables
say how far `ScreenShowsLine` reaches: `undisturbed`, that every line so far
fitted its row and no key was typed ahead of a prompt, and `zero_typed`, that
there has been a 0 in the line since the last ENTER.

**LineEditor** is the promise of the console, in terms of a line, a point, a
past and a draft. It ends where a 0 gets into the line (see section 6): from
there to the next ENTER it only keeps the bounds.

## 3. What the runs check

| run | instance | question | bounds, and why they are enough |
|---|---|---|---|
| `physical_memory` | `MCPhysicalMemory` | Is the kernel told what the firmware reports, for which maps do the two tables say what they should, and does it all end? | Pages of 4 bytes, 64 addresses, 1 MiB is 8. All pairs of 50 entries (5 bases, 5 lengths, 2 types: aligned, unaligned, empty, across and below the limit, overlapping) and all triples of 6 entries, against a table of 2. The kernel's loop looks at one entry at a time and properties relate two entries, so two suffice for rounding and overlap and three for a full table. The reservations are unaligned, aligned, repeated, empty and above the limit. The loader's loop has a buffer of 3 and every firmware of up to 4 answers of six kinds, ending in both ways: one more answer than there is room for, and an empty entry before, between and after others. |
| `page_allocator` | `MCPageAllocator` | Do bitmap, metadata, tables and callers' pages agree whatever is freed? | 8 pages in a memory of 16, 5 maps (a hole, RAM beyond the tracked pages, overlapping entries, a full table, nothing usable, no map), every address in 0..63 and every count up to one more than there are pages. |
| `page_loops` | `MCPageLoops` | Do the loops do what PageAllocator takes for one step? | 6 pages in 3 bytes of 2 bits, so that runs begin, end and cross at byte boundaries; one map with a hole and RAM beyond the tracked pages, and none, where page 0 can become free; callers free from any kind of address in runs of up to 7, which wrap in a u64 of 32 values. |
| `command_line` | `MCCommandLine` | Does a command run with the number that was typed? | u64s of 3 hexadecimal digits. Every command with four kinds of rest; all arguments of up to 4 characters of 7 kinds; numerals of 4 and 5 digits with and without prefix around the largest number, 4095; each of the 4096 numbers as the shell prints it; and numbers behind so many blanks or zeros that the argument just fits its buffer of 10, or is one or two characters too long for it. The loops keep no more state than the position, the value and one flag. |
| `shell` | `MCShell` | Does the shell free only what it holds? Is the chain a FramePool? | The same pages with 4 maps; enough for a single page and runs side by side, fragmentation, and failure of both kinds of allocation. |
| `shell_free_page_help` | `MCShell` | The help text of FREE-PAGE (violated). | As above. |
| `key_decoding` | `MCKeyDecoding` | Do modifiers and characters follow the keys? | Six keys: a letter, a digit, both shifts, caps lock and a grey key. Up to 4 bytes late, which is the longest sequence one key sends, so that a full fake-shift sequence is under way while other keys have moved. |
| `shifted_space` | `MCKeyDecoding` | Does every printable key make a character (violated). | Space and left shift. |
| `event_queue` | `MCEventQueue` | Is the ring a FIFO with interrupts at every instruction? | 3 slots, 3 events, one the zero event: wraps at every offset, fills, and tells any reordering from the right order. |
| `kernel_loop` | `MCKernelLoop` | Boot write by write to the controllers, loop, handler, timer and keyboard together. | Two keys (one is ENTER), one byte on the wire and one in the controller, a ring of 2: it fills while the loop is busy and wraps. |
| `kernel_loop_live` | `MCKernelLoop` | Is every byte handled, every event read, every line executed? | One key, ENTER; as above. Every byte is then part of a line, the case the properties are about. |
| `console` | `MCConsole` | Is the console a line editor, and is it on the screen? | Lines of 2 characters, history of 2, a screen of 2 rows of 4: with its prompt of one column a line always ends before its row does, the case `ScreenShowsLine` is about; prompts and output make the screen scroll. Two characters and the 0. A line that reaches the end of its row or goes on in the next is not in this run; the proofs cover lines, rows and prompts of every size. |

What they show, property by property, is in the comment above each definition.
The ones to read first: `ReservedNeverFree`, `PagesAccountedFor`,
`ImplementsFramePool`, `RingConsistent`, `ImplementsEventFifo`,
`NoUnexpectedInterrupt`, `NoEventForgotten`, `EventsAreReadIfTyping`,
`ModifiersTrackKeys`, `ScreenShowsLine`, `ImplementsLineEditor`,
`ImplementsPageAllocator`, `ArgumentIsTheNumber`, `MapIsFirmwareList`.

`CHECK_DEADLOCK FALSE` stands in `MCPhysicalMemory.cfg`, where `initialize`
returns and nothing follows, in `MCCommandLine.cfg`, where one line is executed,
and in the two configurations of the shell, where a panic stops the machine.

No run uses a symmetry set or a state constraint. The bounds in the modules
themselves are `WIRE_SIZE` (bytes a keyboard has sent and nobody has taken),
`PageCounts` and `Counts` (page counts callers ask for), `Firmwares` and `Lines`.

## 4. Fairness

`BootMap` has `WF` of its next-state relation: straight-line code on one
processor, in real mode with a BIOS call that returns and then in the kernel
with interrupts off, keeps running. `KernelLoop` states:

* `WF(Handler)`: with interrupts off nothing can keep the handler from its next
  instruction.
* `WF(ByteArrives)`: the keyboard controller delivers the next byte once the
  last one was read.
* `SF(TakeInterrupt(keyboard_irq))`: `read_event` turns interrupts off and on
  for ever, so a pending interrupt is enabled again and again but not always;
  the processor looks for one at each instruction boundary, and the windows in
  the loop are many instructions long.
* `SF(Main)`: interrupts break into the main loop, at the pace of a keyboard,
  which leaves the loop millions of instructions between two bytes.

The user and the timer have none: nobody has to type. `EventsAreReadIfTyping`
and `LinesAreExecuted` carry the assumption about typing they need in the
formula. The first needs bytes to keep coming because of the event that slips in
before `hlt`; the second needs them to stop for a while because the loop drains
the queue before it looks at a line. `BytesAreHandled` leaves out a byte that
was waiting at port 0x60 when the first write of `pic::remap` made the master
forget its request (`stale`): the
driver never reads the port at initialisation, and such a byte stays.

## 5. What is proved

The theorems hold for every value of the constants that meets the assumptions of
their modules; the runs evaluate these on their instances. The assumptions that
are more than typing:

* `PhysicalMemoryAssumption`: a physical address stays far enough below `U64`
  that neither `base_addr + length` nor rounding up to a page wraps (`MAX_RAM`);
  the table of reserved regions holds all the calls `initialize` makes, and one
  of them is `[0, 1 MiB)`, as in the code;
* `PageAllocatorAssumption`: every reservation is below the 512 MiB that are
  tracked, because `mark_region_used` writes the metadata without a bounds
  check; `PageLoopsAssumption` says the same, that the bitmap is whole bytes, and
  what the callers' addresses and counts may be;
* `KeyDecoderAssumption`: no key has the scan code 0, which the decoder has no
  key for, or the one that with the release bit is the prefix `E0`;
* `KernelLoopAssumption`: the ring can hold what the decoder makes of any byte;
* `BootMapAssumption`: the maps the kernel may be handed (`MemoryMaps`, which
  `PhysicalMemoryAssumption` is about) include every sequence of a firmware's
  entries that fits the buffer;
* `CommandLineAssumption`: the longest number the shell prints, with a blank
  before it, fits the buffer of 64 characters that `substr` copies an argument
  to; a line may be longer; `NumbersAssumption`: a u64 has some number of nibbles;
* `ConsoleAssumption`: what is typed, other than the 0, and what is printed is
  made of glyphs, with line ends in what commands print but not in the prompt.

| module | theorems | argument |
|---|---|---|
| `PhysicalMemoryProofs` | `MemTypeCorrect`, `UsableRegionsAreRam`, `UsableRegionsAreExclusive`, `NoUsablePageLost`, `ReservationsAreKept` | The properties speak of the finished tables, so the invariant `MemInv` says what holds after each prefix of the map: each region kept comes from an entry already seen, and each whole usable page of an entry already seen is in a region, unless the table is full. Its lemmas are the page arithmetic: rounding up or down lands on a page boundary and skips none. |
| `BootMapProofs` | `FirmwareListIsHandedOver`, `BootBuildsTheTables` | `LoaderInv` says what is true between two calls of int 0x15 (`Asking`): the answers so far could all be believed and the buffer holds what they reported (`Gathered`). Which answer an entry came from is the witness of `MapIsFirmwareList`, extended by one with each entry kept; each slot's attributes are settled before the next one is used. Until the hand-over the kernel is in an initial state of `MemSpec`; from then on its steps are those of `MemSpec` on a map that may be handed over, so that `MemInv` goes on to hold. |
| `PageAllocatorProofs` | `TypeCorrect`, `BitmapAlwaysMatches`, `ReservedPagesStayReserved`, `PagesAreAccountedFor`, `PageZeroIsNeverAllocated` | `AllocInv` follows `initialize` region by region: those before the current one are free (`FreedSoFar`), later flagged (`FlaggedSoFar`). It speaks of the flag in the metadata, which is what stops `mark_page_free`, and only in the end of the table. It needs `ReservationsAreKept` for page 0, and it needs to know that without a map there is no usable page to lose. `TypeCorrect` is that no write leaves the arrays: pages to free pass the check of `mark_page_free`, and those of a reservation, which `mark_region_used` flags unchecked, are tracked because the reservations, rounded outward (`ReservedWithin`), end below `MAX_PHYSICAL_MEMORY`. |
| `PageLoopsProofs` | `LoopsImplementPageAllocator`, `ArraysAreAccountedFor` | `LoopsInv` says of each loop what it has done to the arrays since the last step of `PageAllocator`: the pages it has passed are marked as the whole call will mark them, and no others (`MarkedUsed`, `MarkedReserved`, `MarkedFree`). `mark_page_free` does nothing to a page it has already freed, so what is freed by a set of pages is the set of those that could be freed before the loop (`cleared`). `CountInv` says that the run being counted is as long as it can be and that no run before it is long enough, from which the run found is the lowest, `Min(free_runs(n))`. The lemmas are about bytes and bits (`BitWritten`: writing one bit changes no other page's), page boundaries, and an address that wraps once. The second theorem brings the theorems about `PageAllocator` back to the arrays: between two calls each bit, its metadata, the region tables and what callers hold agree. |
| `ShellProofs` | `ShellTypeCorrect`, `HandlesAreHeld`, `ShellImplementsFramePool` | `ShellInv` adds the handles, and that a kernel without a memory map has no page at all: there page 0 is not reserved, and an allocation of it would look like a failure. Each command has an effect lemma: a run moves from free to live, or a part of a handle's pages moves back. The refinement is read off these: boot is a stutter up to `AllReservedMarked`, which is `Open`. |
| `KeyboardProofs`, the ring | `QueueTypeCorrect`, `RingIsConsistent`, `RingImplementsFifo` | `QueueInv` adds to `RingConsistent` that the saved flag is on whenever the reader will restore it. For the refinement, the abstract queue is the slots from the head on, as they will be once the step in progress is over; the lemmas are about `%`: stepping an index and counting from it commute, and slots less than a ring apart differ. The step lemmas are about actions, not about `EventQueue`'s specification, and are used again below. |
| `KeyboardProofs`, the loop | `LoopTypeCorrect`, `NoUnexpectedInterrupts`, `InterruptsStayOn`, `NoEventIsForgotten`, `HandlerAlwaysHasByte`, `LoopImplementsFifo` | `LoopInv` is the ring's invariant and six parts around it. `BootInv`: nothing breaks into the boot before `sti`. `FlagInv`: in the loop interrupts are off inside `read_event` and in the handler only, and never in both. `DrainInv`: `read_event`'s answer "no" is true until interrupts are on again. `PicInv`: after each write of `remap` each chip expects the word that comes next (`expected`), and a line is let through only once its vector has a handler. `RequestInv`: a request of the keyboard stands for a byte no handler is about to read. None of them is inductive alone: that the handler finds a byte rests on the controller, which was set up during the boot, which no interrupt disturbed. |
| `KeyboardProofs`, the decoder | `DecodingTypeCorrect`, `ModifiersAreRight`, `CharactersAreAsTyped`, `NoPhantomKeys` | The properties speak of an empty wire or of the byte just handled; the invariant `DecodingInv` has to speak of all bytes under way. It reads the wire ahead (`Reads`): there are decoder states, one before each byte and one after the last, such that each byte leads from one to the next, is legitimate where it will be read (a character finds the shifts it was typed under, an event is about a key) and the last agrees with the keys held. Handling a byte drops the first state; a key appends the bytes it sends, and the lemmas say that each of the sequences a key can send, with its faked shifts, reads from where the keyboard was to where it is. |
| `ConsoleProofs` | `ConsoleTypeCorrect`, `LineIsTerminated`, `HistoryIsShown`, `LineIsOnScreen`, `ConsoleIsLineEditor` | `EditorInv` says that the array holds a line with the cursor in it (`Holds`); the lemmas `Typed`, `Taken`, `Copied` show that the loops over the array insert, remove and replace in the sequence, provided they do not meet a 0 early, and `GarbledStep` that otherwise the bounds still hold. `DisplayInv` relates every cell from the prompt on to the array, also the cells below the line: a new line moves there and expects them blank, after scrolling too. It follows the screen while a command prints (`Clean`), since the next prompt is written over that. `Redrawn` says what a redraw leaves in each cell. |
| `CommandLineProofs` | `CommandTypeCorrect`, `ArgumentsAreTheirNumbers`, `PrintedNumbersAreReadBack` | `CommandInv` says where `parse_u64` is in the argument: its word begins after nothing but blanks (`WordFrom`), the base is the one its prefix gives (`BaseOf`), and the value is that of the digits passed (`ReadUpTo`), also while the blanks behind them are skipped (`EndInv`). `Horner`, `PlaceValueAppend`: the sum of digits times powers grows by one digit as the loop's value does. Accepting is right by `Decided`. Refusing at once is right because of what may still follow: `StrayCharacter`, that a wrong character stays one, a blank inside the word included, and `TooLarge`, that a number too large gets no smaller by more digits, where the comparison `value > (max - digit) / base` is shown to be exact. For the way back, `DecimalDigits` and `WriteHex` say what the digit loops print denotes; of the latter, that the nibbles passed are those of the number shifted right, and that only zeros at the front are left out. `CommandTypeCorrect` holds for lines of every length: the index goes on only over a character that is there, so it never passes the null character that ends the argument. The other two need `rest_fits`, the second because the numbers the shell prints do fit. |

`MemInvariant`, `BootInvariant`, `AllocInvariant`, `LoopsInvariant`, `ShellInvariant`,
`QueueInvariant`, `LoopInvariant`, `DecodingInvariant`, `ConsoleInvariant` and
`CommandInvariant` are the inductive invariants themselves.

**A premise that the bounds of the run had hidden.** `ScreenShowsLine` used to
leave aside only lines with a 0 in them. Its proof fails for a line that no
longer has one: a redraw writes the line up to the 0 and then blanks as many
cells as the line has become shorter, counted from there
(`redraw_current_line`, `kernel/core/console.cpp:287`). So what stood behind the
0 stays on the screen, and stays when the 0 is deleted again. With lines of two
characters there is no room for that; with three TLC finds it. The property now
says `~ zero_typed`. The 0 itself comes from shift and space (section 6).

**Induction over data.** The induction theorems of the library take an operator
as a parameter, which the provers cannot instantiate. What is needed of them is
had from `SmallestNumber`: a set of numbers that is not empty has a smallest
one, and the smallest number for which something fails is neither 0 nor one more
than a number for which it fails. `Written` of `ConsoleProofs` proves with it
that writing a text is one `putchar` after the other, which is what the fold in
`write` comes to; the lemmas about where a text ends up on the screen follow in
the same way. `CommandLineProofs` states the two forms of induction it needs for
sets (`Induction`, `StrongInduction`), and `Recursion`: a function that is given
at 0, and elsewhere by what a function `next` makes of its value at a smaller
number, exists. That is what lets a recursive definition be unfolded, so that
`Power`, the sum in `PlaceValue` and the digit loops of `write_u64` and
`write_hex` are proved about as `Numbers` defines them. `Power` is there because
the provers know nothing of `^`.

Only model-checked: liveness (`KernelLoop`, `BootMap`), which is out of reach of
the prover. Every invariant and every refinement that a passing run checks is
also a theorem. `FreePageFreesLastAllocated` and
`CharacterEventsCarryCharacters` are refuted, not proved.

## 6. Where the code and its words disagree

* `shell_free_page_help`: the help says FREE-PAGE "Frees the last allocated test
  page" (`kernel/core/shell.cpp:138`). `execute_alloc_page` stores the
  allocator's answer before looking at it (line 189), so a failed ALLOC-PAGE
  drops the handle of the last page, which stays allocated for ever.
* `shifted_space`: the driver lists space among the printable keys
  (`kernel/drivers/keyboard.cpp:124`), yet the table of shifted characters has
  no case for it (line 251), and shift with space makes a CHARACTER event with
  the character 0. The console inserts it as the end of its line: the model
  keeps that, `Char` has the 0, and `LineTerminated` shows the buffers survive.
* Without a run of its own: the help says PAGE-INFO prints "information regarding
  the page at a specified address" (`kernel/core/shell.cpp:141`). The rest of the
  line is copied to `char argStr[64]` (lines 86 and 101) by `substr`, which stops
  only at the end of the line (`kernel/core/string.cpp:206`), and a line has up
  to 127 characters. An argument of 64 or more, blanks and leading zeros
  included, is written beyond the buffer, and what the command does is undefined.
  The model has this as `OverrunArgument`, whose outcome is any; so nothing can be
  promised of those lines, and `ArgumentIsTheNumber` is about the others.

## 7. What is not modelled, and why

* **Kernel heap**: a stub that sets one flag.
* **String library**, but for `parse_u64`, `substr`, `length`, `copy` and the
  comparisons in the places that use them: searching, reversing and filling are
  pure functions with no property beyond their own loop. What an argument too long
  for its buffer overwrites is not modelled: `OverrunArgument` allows anything.
* **Logger, colours, what the printing commands print**: output only. `write_i64`
  and `backspace` are never called.
* **Boot sector, second stage and mode switch**: straight-line assembly around
  the BIOS and the processor's tables, with one way through; what it leaves
  behind is the initial state of `KernelLoop`. `.bss` is assumed to be zero.
* **Interrupt lines but timer and keyboard**: no modelled device raises them;
  `NoUnexpectedInterrupt` shows that the disk's is not let through.
  `pic::mask_irq` is never called.
* **`kernel/arch/x86_64/interrupts.cpp`**: no stub calls it.
* **Spurious and non-maskable interrupts, exceptions**: all end in `panic`,
  which the models have once.
* **Three setters of the console** that no header declares and nothing calls.
* **Empty files** under `boot/arch/x86_64`.

## 8. Plan

Done, in the order of what matters most: memory and allocator with their proofs;
shell and FramePool; event queue and EventFifo; decoder; main loop with
interrupts and liveness; console, terminal and LineEditor; the loader's memory
map; the command line; the allocator's loops; the interrupt controllers write by
write.

Proved since: `KernelLoop` with its refinement, the decoder, the console with its
screen and its refinement, the loader with the tables built from its map, that
the allocator's loops implement the allocator, and the command line with the
numbers it reads and the terminal prints.

One model is left that would pay: the console inside `KernelLoop`, so that
bytes, events and lines are one behaviour. The queue's and the console's own
refinements already meet at the event, so it would find what lies between them,
keys typed ahead of a prompt.
