------------------------------ MODULE BootMap ------------------------------
(***************************************************************************)
(* How the memory map gets from the firmware to the kernel: the E820 loop  *)
(* of detect_memory_map (kernel/kernel.asm), run in real mode before the   *)
(* kernel, in front of PhysicalMemory.                                     *)
(*                                                                         *)
(* Each call of int 0x15 passes the continuation value ebx of the previous *)
(* one, 0 asking for the first entry, and the firmware stores its answer   *)
(* in the 24-byte slot at di.  di and e820_entry_count advance together,   *)
(* so the slot is the one after the entries kept so far and memory_map is  *)
(* the sequence of those entries.                                          *)
(***************************************************************************)
EXTENDS PhysicalMemory, SequencesExt

CONSTANTS
    MAX_E820_ENTRIES,   \* room in the buffer at 0x5000 (32 entries)
    Firmwares           \* the firmwares the machine may have

\* The sizes of an answer: a full entry, one that leaves the attributes
\* field alone, and one that is too short.
E820_ENTRY_SIZE == 24
SHORT_ENTRY_SIZE == 20
TRUNCATED_SIZE == 16

Attributes == {0, 1}

(***************************************************************************)
(* A firmware answers with the entries of its list in order.  It reports   *)
(* the end with ebx = 0 in the last answer, or with the carry flag in the  *)
(* call after it.  smap: eax holds the SMAP signature.  size: ecx.         *)
(***************************************************************************)
Reply == [entry: Entry, attributes: Attributes, smap: BOOLEAN,
          size: {TRUNCATED_SIZE, SHORT_ENTRY_SIZE, E820_ENTRY_SIZE}]
Firmware == [replies: Seq(Reply), ends_with: {"ebx", "carry"}]

\* MemoryMaps has every map the loader could gather from a firmware's answers.
ASSUME BootMapAssumption ==
    /\ MAX_E820_ENTRIES \in Nat \ {0}
    /\ \A f \in Firmwares :
          /\ f \in Firmware
          /\ BoundedSeq({f.replies[k].entry : k \in DOMAIN f.replies},
                        Min({Len(f.replies), MAX_E820_ENTRIES})) \subseteq MemoryMaps

VARIABLES
    firmware,     \* never changes
    loader,       \* "asking" until BootInfo is written, then "done"
    ebx,          \* continuation value of the next call
    attributes    \* the attributes field of every slot of the buffer

loaderVars == <<firmware, loader, ebx, attributes>>
bootVars == <<memVars, loaderVars>>

\* What the buffer holds before the loop is whatever was at 0x5000: zero
\* stands for any value the preset has to replace.
BootInit ==
    /\ firmware \in Firmwares
    /\ loader = "asking"
    /\ ebx = 0
    /\ attributes = [k \in 1 .. MAX_E820_ENTRIES |-> 0]
    /\ memory_map = <<>>
    /\ step = "scan"
    /\ i = 1
    /\ usable_regions = <<>>
    /\ reserved_regions = <<>>

-----------------------------------------------------------------------------
(***************************************************************************)
(* int 0x15, eax = 0xE820.                                                 *)
(***************************************************************************)

carry == ebx >= Len(firmware.replies)

reply == firmware.replies[ebx + 1]

\* The value of ebx after the call.
continuation ==
    IF ebx + 1 = Len(firmware.replies) /\ firmware.ends_with = "ebx"
    THEN 0 ELSE ebx + 1

-----------------------------------------------------------------------------
(***************************************************************************)
(* The loop.                                                               *)
(***************************************************************************)

\* Faulty variant of e820_table_full: one entry more than there is room for.
e820_table_full_late == Len(memory_map) > MAX_E820_ENTRIES

e820_table_full == Len(memory_map) >= MAX_E820_ENTRIES

accepted == reply.smap /\ reply.size >= SHORT_ENTRY_SIZE

\* The slot at di.
slot == Len(memory_map) + 1

\* Faulty variant of slot_attributes: the field is not preset for each call.
slot_attributes_not_preset ==
    IF reply.size = E820_ENTRY_SIZE THEN reply.attributes ELSE attributes[slot]

\* The attributes field after the call: preset to 1, which stays when the
\* firmware returns no more than 20 bytes.
slot_attributes ==
    IF reply.size = E820_ENTRY_SIZE THEN reply.attributes ELSE 1

\* Faulty variant of after_reply: ebx is not tested.
after_reply_untested == "asking"

\* test ebx, ebx; jne .e820_next_entry
after_reply == IF continuation = 0 THEN "done" ELSE "asking"

BufferFull ==
    /\ loader = "asking"
    /\ e820_table_full
    /\ loader' = "done"
    /\ UNCHANGED <<memVars, firmware, ebx, attributes>>

\* The firmware refuses, is not an E820 firmware or returns too little:
\* .e820_done, with something left in the slot.
StopAsking ==
    /\ loader = "asking"
    /\ ~ e820_table_full
    /\ \/ carry /\ attributes' = [attributes EXCEPT ![slot] = 1]
       \/ ~ carry /\ ~ accepted
                  /\ attributes' = [attributes EXCEPT ![slot] = slot_attributes]
    /\ loader' = "done"
    /\ UNCHANGED <<memVars, firmware, ebx>>

\* One answer.  An entry of length 0 is not kept: the next call reuses its
\* slot.
NextReply ==
    /\ loader = "asking"
    /\ ~ e820_table_full /\ ~ carry /\ accepted
    /\ attributes' = [attributes EXCEPT ![slot] = slot_attributes]
    /\ memory_map' = IF reply.entry.length = 0 THEN memory_map
                                               ELSE Append(memory_map, reply.entry)
    /\ ebx' = continuation
    /\ loader' = after_reply
    /\ UNCHANGED <<firmware, step, i, usable_regions, reserved_regions>>

\* memory::initialize runs in the kernel, after the loader.
KernelStep ==
    /\ loader = "done"
    /\ MemNext
    /\ UNCHANGED loaderVars

BootNext == BufferFull \/ StopAsking \/ NextReply \/ KernelStep

\* Straight-line code on one processor: it keeps running.
BootSpec == BootInit /\ [][BootNext]_bootVars /\ WF_bootVars(BootNext)

-----------------------------------------------------------------------------
(***************************************************************************)
(* Properties.                                                             *)
(***************************************************************************)

\* The answers that describe any memory, up to the first one the loader must
\* not believe.
Believable(r) == r.smap /\ r.size # TRUNCATED_SIZE

Reported == {k \in DOMAIN firmware.replies :
                /\ firmware.replies[k].entry.length # 0
                /\ \A j \in 1 .. k : Believable(firmware.replies[j])}

\* What the kernel should find in the slot of a reply.
AsReported(k, r) ==
    /\ memory_map[k] = r.entry
    /\ attributes[k] = IF r.size = SHORT_ENTRY_SIZE THEN 1 ELSE r.attributes

\* At the hand-over, and from then on, the buffer has the entries that were
\* reported, as many as there is room for, in the firmware's order, each
\* with the attributes the firmware gave it or 1 when it gave none: no entry
\* is lost, repeated or taken from a slot that a skipped entry left behind,
\* however the firmware ends its list.
MapIsFirmwareList ==
    loader = "done" =>
      /\ Len(memory_map) <= MAX_E820_ENTRIES
      /\ \E place \in [DOMAIN memory_map -> Reported] :
            /\ \A j, k \in DOMAIN memory_map : j < k => place[j] < place[k]
            /\ \A k \in DOMAIN memory_map : AsReported(k, firmware.replies[place[k]])
            /\ \A m \in Reported \ Range(place) :
                  /\ Len(memory_map) = MAX_E820_ENTRIES
                  /\ \A k \in DOMAIN memory_map : place[k] < m

\* The machine boots: whatever the firmware answers, the loader stops asking
\* and memory::initialize returns.
MemoryGetsReady == <>(step = "ready")

=============================================================================
