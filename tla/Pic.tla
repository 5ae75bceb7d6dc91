-------------------------------- MODULE Pic --------------------------------
(***************************************************************************)
(* The interrupt controllers (kernel/arch/x86_64/pic.cpp): two 8259A, the  *)
(* slave behind line 2 of the master, and the writes to their ports with   *)
(* which the kernel programs them.                                         *)
(*                                                                         *)
(* A chip listens at a command and a data port.  The first initialisation  *)
(* word, at the command port, starts a sequence in which the next three    *)
(* data words are the vector offset, the cascade and the mode; afterwards  *)
(* a data word is the mask.  Here a mask is the set of masked lines.       *)
(***************************************************************************)
EXTENDS FiniteSetsExt, Sequences

\* The lines with a device that matters, by their number on their chip.
timer == 0
keyboard_irq == 1
cascade == 2
disk == 6                \* line 14 of the machine

Lines == [master |-> {timer, keyboard_irq, cascade}, slave |-> {disk}]
Chips == DOMAIN Lines

\* Vectors of line 0 of each chip, as the firmware leaves them and after
\* remap.
FirmwareOffset == [master |-> 8, slave |-> 112]
MASTER_OFFSET == 32
SLAVE_OFFSET == 40

Vector ==
    {FirmwareOffset[c] + line : c \in Chips, line \in {timer, keyboard_irq, cascade, disk}}
    \cup {MASTER_OFFSET + line : line \in Lines.master}
    \cup {SLAVE_OFFSET + line : line \in Lines.slave}

ControllersOK(pic) ==
    /\ DOMAIN pic = Chips
    /\ \A c \in Chips :
          /\ pic[c].offset \in {FirmwareOffset[c], MASTER_OFFSET, SLAVE_OFFSET}
          /\ pic[c].masked \subseteq Lines[c]
          /\ pic[c].requested \subseteq Lines[c]
          /\ pic[c].in_service \subseteq Lines[c]
          /\ pic[c].expects \in {"offset", "cascade", "mode", "mask"}

\* The firmware has used them, with nothing masked.
FirmwareControllers ==
    [c \in Chips |-> [offset |-> FirmwareOffset[c], masked |-> {},
                      requested |-> {}, in_service |-> {}, expects |-> "mask"]]

-----------------------------------------------------------------------------
(***************************************************************************)
(* The chips: what a word does.                                            *)
(***************************************************************************)

\* ICW1: all requests are forgotten and nothing is masked.
initialised(chip) ==
    [chip EXCEPT !.masked = {}, !.requested = {}, !.in_service = {},
                 !.expects = "offset"]

\* The end-of-interrupt command ends the service with the highest priority.
after_eoi(chip) ==
    [chip EXCEPT !.in_service = IF @ = {} THEN @ ELSE @ \ {Min(@)}]

after_data(chip, value) ==
    CASE chip.expects = "offset"  -> [chip EXCEPT !.offset = value,
                                                  !.expects = "cascade"]
      [] chip.expects = "cascade" -> [chip EXCEPT !.expects = "mode"]
      [] chip.expects = "mode"    -> [chip EXCEPT !.expects = "mask"]
      [] chip.expects = "mask"    -> [chip EXCEPT !.masked = value]

\* outb(port, value): the controllers after a write of the kernel.
outb(pic, write) ==
    [pic EXCEPT ![write.chip] =
        CASE write.port = "data"                         -> after_data(@, write.value)
          [] write.port = "command" /\ write.value = 17  -> initialised(@)
          [] write.port = "command" /\ write.value = 32  -> after_eoi(@)]

\* A line of either chip reaches the processor unless it is masked, or its
\* chip is being initialised, or the cascade is.
enabled_line(pic, chip, line) ==
    /\ pic[chip].expects = "mask" /\ line \notin pic[chip].masked
    /\ chip = "slave" => /\ pic["master"].expects = "mask"
                         /\ cascade \notin pic["master"].masked

-----------------------------------------------------------------------------
(***************************************************************************)
(* The kernel's writes.                                                    *)
(***************************************************************************)

command(chip, value) == [chip |-> chip, port |-> "command", value |-> value]
data(chip, value) == [chip |-> chip, port |-> "data", value |-> value]

ICW1 == 17      \* ICW1_INIT | ICW1_ICW4
PIC_EOI == 32

mask_all == << data("master", Lines.master), data("slave", Lines.slave) >>

icws ==
    << command("master", ICW1), command("slave", ICW1),
       data("master", MASTER_OFFSET), data("slave", SLAVE_OFFSET),
       data("master", 4), data("slave", 2),      \* the cascade is line 2
       data("master", 1), data("slave", 1) >>    \* ICW4_8086

\* Faulty variant of remap: it does not end with mask_all.
remap_unmasked == icws

remap == icws \o mask_all

\* unmask_irq reads the mask back and clears one bit of it.
unmask_irq(pic, line) ==
    outb(pic, data("master", pic["master"].masked \ {line}))

\* send_eoi of a line of the master.
send_eoi(pic) == outb(pic, command("master", PIC_EOI))

=============================================================================
