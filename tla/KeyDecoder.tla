----------------------------- MODULE KeyDecoder -----------------------------
(***************************************************************************)
(* From scan codes to key events (kernel/drivers/keyboard.cpp).            *)
(*                                                                         *)
(* The keyboard interrupt handler is called with one byte at a time; the   *)
(* 0xE0 prefix, the two shift keys and caps lock are remembered between    *)
(* calls.  What the bytes are is up to the keyboard: the second half of    *)
(* the module is the part of a PC keyboard (scan code set 1) the driver    *)
(* relies on, with the shifts that it fakes around the grey keys.          *)
(*                                                                         *)
(* A character is <<form, scancode>>: which key, and whether the plain or  *)
(* the shifted glyph on it.  Nul is the character 0.                       *)
(***************************************************************************)
EXTENDS Integers, Sequences

VARIABLES
    pending_extended,   \* the previous byte was 0xE0
    left_shift_down,
    right_shift_down,
    caps_lock_on

decoder == <<pending_extended, left_shift_down, right_shift_down, caps_lock_on>>

DecoderInit ==
    /\ pending_extended = FALSE
    /\ left_shift_down = FALSE
    /\ right_shift_down = FALSE
    /\ caps_lock_on = FALSE

DecoderTypeOK == decoder \in BOOLEAN \X BOOLEAN \X BOOLEAN \X BOOLEAN

-----------------------------------------------------------------------------
(***************************************************************************)
(* The scan code tables.                                                   *)
(***************************************************************************)

letters == \h10 .. \h19 \cup \h1E .. \h26 \cup \h2C .. \h32

space == \h39

printable ==
    \h02 .. \h0D \cup letters \cup {\h1A, \h1B, \h2B} \cup \h27 .. \h29
                 \cup \h33 .. \h35 \cup {space}

normal_keys ==
    [ESCAPE |-> \h01, ENTER |-> \h1C, BACKSPACE |-> \h0E, TAB |-> \h0F,
     LEFT_SHIFT |-> \h2A, RIGHT_SHIFT |-> \h36, CAPS_LOCK |-> \h3A,
     LEFT_CTRL |-> \h1D, LEFT_ALT |-> \h38]

extended_keys ==
    [LEFT_ARROW |-> \h4B, RIGHT_ARROW |-> \h4D, UP_ARROW |-> \h48,
     DOWN_ARROW |-> \h50, HOME |-> \h47, END |-> \h4F,
     INSERT |-> \h52, DELETE |-> \h53]

KeyCode ==
    DOMAIN normal_keys \cup DOMAIN extended_keys \cup {"CHARACTER", "UNKNOWN"}

translate_extended_key_scancode(scancode) ==
    IF \E k \in DOMAIN extended_keys : extended_keys[k] = scancode
    THEN CHOOSE k \in DOMAIN extended_keys : extended_keys[k] = scancode
    ELSE "UNKNOWN"

translate_normal_key_scancode(scancode) ==
    IF \E k \in DOMAIN normal_keys : normal_keys[k] = scancode
    THEN CHOOSE k \in DOMAIN normal_keys : normal_keys[k] = scancode
    ELSE IF scancode \in printable THEN "CHARACTER" ELSE "UNKNOWN"

-----------------------------------------------------------------------------
(***************************************************************************)
(* Characters.                                                             *)
(***************************************************************************)

Nul == <<"nul", 0>>

\* The table of shifted characters has no entry for the space bar.
shifted_ascii_from_scancode(scancode) ==
    IF scancode \in printable \ {space} THEN <<"shifted", scancode>> ELSE Nul

unshifted_ascii_from_scancode(scancode) == <<"plain", scancode>>

\* Faulty variant of translate_ascii_scancode: shift does not undo caps lock.
translate_ascii_shift_or_caps(scancode, shift_down, caps) ==
    IF scancode \in letters
    THEN <<IF shift_down \/ caps THEN "shifted" ELSE "plain", scancode>>
    ELSE IF shift_down THEN shifted_ascii_from_scancode(scancode)
                       ELSE unshifted_ascii_from_scancode(scancode)

\* A letter is upper case when exactly one of shift and caps lock is on.
translate_ascii_scancode(scancode, shift_down, caps) ==
    IF scancode \in letters
    THEN <<IF shift_down # caps THEN "shifted" ELSE "plain", scancode>>
    ELSE IF shift_down THEN shifted_ascii_from_scancode(scancode)
                       ELSE unshifted_ascii_from_scancode(scancode)

-----------------------------------------------------------------------------
(***************************************************************************)
(* handle_raw_scancode, up to push_event: the event a byte makes, and what *)
(* it leaves in the decoder.                                               *)
(***************************************************************************)

KeyEvent(scancode, ascii, pressed, extended, key) ==
    [scancode |-> scancode, ascii |-> ascii, pressed |-> pressed,
     extended |-> extended, key |-> key]

\* A KeyEvent of zeros; no byte makes this event.
NoEvent == KeyEvent(0, Nul, FALSE, FALSE, "UNKNOWN")

prefix == \hE0
is_release(raw) == raw >= \h80

clean_scancode(raw) == raw % \h80

\* Faulty variant of key_of: the prefix is ignored.
key_of_without_prefix(raw, extended) ==
    translate_normal_key_scancode(clean_scancode(raw))

key_of(raw, extended) ==
    IF extended THEN translate_extended_key_scancode(clean_scancode(raw))
                ELSE translate_normal_key_scancode(clean_scancode(raw))

control_character == {"ENTER", "BACKSPACE", "TAB"}

ascii_of(raw, extended, shift_down, caps) ==
    IF extended \/ is_release(raw) THEN Nul
    ELSE IF key_of(raw, FALSE) = "CHARACTER"
         THEN translate_ascii_scancode(raw, shift_down, caps)
         ELSE IF key_of(raw, FALSE) \in control_character THEN <<"plain", raw>> ELSE Nul

\* Faulty variant of event_of: the event has the byte as it came.
event_of_raw_scancode(raw, extended, shift_down, caps) ==
    IF raw = prefix \/ key_of(raw, extended) = "UNKNOWN" THEN NoEvent
    ELSE KeyEvent(raw, ascii_of(raw, extended, shift_down, caps), ~ is_release(raw),
                  extended, key_of(raw, extended))

\* The event pushed for a byte; NoEvent for the prefix and unknown keys.
event_of(raw, extended, shift_down, caps) ==
    IF raw = prefix \/ key_of(raw, extended) = "UNKNOWN" THEN NoEvent
    ELSE KeyEvent(clean_scancode(raw), ascii_of(raw, extended, shift_down, caps),
                  ~ is_release(raw), extended, key_of(raw, extended))

decoded(raw) ==
    event_of(raw, pending_extended, left_shift_down \/ right_shift_down, caps_lock_on)

\* Faulty variant of update_decoder: the prefix is never forgotten.
update_decoder_sticky_prefix(raw) ==
    LET normal(key) == raw # prefix /\ ~ pending_extended /\ key_of(raw, FALSE) = key
    IN  /\ pending_extended' = (pending_extended \/ raw = prefix)
        /\ left_shift_down' =
              IF normal("LEFT_SHIFT") THEN ~ is_release(raw) ELSE left_shift_down
        /\ right_shift_down' =
              IF normal("RIGHT_SHIFT") THEN ~ is_release(raw) ELSE right_shift_down
        /\ caps_lock_on' =
              IF normal("CAPS_LOCK") /\ ~ is_release(raw) THEN ~ caps_lock_on
                                                          ELSE caps_lock_on

update_decoder(raw) ==
    LET normal(key) == raw # prefix /\ ~ pending_extended /\ key_of(raw, FALSE) = key
    IN  /\ pending_extended' = (raw = prefix)
        /\ left_shift_down' =
              IF normal("LEFT_SHIFT") THEN ~ is_release(raw) ELSE left_shift_down
        /\ right_shift_down' =
              IF normal("RIGHT_SHIFT") THEN ~ is_release(raw) ELSE right_shift_down
        /\ caps_lock_on' =
              IF normal("CAPS_LOCK") /\ ~ is_release(raw) THEN ~ caps_lock_on
                                                          ELSE caps_lock_on

-----------------------------------------------------------------------------
(***************************************************************************)
(* The keyboard.                                                           *)
(***************************************************************************)

CONSTANTS
    Keys,        \* the keys a user presses: [code: scan code, grey: BOOLEAN]
    WIRE_SIZE    \* bound: bytes on their way to the handler

\* The release code of a key 0x60 would be the prefix; no keyboard has it.
ASSUME KeyDecoderAssumption ==
    /\ Keys \subseteq [code : (1 .. \h7F) \ {\h60}, grey : BOOLEAN]
    /\ WIRE_SIZE \in Nat

VARIABLES
    held,        \* the keys that are down
    wire         \* bytes sent and not yet handled; each with the state of the
                 \* shift keys, for the user, when it was sent

keyboard == <<held, wire>>

\* What can be on the wire; left shift is faked whether it is one of Keys or not.
Code == {k.code : k \in Keys} \cup {normal_keys.LEFT_SHIFT}
Byte == {prefix} \cup Code \cup {c + \h80 : c \in Code}

LeftShift == [code |-> normal_keys.LEFT_SHIFT, grey |-> FALSE]
RightShift == [code |-> normal_keys.RIGHT_SHIFT, grey |-> FALSE]
shift_held == {LeftShift, RightShift} \cap held # {}

\* A grey key sends the prefix first.  When left shift is down it also takes
\* the shift back while it is down, with a prefix before each of the two.
\* A released key sends its scan code plus 0x80.
make_code(k) ==
    (IF k.grey /\ LeftShift \in held THEN <<prefix, \hAA>> ELSE <<>>)
      \o (IF k.grey THEN <<prefix, k.code>> ELSE <<k.code>>)

break_code(k) ==
    (IF k.grey THEN <<prefix, k.code + \h80>> ELSE <<k.code + \h80>>)
      \o (IF k.grey /\ LeftShift \in held THEN <<prefix, \h2A>> ELSE <<>>)

send(bytes) ==
    /\ Len(wire) + Len(bytes) <= WIRE_SIZE
    /\ wire' = wire \o [n \in DOMAIN bytes |-> [byte |-> bytes[n],
                                                shifted |-> shift_held]]

\* A key goes down, or has been held long enough to repeat.
Press(k) ==
    /\ send(make_code(k))
    /\ held' = held \cup {k}

Release(k) ==
    /\ k \in held
    /\ send(break_code(k))
    /\ held' = held \ {k}

Type == \E k \in Keys : Press(k) \/ Release(k)

=============================================================================
