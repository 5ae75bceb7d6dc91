----------------------------- MODULE KeyDecoding -----------------------------
(***************************************************************************)
(* The decoder of KeyDecoder driven by the keyboard alone: keys go down,   *)
(* repeat and come up in any order, and the handler takes the bytes one by *)
(* one.  What becomes of the events is module EventQueue.                  *)
(***************************************************************************)
EXTENDS KeyDecoder

VARIABLES
    emitted,   \* history: the event made by the last byte
    sent       \* history: the last byte handled, as it was on the wire

decodingVars == <<decoder, keyboard, emitted, sent>>

DecodingInit ==
    /\ DecoderInit
    /\ held = {}
    /\ wire = <<>>
    /\ emitted = NoEvent
    /\ sent = [byte |-> prefix, shifted |-> FALSE]

KeyTyped == Type /\ UNCHANGED <<decoder, emitted, sent>>

handle_raw_scancode ==
    /\ wire # <<>>
    /\ update_decoder(Head(wire).byte)
    /\ emitted' = decoded(Head(wire).byte)
    /\ sent' = Head(wire)
    /\ wire' = Tail(wire)
    /\ UNCHANGED held

DecodingNext == KeyTyped \/ handle_raw_scancode

DecodingSpec == DecodingInit /\ [][DecodingNext]_decodingVars

-----------------------------------------------------------------------------
DecodingTypeOK ==
    /\ DecoderTypeOK
    /\ held \subseteq Keys
    /\ Len(wire) <= WIRE_SIZE
    /\ emitted.key \in KeyCode
    /\ emitted.scancode \in 0 .. \h7F

\* When every byte has been handled, the driver's idea of the shift keys is
\* the truth and no prefix is left over to spoil the next key, whatever was
\* typed and whatever shifts the keyboard faked around the grey keys.
ModifiersTrackKeys ==
    wire = <<>> =>
        /\ left_shift_down <=> LeftShift \in held
        /\ right_shift_down <=> RightShift \in held
        /\ ~ pending_extended

\* A character event carries the glyph the user meant: shifted exactly when
\* a shift key was down as the key went down, however late the byte is
\* handled; for letters, caps lock inverts it.
CharactersAsTyped ==
    (emitted.key = "CHARACTER" /\ emitted.ascii # Nul) =>
        emitted.ascii[1] = "shifted" <=>
            IF emitted.scancode \in letters THEN sent.shifted # caps_lock_on
                                            ELSE sent.shifted

\* Every event is about a key of the keyboard: the shifts faked around grey
\* keys, whose scan codes are those of real keys, never surface as events.
NoPhantomKey ==
    emitted # NoEvent =>
        [code |-> emitted.scancode, grey |-> emitted.extended] \in Keys

(***************************************************************************)
(* "Space and punctuation" are printable (kernel/drivers/keyboard.cpp:124) *)
(* and a printable key makes a CHARACTER event: a CHARACTER event for a    *)
(* key going down carries a character, not the terminating 0.              *)
(***************************************************************************)
CharacterEventsCarryCharacters ==
    (emitted.key = "CHARACTER" /\ emitted.pressed) => emitted.ascii # Nul

=============================================================================
