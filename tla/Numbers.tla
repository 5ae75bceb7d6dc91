------------------------------ MODULE Numbers ------------------------------
(***************************************************************************)
(* Numbers as text: the characters of a command line that its argument is  *)
(* read from, and what write_u64 and write_hex (kernel/core/terminal.cpp)  *)
(* print for a number.                                                     *)
(*                                                                         *)
(* A character is a small number.  A digit, or a letter of either case     *)
(* from a to f, is its value; the others are the x of a prefix, a blank    *)
(* and everything else.  No key puts a tab in a line, so a blank is a      *)
(* space.                                                                  *)
(***************************************************************************)
EXTENDS Integers, SequencesExt

CONSTANT NIBBLES   \* hexadecimal digits of a u64 (16)

ASSUME NumbersAssumption == NIBBLES \in Nat \ {0}

\* base ^ exponent, in a form that can be proved about.
Power(base, exponent) ==
    LET power[n \in Nat] == IF n = 0 THEN 1 ELSE base * power[n - 1]
    IN  power[exponent]

U64 == Power(16, NIBBLES)
Number == 0 .. (U64 - 1)

X == 16
BLANK == 17
SYMBOL == 18
Character == 0 .. SYMBOL

-----------------------------------------------------------------------------
\* The digits write_u64 puts in its buffer, most significant first: it takes
\* them by % 10 and / 10 and prints the buffer backwards.
decimal_digits[n \in Nat] ==
    IF n = 0 THEN <<>> ELSE Append(decimal_digits[n \div 10], n % 10)

\* Faulty variant of write_u64: no case of its own for zero.
write_u64_zero_lost(number) == decimal_digits[number]

write_u64(number) == IF number = 0 THEN <<0>> ELSE decimal_digits[number]

\* (number >> 4 * k) & 0xF
nibble(number, k) == (number \div Power(16, k)) % 16

\* Faulty variant of shown: every zero is taken for a leading one.
shown_nonzero(number, k, printed) == nibble(number, k) # 0 \/ k = 0

\* nibble != 0 || started || shift == 0
shown(number, k, printed) == nibble(number, k) # 0 \/ printed # <<>> \/ k = 0

\* write_hex prints its 0x, then the nibbles from the highest on.
write_hex(number) ==
    LET printed[n \in 0 .. NIBBLES] ==   \* after the highest n nibbles
            IF n = 0 THEN <<>>
            ELSE LET k == NIBBLES - n
                 IN  IF shown(number, k, printed[n - 1])
                     THEN Append(printed[n - 1], nibble(number, k))
                     ELSE printed[n - 1]
    IN  <<0, X>> \o printed[NIBBLES]

-----------------------------------------------------------------------------
(***************************************************************************)
(* What a text means, for the properties.                                  *)
(***************************************************************************)

\* A text without the blanks around it.
Trimmed(text) ==
    LET Ink == {k \in DOMAIN text : text[k] # BLANK}
    IN  IF Ink = {} THEN <<>>
        ELSE SubSeq(text, Min(Ink), Max(Ink))

IsHex(word) == Len(word) >= 2 /\ word[1] = 0 /\ word[2] = X
Base(word) == IF IsHex(word) THEN 16 ELSE 10
Digits(word) == IF IsHex(word) THEN SubSeq(word, 3, Len(word)) ELSE word

\* The sum of the digits, each times its power of the base.
PlaceValue(digits, base) ==
    LET sum[n \in 0 .. Len(digits)] ==
            IF n = 0 THEN 0
            ELSE sum[n - 1] + digits[n] * Power(base, Len(digits) - n)
    IN  sum[Len(digits)]

\* A text that is one number, of at least one digit and below 2^64.
IsNumeral(text) ==
    LET word == Trimmed(text)
    IN  /\ Digits(word) # <<>>
        /\ \A k \in DOMAIN Digits(word) : Digits(word)[k] < Base(word)
        /\ PlaceValue(Digits(word), Base(word)) < U64

Denoted(text) == PlaceValue(Digits(Trimmed(text)), Base(Trimmed(text)))

=============================================================================
