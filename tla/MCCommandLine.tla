--------------------------- MODULE MCCommandLine ---------------------------
(***************************************************************************)
(* CommandLine with numbers of three hexadecimal digits.  The lines: every *)
(* command and one that is none, followed by nothing, a blank or more; the *)
(* arguments of up to four characters of every kind; and the numerals of   *)
(* four and five digits, on both sides of the largest number and with      *)
(* leading zeros.  And numbers behind so many blanks or zeros that the     *)
(* argument just fits its buffer, does not by its null character, or does  *)
(* not by a character more.                                                *)
(***************************************************************************)
EXTENDS CommandLine

Texts(characters, lengths) == UNION {[1 .. n -> characters] : n \in lengths}

DispatchLines ==
    [word: Commands \cup {"other"}, rest: {<<>>, <<BLANK>>, <<BLANK, 5>>, <<5>>}]

AnyText == Texts({0, 1, 9, 15, X, BLANK, SYMBOL}, 0 .. 4)

LongNumerals ==
    {prefix \o digits : prefix \in {<<>>, <<0, X>>},
                        digits \in Texts({0, 4, 5, 6, 9, 15}, {4})
                                   \cup Texts({0, 4, 9}, {5})}

LongRests ==
    {[k \in 1 .. n |-> IF k = n THEN 5 ELSE filler] :
        n \in (ARGUMENT_SIZE - 1) .. (ARGUMENT_SIZE + 1), filler \in {0, BLANK, SYMBOL}}

MCLines ==
    DispatchLines
    \cup [word: {"alloc-contig"}, rest: AnyText]
    \cup [word: {"page-info"}, rest: LongNumerals]
    \cup [word: ArgumentCommands, rest: LongRests]

=============================================================================
