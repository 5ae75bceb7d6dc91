---------------------------- MODULE CommandLine ----------------------------
(***************************************************************************)
(* From a line to a command: execute_command (kernel/core/shell.cpp) and   *)
(* the loops of parse_u64 (kernel/core/string.cpp), which reads the        *)
(* argument of PAGE-INFO and ALLOC-CONTIG.                                 *)
(*                                                                         *)
(* A line is a word and what follows it.  The word is the longest command  *)
(* name the line begins with, in any case, or "other".  What the commands  *)
(* do with the allocator is module Shell.                                  *)
(***************************************************************************)
EXTENDS Numbers

CONSTANTS
    ARGUMENT_SIZE,   \* the buffer the argument is copied to (64 characters)
    Lines,           \* the lines the user may enter
    None             \* no number

\* Recognised only when they are the whole line.
WholeLineCommands ==
    {"help", "clear", "version", "panic-test", "idt-test", "memstats",
     "alloc-page", "free-page", "memmap", "reserved", "free-contig", "heap-info"}

\* Recognised by the beginning of the line.
ArgumentCommands == {"page-info", "alloc-contig"}

Commands == WholeLineCommands \cup ArgumentCommands \cup {"echo"}

Line == [word: Commands \cup {"other"}, rest: Seq(Character)]

\* Room for a printed number with its prefix, a blank and a null character: a
\* number takes at most two decimal digits for each hexadecimal one.  A line
\* may be longer.
ASSUME CommandLineAssumption ==
    /\ ARGUMENT_SIZE \in Nat
    /\ 2 * NIBBLES + 3 < ARGUMENT_SIZE
    /\ \A l \in Lines : l \in Line
    /\ None \notin Number

VARIABLES
    line,          \* never changes
    at,            \* where the line is in execute_command and parse_u64
    i,             \* index in the argument
    base,
    value,
    found_digit,
    outcome,       \* what the shell does in the end
    copied         \* history: the number on the screen that the user typed
                   \* back as the argument, or None

parsing == <<i, base, value, found_digit>>
given == <<line, copied>>
commandVars == <<given, at, parsing, outcome>>

Nothing == [kind |-> "nothing"]
NotFound == [kind |-> "Command not found"]
Invalid == [kind |-> "Invalid argument"]
Astray == [kind |-> "astray"]   \* the kernel does not get back from the command
Execute(command) == [kind |-> "execute", command |-> command]
ExecuteWith(command, arg) ==
    [kind |-> "execute with", command |-> command, argument |-> arg]

\* A value never leaves its 64 bits and no character is read after the null
\* that ends the argument, however long the line.
CommandTypeOK ==
    /\ line \in Line
    /\ copied \in Number \cup {None}
    /\ at \in {"dispatch", "prefix", "digits", "end", "done"}
    /\ i \in 1 .. (Len(line.rest) + 1)
    /\ base \in {10, 16}
    /\ value \in Number
    /\ found_digit \in BOOLEAN
    /\ (outcome = Nothing) <=> (at # "done")

\* The user types any line, or a command for a number the shell has shown.
Entered ==
    \/ line \in Lines /\ copied = None
    \/ /\ copied \in Number
       /\ \E command \in ArgumentCommands,
             shown_text \in {write_u64(copied), write_hex(copied)} :
                line = [word |-> command, rest |-> <<BLANK>> \o shown_text]

CommandInit ==
    /\ Entered
    /\ at = "dispatch"
    /\ i = 1
    /\ base = 10
    /\ value = 0
    /\ found_digit = FALSE
    /\ outcome = Nothing

Finish(result) ==
    /\ at' = "done"
    /\ outcome' = result
    /\ UNCHANGED <<given, parsing>>

-----------------------------------------------------------------------------
(***************************************************************************)
(* execute_command.                                                        *)
(***************************************************************************)

\* equals_ignore_case for most commands, starts_with_ignore_case of the name
\* and a space for ECHO, of the name alone for the others.
whole_line == line.word \in WholeLineCommands /\ line.rest = <<>>
echo == line.word = "echo" /\ line.rest # <<>> /\ line.rest[1] = BLANK
with_argument == line.word \in ArgumentCommands

ExecuteCommand ==
    /\ at = "dispatch"
    /\ whole_line \/ echo
    /\ Finish(Execute(line.word))

CommandNotFound ==
    /\ at = "dispatch"
    /\ ~ whole_line /\ ~ echo /\ ~ with_argument
    /\ Finish(NotFound)

\* The rest and the null character after it have room in the buffer.
rest_fits == Len(line.rest) < ARGUMENT_SIZE

\* substr takes what follows the name, be it separated by a blank or not.
ParseArgument ==
    /\ at = "dispatch"
    /\ with_argument
    /\ rest_fits
    /\ at' = "prefix"
    /\ UNCHANGED <<given, parsing, outcome>>

\* substr copies whatever there is: a longer rest is written beyond the
\* buffer, over the other locals and the return addresses on the stack.  What
\* the command does then, and with which number, is undefined.
OverrunArgument ==
    /\ at = "dispatch"
    /\ with_argument
    /\ ~ rest_fits
    /\ \E result \in {Invalid, Astray} \cup {ExecuteWith(line.word, n) : n \in Number} :
          Finish(result)

-----------------------------------------------------------------------------
(***************************************************************************)
(* parse_u64.  A null character ends the text.                             *)
(***************************************************************************)

\* Faulty variant of is: a blank is sought beyond the end of the text.
is_unbounded(k, c) == k \in DOMAIN line.rest => line.rest[k] = c

is(k, c) == k \in DOMAIN line.rest /\ line.rest[k] = c

ended == i \notin DOMAIN line.rest
digit == line.rest[i]

SkipBlank ==
    /\ at \in {"prefix", "end"}
    /\ is(i, BLANK)
    /\ i' = i + 1
    /\ UNCHANGED <<given, at, base, value, found_digit, outcome>>

ReadPrefix ==
    /\ at = "prefix"
    /\ ~ is(i, BLANK)
    /\ IF is(i, 0) /\ is(i + 1, X)
       THEN base' = 16 /\ i' = i + 2
       ELSE UNCHANGED <<base, i>>
    /\ at' = "digits"
    /\ UNCHANGED <<given, value, found_digit, outcome>>

\* Faulty variant of fits: the digit is left out of the comparison.
fits_without_digit == value <= (U64 - 1) \div base

\* value > (max_value - digit) / base is refused before the multiplication.
fits == value <= (U64 - 1 - digit) \div base

ReadDigit ==
    /\ at = "digits"
    /\ ~ ended
    /\ digit < base
    /\ fits
    /\ value' = (value * base + digit) % U64
    /\ found_digit' = TRUE
    /\ i' = i + 1
    /\ UNCHANGED <<given, at, base, outcome>>

\* A character that is no digit of the base, or a number that gets too big.
RefuseCharacter ==
    /\ at = "digits"
    /\ ~ ended /\ digit # BLANK
    /\ digit >= base \/ ~ fits
    /\ Finish(Invalid)

EndOfDigits ==
    /\ at = "digits"
    /\ ended \/ is(i, BLANK)
    /\ at' = "end"
    /\ UNCHANGED <<given, parsing, outcome>>

\* Faulty variant of accepted: an argument without a digit is 0.
accepted_without_digit == ended

accepted == ended /\ found_digit

EndOfArgument ==
    /\ at = "end"
    /\ ~ is(i, BLANK)
    /\ Finish(IF accepted THEN ExecuteWith(line.word, value) ELSE Invalid)

CommandNext ==
    \/ ExecuteCommand \/ CommandNotFound \/ ParseArgument \/ OverrunArgument
    \/ SkipBlank \/ ReadPrefix
    \/ ReadDigit \/ RefuseCharacter \/ EndOfDigits \/ EndOfArgument

CommandSpec == CommandInit /\ [][CommandNext]_commandVars

-----------------------------------------------------------------------------
(***************************************************************************)
(* Properties.                                                             *)
(***************************************************************************)

\* A command with an argument is executed exactly when what follows its name
\* is one number that fits in 64 bits, decimal or after 0x hexadecimal, and
\* then with that number: no digit is skipped or read twice, no product
\* wraps, and neither a stray character nor an empty prefix gets by.  That is
\* so of arguments that fit the buffer.
ArgumentIsTheNumber ==
    (at = "done" /\ line.word \in ArgumentCommands /\ rest_fits) =>
        outcome = IF IsNumeral(line.rest)
                  THEN ExecuteWith(line.word, Denoted(line.rest)) ELSE Invalid

\* What the shell prints can be typed back: an address as write_hex shows it
\* in ALLOC-PAGE's answer, or as write_u64 shows it in MEMMAP's, gives
\* PAGE-INFO that address.
PrintedNumbersReadBack ==
    (at = "done" /\ copied # None) => outcome = ExecuteWith(line.word, copied)

=============================================================================
