------------------------------ MODULE Terminal ------------------------------
(***************************************************************************)
(* The text screen (kernel/core/terminal.cpp) as operations on a record:   *)
(* the cells of the VGA buffer, row by row, and the cursor.  Colours and   *)
(* the formatting of numbers are left out.                                 *)
(***************************************************************************)
EXTENDS Integers, SequencesExt

CONSTANTS
    VGA_WIDTH, VGA_HEIGHT,   \* 80 and 25
    Glyph,                   \* what a cell can show
    Blank,                   \* the glyph of a space
    NewLine                  \* '\n', which has no glyph

ASSUME TerminalAssumption ==
    /\ VGA_WIDTH \in Nat \ {0}
    /\ VGA_HEIGHT \in Nat \ {0}
    /\ Blank \in Glyph
    /\ NewLine \notin Glyph

Cell == 0 .. (VGA_WIDTH * VGA_HEIGHT - 1)
Row == 0 .. (VGA_HEIGHT - 1)
Col == 0 .. (VGA_WIDTH - 1)
Screen == [cells: [Cell -> Glyph], row: Row, col: Col]

clamped(n, limit) == IF n < 0 THEN 0 ELSE IF n >= limit THEN limit - 1 ELSE n

set_cursor(screen, row, col) ==
    [screen EXCEPT !.row = clamped(row, VGA_HEIGHT), !.col = clamped(col, VGA_WIDTH)]

\* The last row comes up blank, and the cursor is put on it.
scroll_up(screen) ==
    [cells |-> [c \in Cell |-> IF c + VGA_WIDTH \in Cell
                               THEN screen.cells[c + VGA_WIDTH] ELSE Blank],
     row   |-> VGA_HEIGHT - 1,
     col   |-> screen.col]

\* The start of the next row.
next_row(screen) ==
    LET down == [screen EXCEPT !.row = @ + 1, !.col = 0]
    IN  IF down.row >= VGA_HEIGHT THEN scroll_up(down) ELSE down

advance_cursor(screen) ==
    IF screen.col + 1 >= VGA_WIDTH THEN next_row(screen)
                                   ELSE [screen EXCEPT !.col = @ + 1]

putchar(screen, c) ==
    IF c = NewLine THEN next_row(screen)
    ELSE advance_cursor(
            [screen EXCEPT !.cells[screen.row * VGA_WIDTH + screen.col] = c])

write(screen, text) == FoldLeft(putchar, screen, text)

cleared == [cells |-> [c \in Cell |-> Blank], row |-> 0, col |-> 0]

=============================================================================
