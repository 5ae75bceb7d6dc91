------------------------------- MODULE Console -------------------------------
(***************************************************************************)
(* The console (kernel/core/console.cpp): the command line being edited,   *)
(* the history, and what of them is on the screen.                         *)
(*                                                                         *)
(* The main loop hands it key events until there are none left, takes the  *)
(* line if one was entered, lets the shell execute it and print, and asks  *)
(* for the next prompt.  So keys typed ahead of the prompt are handled     *)
(* before it appears.                                                      *)
(*                                                                         *)
(* command_buffer is the array the code edits in place.  The other buffers *)
(* are only ever copied, cleared and measured as C strings, so they are    *)
(* sequences here: the characters before the terminating 0.                *)
(***************************************************************************)
EXTENDS Terminal

CONSTANTS
    Char,                  \* what a CHARACTER event carries; may hold Nul
    Nul,                   \* '\0'
    COMMAND_BUFFER_SIZE,   \* 128
    HISTORY_SIZE,          \* 16
    Prompt,                \* "Sentinel> "
    Outputs,               \* what commands, and the boot messages, print
    NoLine                 \* no line, for LineEditor

ASSUME ConsoleAssumption ==
    /\ COMMAND_BUFFER_SIZE \in Nat \ {0}
    /\ NoLine \notin BoundedSeq(Char, COMMAND_BUFFER_SIZE - 1)
    /\ HISTORY_SIZE \in Nat \ {0}
    /\ Char \subseteq Glyph \cup {Nul}
    /\ Nul \notin Glyph
    /\ Prompt \in Seq(Glyph)
    /\ Outputs \subseteq Seq(Glyph \cup {NewLine})

VARIABLES
    command_buffer, command_length, cursor_index,
    completed_line, line_ready,
    history,               \* the table and its count
    current_line, history_view_index, browsing_history,
    prompt_start_row, prompt_start_col, last_rendered_length,
    terminal,              \* the screen
    loop,                  \* "drain" or "execute"
    undisturbed,           \* history: so far every line fitted its row and
                           \* nothing was typed ahead of a prompt
    zero_typed             \* history: a 0 has been in the line since the last ENTER

line_state == <<command_buffer, command_length, cursor_index>>
completed == <<completed_line, line_ready>>
browsing == <<current_line, history_view_index, browsing_history>>
prompt == <<prompt_start_row, prompt_start_col>>
display == <<prompt, last_rendered_length, terminal, undisturbed, zero_typed>>
consoleVars == <<line_state, completed, history, browsing, display, loop>>

Index == 0 .. (COMMAND_BUFFER_SIZE - 1)

\* The line being edited.
line == [k \in 1 .. command_length |-> command_buffer[k - 1]]

String == BoundedSeq(Char \ {Nul}, COMMAND_BUFFER_SIZE - 1)

-----------------------------------------------------------------------------
(***************************************************************************)
(* C strings.                                                              *)
(***************************************************************************)

\* The index of the first 0 of an array, from a given index on.
first_nul(array, from) ==
    CHOOSE z \in Index : /\ z >= from /\ array[z] = Nul
                         /\ \A k \in from .. (z - 1) : array[k] # Nul

string_of(array) == [k \in 1 .. first_nul(array, 0) |-> array[k - 1]]

\* copy of a string into command_buffer, what lies behind it left as it was.
copied(string) ==
    [k \in Index |-> IF k < Len(string) THEN string[k + 1]
                     ELSE IF k = Len(string) THEN Nul ELSE command_buffer[k]]

\* Faulty variant of terminated: the 0 is forgotten.
unterminated(array, length) == array

terminated(array, length) == [array EXCEPT ![length] = Nul]

-----------------------------------------------------------------------------
(***************************************************************************)
(* What keys do to the screen.                                             *)
(***************************************************************************)

\* Faulty variant of erase_rest: what a longer line left is not erased.
erase_rest_not == <<>>

erase_rest == [k \in 1 .. (last_rendered_length - command_length') |-> Blank]

stays_undisturbed ==
    undisturbed' = (/\ undisturbed /\ ~ line_ready
                    /\ prompt_start_col + command_length' < VGA_WIDTH)

\* The line as it is after the key, from the prompt on, and the cursor in it.
redraw_current_line ==
    /\ LET home == set_cursor(terminal, prompt_start_row, prompt_start_col)
           text == write(write(home, string_of(command_buffer')), erase_rest)
       IN  terminal' = set_cursor(text, prompt_start_row,
                                  prompt_start_col + cursor_index')
    /\ last_rendered_length' = command_length'
    /\ stays_undisturbed
    /\ zero_typed' = (zero_typed \/ Nul \in Range(line'))
    /\ UNCHANGED prompt

place_cursor ==
    /\ terminal' = set_cursor(terminal, prompt_start_row,
                              prompt_start_col + cursor_index')
    /\ stays_undisturbed
    /\ UNCHANGED <<prompt, last_rendered_length, zero_typed>>

-----------------------------------------------------------------------------
(***************************************************************************)
(* handle_key_event, one action per key.  A key coming up does nothing.    *)
(***************************************************************************)

exit_history_browsing ==
    IF browsing_history
    THEN browsing_history' = FALSE /\ history_view_index' = 0 /\ current_line' = <<>>
    ELSE UNCHANGED browsing

\* An edit that changes the line, or only leaves the history.
EditKey(possible, change) ==
    /\ loop = "drain"
    /\ exit_history_browsing
    /\ IF possible THEN change /\ redraw_current_line
                   ELSE UNCHANGED <<line_state, display>>
    /\ UNCHANGED <<completed, history, loop>>

Character(c) ==
    EditKey(command_length < COMMAND_BUFFER_SIZE - 1,
        LET moved == [k \in Index |->
                        IF k = cursor_index THEN c
                        ELSE IF cursor_index < k /\ k <= command_length
                             THEN command_buffer[k - 1] ELSE command_buffer[k]]
        IN  /\ command_buffer' = terminated(moved, command_length + 1)
            /\ command_length' = command_length + 1
            /\ cursor_index' = cursor_index + 1)

Backspace ==
    EditKey(cursor_index > 0,
        LET z == first_nul(command_buffer, cursor_index)
            moved == [k \in Index |->
                        IF cursor_index - 1 <= k /\ k < z - 1
                        THEN command_buffer[k + 1] ELSE command_buffer[k]]
        IN  /\ command_buffer' = terminated(moved, command_length - 1)
            /\ command_length' = command_length - 1
            /\ cursor_index' = cursor_index - 1)

Delete ==
    EditKey(cursor_index < command_length,
        LET z == first_nul(command_buffer, cursor_index)
            moved == [k \in Index |->
                        IF cursor_index <= k /\ k < z
                        THEN command_buffer[k + 1] ELSE command_buffer[k]]
        IN  /\ command_buffer' = terminated(moved, command_length - 1)
            /\ command_length' = command_length - 1
            /\ UNCHANGED cursor_index)

CursorKey(possible, index) ==
    /\ loop = "drain"
    /\ possible
    /\ cursor_index' = index
    /\ UNCHANGED <<command_buffer, command_length>>
    /\ place_cursor
    /\ UNCHANGED <<completed, history, browsing, loop>>

LeftArrow == CursorKey(cursor_index > 0, cursor_index - 1)
RightArrow == CursorKey(cursor_index < command_length, cursor_index + 1)
Home == CursorKey(TRUE, 0)
End == CursorKey(TRUE, command_length)

\* load_history_entry and load_saved_current_line: the cursor goes to the end.
load(string) ==
    /\ command_buffer' = copied(string)
    /\ command_length' = Len(string)
    /\ cursor_index' = Len(string)
    /\ redraw_current_line

UpArrow ==
    /\ loop = "drain"
    /\ history_view_index < Len(history)
    /\ current_line' = IF browsing_history THEN current_line
                                           ELSE string_of(command_buffer)
    /\ browsing_history' = TRUE
    /\ history_view_index' = history_view_index + 1
    /\ load(history[Len(history) - history_view_index])
    /\ UNCHANGED <<completed, history, loop>>

\* Faulty variant of DownArrow: the entry shown is one behind the index.
DownArrowLate ==
    /\ loop = "drain"
    /\ browsing_history
    /\ IF history_view_index > 1
       THEN /\ history_view_index' = history_view_index - 1
            /\ load(history[Len(history) - history_view_index + 1])
            /\ UNCHANGED <<current_line, browsing_history>>
       ELSE /\ history_view_index' = 0
            /\ load(current_line)
            /\ current_line' = <<>> /\ browsing_history' = FALSE
    /\ UNCHANGED <<completed, history, loop>>

DownArrow ==
    /\ loop = "drain"
    /\ browsing_history
    /\ IF history_view_index > 1
       THEN /\ history_view_index' = history_view_index - 1
            /\ load(history[Len(history) - history_view_index + 2])
            /\ UNCHANGED <<current_line, browsing_history>>
       ELSE /\ history_view_index' = 0
            /\ load(current_line)
            /\ current_line' = <<>> /\ browsing_history' = FALSE
    /\ UNCHANGED <<completed, history, loop>>

\* Faulty variant of save_history_command: a full table keeps its oldest line.
save_history_command_keeping_oldest ==
    LET command == string_of(command_buffer)
    IN  history' = IF command = <<>> \/ Len(history) = HISTORY_SIZE
                   THEN history ELSE Append(history, command)

\* Faulty variant of save_history_command: a full table takes one more.
save_history_command_late ==
    LET command == string_of(command_buffer)
    IN  history' = IF command = <<>> THEN history
                   ELSE IF Len(history) <= HISTORY_SIZE THEN Append(history, command)
                                                        ELSE Append(Tail(history), command)

save_history_command ==
    LET command == string_of(command_buffer)
    IN  history' = IF command = <<>> THEN history
                   ELSE IF Len(history) < HISTORY_SIZE THEN Append(history, command)
                                                       ELSE Append(Tail(history), command)

Enter ==
    /\ loop = "drain"
    /\ save_history_command
    /\ terminal' = putchar(terminal, NewLine)
    /\ completed_line' = string_of(terminated(command_buffer, command_length))
    /\ line_ready' = TRUE
    /\ command_buffer' = [terminated(command_buffer, command_length) EXCEPT ![0] = Nul]
    /\ command_length' = 0
    /\ cursor_index' = 0
    /\ browsing_history' = FALSE
    /\ history_view_index' = 0
    /\ current_line' = <<>>
    /\ stays_undisturbed
    /\ zero_typed' = FALSE
    /\ UNCHANGED <<prompt, last_rendered_length, loop>>

handle_key_event ==
    \/ \E c \in Char : Character(c)
    \/ Backspace \/ Delete
    \/ LeftArrow \/ RightArrow \/ Home \/ End
    \/ UpArrow \/ DownArrow
    \/ Enter

-----------------------------------------------------------------------------
(***************************************************************************)
(* The main loop.                                                          *)
(***************************************************************************)

read_line ==
    /\ loop = "drain"
    /\ line_ready
    /\ completed_line' = <<>>
    /\ line_ready' = FALSE
    /\ loop' = "execute"
    /\ UNCHANGED <<line_state, history, browsing, display>>

\* print_prompt, on a screen the command has written to or cleared.
print_prompt(screen) ==
    /\ terminal' = write(screen, Prompt)
    /\ prompt_start_row' = terminal'.row
    /\ prompt_start_col' = terminal'.col
    /\ cursor_index' = 0
    /\ last_rendered_length' = 0

ExecuteCommand ==
    /\ loop = "execute"
    /\ \E screen \in {write(terminal, text) : text \in Outputs} \cup {cleared} :
          print_prompt(screen)
    /\ undisturbed' = (undisturbed /\ prompt_start_col' + command_length < VGA_WIDTH)
    /\ loop' = "drain"
    /\ UNCHANGED <<command_buffer, command_length, completed, history, browsing, zero_typed>>

\* console::initialize, behind the first messages of the boot; the rest of
\* them follow its prompt, and then kernel_main prints a second one.
ConsoleInit ==
    /\ command_buffer = [k \in Index |-> Nul]
    /\ command_length = 0 /\ cursor_index = 0
    /\ completed_line = <<>> /\ line_ready = FALSE
    /\ history = <<>>
    /\ current_line = <<>> /\ history_view_index = 0 /\ browsing_history = FALSE
    /\ terminal \in {write(write(cleared, text), Prompt) : text \in Outputs}
    /\ prompt_start_row = terminal.row /\ prompt_start_col = terminal.col
    /\ last_rendered_length = 0
    /\ loop = "execute"
    /\ undisturbed = TRUE /\ zero_typed = FALSE

ConsoleNext == handle_key_event \/ read_line \/ ExecuteCommand

ConsoleSpec == ConsoleInit /\ [][ConsoleNext]_consoleVars

-----------------------------------------------------------------------------
(***************************************************************************)
(* Properties.                                                             *)
(***************************************************************************)

ConsoleTypeOK ==
    /\ command_buffer \in [Index -> Char \cup {Nul}]
    /\ command_length \in Index
    /\ cursor_index \in Index
    /\ {completed_line, current_line} \subseteq String
    /\ {line_ready, browsing_history, undisturbed, zero_typed} \subseteq BOOLEAN
    /\ Len(history) <= HISTORY_SIZE /\ Range(history) \subseteq String
    /\ history_view_index \in 0 .. HISTORY_SIZE
    /\ prompt_start_row \in Row /\ prompt_start_col \in Col
    /\ last_rendered_length \in Index
    /\ terminal \in Screen
    /\ loop \in {"drain", "execute"}

\* The line ends inside the buffer with a 0 where command_length says, and
\* the cursor is in it, also when shift and space have put a 0 into its
\* middle: the loops that move characters until they meet a 0 stay inside
\* the buffer.
LineTerminated ==
    /\ command_buffer[command_length] = Nul
    /\ cursor_index <= command_length

\* While the history is walked the line is the entry the index says, the
\* newest being 1, and the index is 0 exactly when it is not: no key leaves
\* the two apart, not even one that finds nothing to do.
BrowsingShowsHistory ==
    /\ browsing_history <=> history_view_index > 0
    /\ history_view_index <= Len(history)
    /\ browsing_history =>
         string_of(command_buffer) = history[Len(history) - history_view_index + 1]

\* As long as the line fits its row, and no key is typed ahead of a prompt,
\* the screen shows the line behind the prompt, nothing behind the line, and
\* the cursor where the next character goes: no edit, no shorter line from
\* the history leaves a trace of what was there.  It does not hold of a line
\* that has had a 0 in it: a redraw writes the line up to the 0 and erases
\* from there on, so that what was behind stays, even when the 0 is gone.
shown(k) == terminal.cells[prompt_start_row * VGA_WIDTH + prompt_start_col + k]

ScreenShowsLine ==
    (undisturbed /\ ~ zero_typed /\ loop = "drain" /\ ~ line_ready) =>
      /\ \A k \in 0 .. (VGA_WIDTH - 1 - prompt_start_col) :
            shown(k) = IF k < command_length THEN command_buffer[k] ELSE Blank
      /\ terminal.row = prompt_start_row
      /\ terminal.col = prompt_start_col + cursor_index

\* The array, the cursor and the history together are a line editor: every
\* key makes the edit it stands for, with no character lost or repeated.
Editor == INSTANCE LineEditor WITH
              Capacity   <- COMMAND_BUFFER_SIZE - 1,
              Remembered <- HISTORY_SIZE,
              line       <- line,
              point      <- cursor_index,
              past       <- history,
              draft      <- IF browsing_history THEN current_line ELSE NoLine,
              entered    <- IF line_ready THEN completed_line ELSE NoLine

ImplementsLineEditor == Editor!EditorSpec

=============================================================================
