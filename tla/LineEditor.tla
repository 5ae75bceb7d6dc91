----------------------------- MODULE LineEditor -----------------------------
(***************************************************************************)
(* What the console promises whoever types: a line edited at a point, the  *)
(* lines entered before to call up again, and the last line entered for    *)
(* the shell to take.  A line has at most Capacity characters.             *)
(*                                                                         *)
(* The promise ends where a 0 gets into the line: from then on, until the  *)
(* line is entered, nothing is said but that it stays within its capacity. *)
(***************************************************************************)
EXTENDS SequencesExt

CONSTANTS Char, Nul, Capacity, Remembered, NoLine

VARIABLES
    line,      \* the line being edited
    point,     \* how many of its characters are left of the cursor
    past,      \* the lines entered, but for empty ones, oldest first
    draft,     \* the line left for one of the past, NoLine if none was
    entered    \* the line entered last, NoLine once taken

editorVars == <<line, point, past, draft, entered>>

Line == BoundedSeq(Char, Capacity)
intact == Nul \notin Range(line)

EditorInit ==
    line = <<>> /\ point = 0 /\ past = <<>> /\ draft = NoLine /\ entered = NoLine

\* An edit leaves the past alone and makes the line the one to edit.
Edit(l, p) ==
    /\ intact
    /\ line' = l /\ point' = p /\ draft' = NoLine
    /\ UNCHANGED <<past, entered>>

Insert(c) ==
    /\ Len(line) < Capacity
    /\ Edit(InsertAt(line, point + 1, c), point + 1)

EraseBefore == point > 0 /\ Edit(RemoveAt(line, point), point - 1)
EraseAt == point < Len(line) /\ Edit(RemoveAt(line, point + 1), point)

\* A key that could do nothing still ends the walk through the past.
NoEdit == Edit(line, point)

Move(p) ==
    /\ p \in 0 .. Len(line)
    /\ point' = p
    /\ UNCHANGED <<line, past, draft, entered>>

\* The past is walked with the line that was left kept as the draft.
Recall(k) ==
    /\ intact
    /\ line' = past[k] /\ point' = Len(past[k])
    /\ draft' = IF draft = NoLine THEN line ELSE draft
    /\ UNCHANGED <<past, entered>>

BackToDraft ==
    /\ intact /\ draft # NoLine
    /\ line' = draft /\ point' = Len(draft) /\ draft' = NoLine
    /\ UNCHANGED <<past, entered>>

\* A line not taken before the next one is entered is gone.
Enter ==
    /\ intact
    /\ entered' = line
    /\ past' = IF line = <<>> THEN past
               ELSE IF Len(past) < Remembered THEN Append(past, line)
                                              ELSE Append(Tail(past), line)
    /\ line' = <<>> /\ point' = 0 /\ draft' = NoLine

Take ==
    /\ entered # NoLine /\ entered' = NoLine
    /\ UNCHANGED <<line, point, past, draft>>

Garbled ==
    /\ ~ intact
    /\ line' \in Line /\ point' \in 0 .. Len(line')
    /\ past' \in BoundedSeq(Line, Remembered)
    /\ {draft', entered'} \subseteq Line \cup {NoLine}

EditorNext ==
    \/ \E c \in Char : Insert(c)
    \/ EraseBefore \/ EraseAt \/ NoEdit
    \/ \E p \in 0 .. Capacity : Move(p)
    \/ \E k \in DOMAIN past : Recall(k)
    \/ BackToDraft \/ Enter \/ Take \/ Garbled

EditorSpec == EditorInit /\ [][EditorNext]_editorVars

=============================================================================
