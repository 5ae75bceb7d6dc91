---------------------------- MODULE MCKernelLoop ----------------------------
(***************************************************************************)
(* The main loop with a keyboard of one or two keys, ENTER among them.     *)
(***************************************************************************)
EXTENDS KernelLoop

Enter == [code |-> normal_keys.ENTER, grey |-> FALSE]
LetterA == [code |-> \h1E, grey |-> FALSE]

MCEnter == {Enter}
MCTwoKeys == {Enter, LetterA}

MCEvent == EventsOfBytes

=============================================================================
