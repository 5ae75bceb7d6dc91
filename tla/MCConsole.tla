------------------------------ MODULE MCConsole ------------------------------
(***************************************************************************)
(* The console with lines of two characters on a screen of two rows of     *)
(* four: the longest line with its prompt ends before its row does, and    *)
(* what commands print and the prompts after them make the screen scroll.  *)
(***************************************************************************)
EXTENDS Console

MCPrompt == <<">">>
MCOutputs == {<<"a", NewLine>>}

=============================================================================
