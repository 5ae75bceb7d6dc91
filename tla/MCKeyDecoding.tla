---------------------------- MODULE MCKeyDecoding ----------------------------
(***************************************************************************)
(* Two small keyboards.  MCKeys has a letter, a digit, the two shift keys, *)
(* caps lock and the grey DELETE key, for which the keyboard fakes shifts; *)
(* MCSpaceKeys has the space bar and a shift key.                          *)
(***************************************************************************)
EXTENDS KeyDecoding

Key(code) == [code |-> code, grey |-> FALSE]

MCKeys ==
    {Key(\h1E), Key(\h02), LeftShift, RightShift, Key(normal_keys.CAPS_LOCK),
     [code |-> extended_keys.DELETE, grey |-> TRUE]}

MCSpaceKeys == {Key(space), LeftShift}

=============================================================================
