---------------------------- MODULE MCEventQueue ----------------------------
(***************************************************************************)
(* EventQueue with three slots and three events, one of them the zero      *)
(* event: the ring wraps at every offset and fills.                        *)
(***************************************************************************)
EXTENDS EventQueue

=============================================================================
