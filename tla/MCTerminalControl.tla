-------------------------- MODULE MCTerminalControl --------------------------
(* The terminal of one run for TLC. *)
EXTENDS TerminalControl, TLC
=============================================================================
