---------------------------- MODULE MCRunRecovery ----------------------------
(* The runs of one member for TLC. *)
EXTENDS RunRecovery, TLC
=============================================================================
