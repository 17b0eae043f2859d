---------------------------- MODULE MCActivation ----------------------------
(* Activations of a release for TLC. *)
EXTENDS Activation
=============================================================================
