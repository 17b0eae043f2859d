----------------------------- MODULE MCDelivery -----------------------------
(* The message queue of a group for TLC. *)
EXTENDS Delivery, TLC

Symmetry == Permutations(Members)
=============================================================================
