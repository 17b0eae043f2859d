--------------------------- MODULE MCForemanGoals ---------------------------
(* Goals and delegations for TLC. *)
EXTENDS ForemanGoals, TLC

Symmetry == Permutations(Goals) \cup Permutations(Teams) \cup Permutations(Checkouts)
=============================================================================
