------------------------ MODULE MCForemanConversations ------------------------
(* The conversations of the Foreman with one member for TLC. *)
EXTENDS ForemanConversations, TLC
=============================================================================
