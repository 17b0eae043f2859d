---------------------------- MODULE MCAgentActions ----------------------------
(* The actions of one member for TLC. *)
EXTENDS AgentActions, TLC
=============================================================================
