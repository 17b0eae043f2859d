---------------------------- MODULE MCForemanInbox ----------------------------
(* Instances of ForemanInbox for TLC. *)
EXTENDS ForemanInbox
=============================================================================
