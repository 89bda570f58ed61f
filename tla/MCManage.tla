------------------------------- MODULE MCManage -------------------------------
(* Instances of Manage for TLC. *)
EXTENDS Manage
==============================================================================
