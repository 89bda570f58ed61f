----------------------------- MODULE MCQwinMain -----------------------------
(* Instances of QwinMain for TLC. *)
EXTENDS QwinMain
==============================================================================
