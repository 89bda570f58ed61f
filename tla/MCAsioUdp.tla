------------------------------ MODULE MCAsioUdp ------------------------------
(* Instances of AsioUdp for TLC. *)
EXTENDS AsioUdp
==============================================================================
