----------------------------- MODULE MCUdpProxy -----------------------------
(* Instances of UdpProxy for TLC. *)
EXTENDS UdpProxy

(* A failed receive, an empty datagram, one that fits and one that is cut. *)
OnePortSizes == {-1, 0, 1, 3}
==============================================================================
