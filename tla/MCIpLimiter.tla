----------------------------- MODULE MCIpLimiter -----------------------------
(* Instance of IpLimiter for TLC. *)
EXTENDS IpLimiter, TLC

(* Counted addresses are interchangeable; the excluded one is not of them. *)
Symmetry == Permutations(Ips \ ExcludedIps)
==============================================================================
