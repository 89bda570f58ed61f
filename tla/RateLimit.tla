------------------------------ MODULE RateLimit ------------------------------
(***************************************************************************)
(* What the per-address limiter of the proxy promises, without its table:  *)
(* a packet may be charged to an address only while fewer than Limit       *)
(* charges lie in the window that ends when the packet was looked at, and  *)
(* a packet may be refused only when Limit charges, made without a pause   *)
(* of a whole window, lead up to it.  IpLimiter (utils.cpp) implements     *)
(* this module.                                                            *)
(***************************************************************************)
EXTENDS Integers, Sequences

CONSTANTS
  Ips,      \* the addresses packets come from
  Limit,    \* charges an address may make in one window, at least one
  Window,   \* length of the window, in clock ticks
  MaxTime   \* bound of the clock

VARIABLES
  now,       \* the clock
  charges,   \* per address, the charges made so far: [seen, at]
  refusedAt  \* per address, when a packet of it was last refused, or -1

vars == <<now, charges, refusedAt>>

Charge == [seen : Nat, at : Nat]

TypeOK ==
  /\ now \in Nat
  /\ charges \in [Ips -> Seq(Charge)]
  /\ refusedAt \in [Ips -> Nat \cup {-1}]

Init ==
  /\ now = 0
  /\ charges = [ip \in Ips |-> <<>>]
  /\ refusedAt = [ip \in Ips |-> -1]

Tick ==
  /\ now < MaxTime
  /\ now' = now + 1
  /\ UNCHANGED <<charges, refusedAt>>

(***************************************************************************)
(* A packet seen at time seen is charged now.                              *)
(***************************************************************************)
ChargePacket(ip, seen) ==
  LET n == Len(charges[ip]) IN
  /\ n >= Limit => seen - charges[ip][n - Limit + 1].at >= Window
  /\ charges' = [charges EXCEPT ![ip] = Append(@, [seen |-> seen, at |-> now])]
  /\ UNCHANGED <<now, refusedAt>>

(***************************************************************************)
(* A packet is refused: the last Limit charges were each seen within a     *)
(* window of the one before, and the last lies within a window of now.     *)
(* Refusing changes no charge, so it never prolongs a block.               *)
(***************************************************************************)
RefusePacket(ip) ==
  LET n == Len(charges[ip]) IN
  /\ n >= Limit
  /\ now - charges[ip][n].at < Window
  /\ \A k \in (n - Limit + 1)..(n - 1) :
        charges[ip][k + 1].seen - charges[ip][k].at < Window
  /\ refusedAt' = [refusedAt EXCEPT ![ip] = now]
  /\ UNCHANGED <<now, charges>>

Next ==
  \/ Tick
  \/ \E ip \in Ips, seen \in 0..now : ChargePacket(ip, seen)
  \/ \E ip \in Ips : RefusePacket(ip)

Spec == Init /\ [][Next]_vars

(***************************************************************************)
(* No window holds more than Limit charges of one address: two charges     *)
(* that are Limit apart in its history are at least a window apart in      *)
(* time.  This is what max_connections_per_ip and block_duration_minutes   *)
(* of the configuration are for.                                           *)
(***************************************************************************)
WindowLimit ==
  \A ip \in Ips : \A i, j \in 1..Len(charges[ip]) :
     j - i >= Limit => charges[ip][j].at - charges[ip][i].at >= Window
==============================================================================
