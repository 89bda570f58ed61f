-------------------------------- MODULE Relay --------------------------------
(***************************************************************************)
(* What the users of the relay may count on.  Datagrams of a port are      *)
(* handled one after the other in the order of their arrival; the one at   *)
(* hand may be sent on, once, behind those of its port that still wait,    *)
(* or be lost.  The relay ends only with nothing waiting.  How ports share *)
(* memory, queues and a thread is left to the implementation.              *)
(***************************************************************************)
EXTENDS Integers, Sequences, FiniteSets

CONSTANT Ports

VARIABLES
  arrived,   \* per port, how many datagrams have come
  handled,   \* per port, how many of them were handled
  outgoing,  \* per port, those that wait to be sent on
  sent,      \* those that were sent on, as [port, index]
  ended

vars == <<arrived, handled, outgoing, sent, ended>>

Init ==
  /\ arrived = [p \in Ports |-> 0]
  /\ handled = [p \in Ports |-> 0]
  /\ outgoing = [p \in Ports |-> <<>>]
  /\ sent = <<>>
  /\ ended = FALSE

Arrive(p) ==
  /\ arrived' = [arrived EXCEPT ![p] = @ + 1]
  /\ UNCHANGED <<handled, outgoing, sent, ended>>

Handle(p) ==
  /\ ~ended
  /\ handled[p] < arrived[p]
  /\ handled' = [handled EXCEPT ![p] = @ + 1]
  /\ UNCHANGED <<arrived, outgoing, sent, ended>>

(* The datagram at hand: later than any of its port that was sent on or waits. *)
AtHand(p) ==
  /\ handled[p] > 0
  /\ \A i \in DOMAIN outgoing[p] : outgoing[p][i] < handled[p]
  /\ \A i \in DOMAIN sent : sent[i].port = p => sent[i].index < handled[p]

SendOn(p) ==
  /\ ~ended
  /\ AtHand(p)
  /\ \/ /\ outgoing' = [outgoing EXCEPT ![p] = Append(@, handled[p])]
        /\ UNCHANGED sent
     \/ /\ outgoing[p] = <<>>
        /\ sent' = Append(sent, [port |-> p, index |-> handled[p]])
        /\ UNCHANGED outgoing
  /\ UNCHANGED <<arrived, handled, ended>>

(* Which of n that leave are not lost, in their order. *)
Kept(n) ==
  {kept \in UNION {[1..m -> 1..n] : m \in 0..n} :
     \A i, j \in DOMAIN kept : i < j => kept[i] < kept[j]}

(* Some that wait leave, in order, but for those that are lost. *)
Flush(p) ==
  /\ ~ended
  /\ \E n \in 1..Len(outgoing[p]) : \E kept \in Kept(n) :
       /\ outgoing' = [outgoing EXCEPT ![p] = SubSeq(@, n + 1, Len(@))]
       /\ sent' = sent \o [i \in DOMAIN kept |->
                             [port |-> p, index |-> outgoing[p][kept[i]]]]
  /\ UNCHANGED <<arrived, handled, ended>>

End ==
  /\ ~ended
  /\ \A p \in Ports : outgoing[p] = <<>>
  /\ ended' = TRUE
  /\ UNCHANGED <<arrived, handled, outgoing, sent>>

Next == End \/ \E p \in Ports : Arrive(p) \/ Handle(p) \/ SendOn(p) \/ Flush(p)

Spec == Init /\ [][Next]_vars
==============================================================================
