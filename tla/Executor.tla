------------------------------- MODULE Executor -------------------------------
(***************************************************************************)
(* What a program may count on from an io_context that several threads     *)
(* run: a handler runs only after its operation was started, once, to its  *)
(* end, never more at a time than there are threads, and none begins after *)
(* stop().  Nothing is said of the order.                                  *)
(***************************************************************************)
EXTENDS Integers, FiniteSets

CONSTANTS Ops, ThreadCount

VARIABLES
  life,   \* per operation: "new", "submitted", "running" or "done"
  halted

vars == <<life, halted>>

Running == {o \in Ops : life[o] = "running"}

Init ==
  /\ life = [o \in Ops |-> "new"]
  /\ halted = FALSE

Submit(o) ==
  /\ life[o] = "new"
  /\ life' = [life EXCEPT ![o] = "submitted"]
  /\ UNCHANGED halted

Begin(o) ==
  /\ ~halted
  /\ life[o] = "submitted"
  /\ Cardinality(Running) < ThreadCount
  /\ life' = [life EXCEPT ![o] = "running"]
  /\ UNCHANGED halted

End(o) ==
  /\ life[o] = "running"
  /\ life' = [life EXCEPT ![o] = "done"]
  /\ UNCHANGED halted

Halt ==
  /\ halted' = TRUE
  /\ UNCHANGED life

Next == Halt \/ \E o \in Ops : Submit(o) \/ Begin(o) \/ End(o)

Spec == Init /\ [][Next]_vars
==============================================================================
