-------------------------------- MODULE Manage --------------------------------
(***************************************************************************)
(* script/manage.sh: operators start and stop the program, which they find *)
(* by its command line only.  A started program binds its ports or, when   *)
(* another one holds them, ends by itself.  sleep gives the other side     *)
(* time but promises nothing.                                              *)
(***************************************************************************)
EXTENDS Integers, FiniteSets

CONSTANTS
  Operators,   \* people or cron jobs that call manage.sh, each in a loop
  Instances    \* bound: the programs that are ever started

ASSUME ManageAssumption == IsFiniteSet(Operators) /\ IsFiniteSet(Instances)

VARIABLES
  script,   \* per operator, where its call of manage.sh is
  said,     \* per operator, what the last call said
  inst,     \* life of each instance
  killed,   \* instances a pkill has sent SIGTERM to
  target    \* history: per operator, the instances its pkill has hit

vars == <<script, said, inst, killed, target>>

TypeOK ==
  /\ script \in [Operators -> {"idle", "starting", "looking", "stopping"}]
  /\ said \in [Operators -> {"nothing", "started", "not started", "stopped",
                             "not stopped", "was not running"}]
  /\ inst \in [Instances -> {"none", "forked", "running", "serving", "dead"}]
  /\ killed \subseteq Instances
  /\ target \in [Operators -> SUBSET Instances]

Init ==
  /\ script = [o \in Operators |-> "idle"]
  /\ said = [o \in Operators |-> "nothing"]
  /\ inst = [i \in Instances |-> "none"]
  /\ killed = {}
  /\ target = [o \in Operators |-> {}]

(***************************************************************************)
(* What pgrep -f finds: a forked shell that has not yet called exec does   *)
(* not have the program's command line.                                    *)
(***************************************************************************)
Matched == {i \in Instances : inst[i] \in {"running", "serving"}}

Serving == {i \in Instances : inst[i] = "serving"}

------------------------------------------------------------------------------
(* manage.sh start. *)

StartCommand(o) ==
  /\ script[o] = "idle"
  /\ \E i \in Instances :
       /\ inst[i] = "none"
       /\ inst' = [inst EXCEPT ![i] = "forked"]
  /\ script' = [script EXCEPT ![o] = "starting"]
  /\ said' = [said EXCEPT ![o] = "nothing"]
  /\ UNCHANGED <<killed, target>>

(* After the sleep: any program of that name will do. *)
StartCheck(o) ==
  /\ script[o] = "starting"
  /\ said' = [said EXCEPT ![o] = IF Matched = {} THEN "not started" ELSE "started"]
  /\ script' = [script EXCEPT ![o] = "idle"]
  /\ UNCHANGED <<inst, killed, target>>

(* manage.sh stop. *)
StopCommand(o) ==
  /\ script[o] = "idle"
  /\ script' = [script EXCEPT ![o] = IF Matched = {} THEN "idle" ELSE "looking"]
  /\ said' = [said EXCEPT ![o] = IF Matched = {} THEN "was not running" ELSE "nothing"]
  /\ target' = [target EXCEPT ![o] = {}]
  /\ UNCHANGED <<inst, killed>>

(* Mutation of PKill: when a program serves, only that one gets the signal. *)
PKillOne(o) ==
  /\ killed' = killed \cup (IF Serving # {} THEN Serving ELSE Matched)
  /\ target' = [target EXCEPT ![o] = Matched]

(* The signal goes to every program found now. *)
PKill(o) ==
  /\ killed' = killed \cup Matched
  /\ target' = [target EXCEPT ![o] = Matched]

StopKill(o) ==
  /\ script[o] = "looking"
  /\ PKill(o)
  /\ script' = [script EXCEPT ![o] = "stopping"]
  /\ UNCHANGED <<said, inst>>

(* Mutation of StopCheck: it looks for programs that still serve. *)
StopCheckServing(o) ==
  /\ script[o] = "stopping"
  /\ said' = [said EXCEPT ![o] = IF Serving = {} THEN "stopped" ELSE "not stopped"]
  /\ script' = [script EXCEPT ![o] = "idle"]
  /\ UNCHANGED <<inst, killed, target>>

StopCheck(o) ==
  /\ script[o] = "stopping"
  /\ said' = [said EXCEPT ![o] = IF Matched = {} THEN "stopped" ELSE "not stopped"]
  /\ script' = [script EXCEPT ![o] = "idle"]
  /\ UNCHANGED <<inst, killed, target>>

------------------------------------------------------------------------------
(* The program. *)

Exec(i) ==
  /\ inst[i] = "forked"
  /\ inst' = [inst EXCEPT ![i] = "running"]
  /\ UNCHANGED <<script, said, killed, target>>

BindPorts(i) ==
  /\ inst[i] = "running"
  /\ i \notin killed
  /\ Serving = {}
  /\ inst' = [inst EXCEPT ![i] = "serving"]
  /\ UNCHANGED <<script, said, killed, target>>

(* It ends: by the signal, for want of ports, or because main returns. *)
End(i) ==
  /\ i \in Matched
  /\ inst' = [inst EXCEPT ![i] = "dead"]
  /\ UNCHANGED <<script, said, killed, target>>

Script(o) == StartCheck(o) \/ StopKill(o) \/ StopCheck(o)

Next ==
  \/ \E o \in Operators : StartCommand(o) \/ StopCommand(o) \/ Script(o)
  \/ \E i \in Instances : Exec(i) \/ BindPorts(i) \/ End(i)

Spec == Init /\ [][Next]_vars

(***************************************************************************)
(* A script goes on, a signalled program ends, and nobody has to call      *)
(* manage.sh; a program need not bind its ports or end by itself.          *)
(***************************************************************************)
Fairness ==
  /\ \A o \in Operators : WF_vars(Script(o))
  /\ \A i \in Instances : WF_vars(i \in killed /\ End(i))

FairSpec == Spec /\ Fairness

------------------------------------------------------------------------------
(***************************************************************************)
(* "Система остановлена" is said only when every program the call has      *)
(* signalled is gone, whoever started it and however slow it was to end    *)
(* (manage.sh:36-46).                                                      *)
(***************************************************************************)
SaidStoppedIsGone ==
  \A o \in Operators : said[o] = "stopped" => \A i \in target[o] : inst[i] = "dead"

(***************************************************************************)
(* Why that is so: what was signalled once ran under its name, a program   *)
(* that has that name keeps it until it is gone, and a call under way has  *)
(* not said anything yet, so what it hits is not yet spoken of.            *)
(***************************************************************************)
ManageInv ==
  /\ TypeOK
  /\ \A o \in Operators : target[o] \subseteq killed
  /\ \A i \in killed : inst[i] \in {"running", "serving", "dead"}
  /\ \A o \in Operators : script[o] # "idle" => said[o] = "nothing"
  /\ SaidStoppedIsGone

(***************************************************************************)
(* A stop ends every program it finds, also one that another start has     *)
(* just added and that waits for the ports of the first (manage.sh:38-39). *)
(***************************************************************************)
FoundIsEnded ==
  \A o \in Operators, i \in Instances :
    (script[o] = "looking" /\ i \in Matched) ~> (inst[i] = "dead")
==============================================================================
