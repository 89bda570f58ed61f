---------------------------- MODULE ManageProofs ----------------------------
(***************************************************************************)
(* Proofs about Manage, for any number of operators and of programs.       *)
(***************************************************************************)
EXTENDS Manage, TLAPS

LEMMA InitManage == ASSUME Init PROVE ManageInv
BY DEF Init, ManageInv, TypeOK, SaidStoppedIsGone

(* A program is started: what was hit or signalled is none of the new ones. *)
LEMMA StartCommandStep ==
  ASSUME ManageInv, NEW o \in Operators, StartCommand(o) PROVE ManageInv'
<1>1. PICK i \in Instances : inst[i] = "none" /\ inst' = [inst EXCEPT ![i] = "forked"]
  BY DEF StartCommand
<1>2. /\ script' = [script EXCEPT ![o] = "starting"]
      /\ said' = [said EXCEPT ![o] = "nothing"]
      /\ killed' = killed /\ target' = target
  BY DEF StartCommand
<1>3. TypeOK'
  BY <1>1, <1>2 DEF ManageInv, TypeOK
<1>4. \A j \in killed' : inst'[j] \in {"running", "serving", "dead"}
  BY <1>1, <1>2 DEF ManageInv, TypeOK
<1>5. \A q \in Operators : script'[q] # "idle" => said'[q] = "nothing"
  BY <1>2 DEF ManageInv, TypeOK
<1>6. SaidStoppedIsGone'
  BY <1>1, <1>2 DEF ManageInv, TypeOK, SaidStoppedIsGone
<1>7. QED
  BY <1>2, <1>3, <1>4, <1>5, <1>6 DEF ManageInv

(* A call of stop forgets what the one before has hit. *)
LEMMA StopCommandStep ==
  ASSUME ManageInv, NEW o \in Operators, StopCommand(o) PROVE ManageInv'
<1>1. /\ script' = [script EXCEPT ![o] = IF Matched = {} THEN "idle" ELSE "looking"]
      /\ said' = [said EXCEPT ![o] = IF Matched = {} THEN "was not running" ELSE "nothing"]
      /\ target' = [target EXCEPT ![o] = {}]
      /\ inst' = inst /\ killed' = killed
  BY DEF StopCommand
<1>2. TypeOK'
  BY <1>1 DEF ManageInv, TypeOK
<1>3. \A q \in Operators : script'[q] # "idle" => said'[q] = "nothing"
  BY <1>1 DEF ManageInv, TypeOK
<1>4. SaidStoppedIsGone'
  BY <1>1 DEF ManageInv, TypeOK, SaidStoppedIsGone
<1>5. \A q \in Operators : target'[q] \subseteq killed'
  BY <1>1 DEF ManageInv, TypeOK
<1>6. \A i \in killed' : inst'[i] \in {"running", "serving", "dead"}
  BY <1>1 DEF ManageInv
<1>7. QED
  BY <1>2, <1>3, <1>4, <1>5, <1>6 DEF ManageInv

(* pkill hits programs that run under their name, for a call that has said nothing. *)
LEMMA StopKillStep ==
  ASSUME ManageInv, NEW o \in Operators, StopKill(o) PROVE ManageInv'
<1>1. /\ killed' = killed \cup Matched
      /\ target' = [target EXCEPT ![o] = Matched]
      /\ script[o] = "looking"
      /\ script' = [script EXCEPT ![o] = "stopping"]
      /\ said' = said /\ inst' = inst
  BY DEF StopKill, PKill
<1>2. Matched \subseteq Instances /\ \A i \in Matched : inst[i] \in {"running", "serving"}
  BY DEF Matched
<1>3. said[o] = "nothing"
  BY <1>1 DEF ManageInv
<1>4. TypeOK'
  BY <1>1, <1>2 DEF ManageInv, TypeOK
<1>5. \A q \in Operators : target'[q] \subseteq killed'
  BY <1>1 DEF ManageInv, TypeOK
<1>6. \A q \in Operators : script'[q] # "idle" => said'[q] = "nothing"
  BY <1>1, <1>3 DEF ManageInv, TypeOK
<1>7. SaidStoppedIsGone'
  BY <1>1, <1>3 DEF ManageInv, TypeOK, SaidStoppedIsGone
<1>8. QED
  BY <1>1, <1>2, <1>4, <1>5, <1>6, <1>7 DEF ManageInv

(***************************************************************************)
(* stop says "stopped" only when no program answers to the name; those it  *)
(* has signalled did once, so they are gone.                               *)
(***************************************************************************)
LEMMA StopCheckStep ==
  ASSUME ManageInv, NEW o \in Operators, StopCheck(o) PROVE ManageInv'
<1>1. /\ said' = [said EXCEPT ![o] = IF Matched = {} THEN "stopped" ELSE "not stopped"]
      /\ script' = [script EXCEPT ![o] = "idle"]
      /\ inst' = inst /\ killed' = killed /\ target' = target
  BY DEF StopCheck
<1>2. TypeOK'
  BY <1>1 DEF ManageInv, TypeOK
<1>3. ASSUME Matched = {} PROVE \A i \in target[o] : inst[i] = "dead"
  BY <1>3 DEF ManageInv, TypeOK, Matched
<1>4. \A q \in Operators : script'[q] # "idle" => said'[q] = "nothing"
  BY <1>1 DEF ManageInv, TypeOK
<1>5. SaidStoppedIsGone'
  BY <1>1, <1>3 DEF ManageInv, TypeOK, SaidStoppedIsGone
<1>6. QED
  BY <1>1, <1>2, <1>4, <1>5 DEF ManageInv

LEMMA StartCheckStep ==
  ASSUME ManageInv, NEW o \in Operators, StartCheck(o) PROVE ManageInv'
<1>1. /\ said' = [said EXCEPT ![o] = IF Matched = {} THEN "not started" ELSE "started"]
      /\ script' = [script EXCEPT ![o] = "idle"]
      /\ inst' = inst /\ killed' = killed /\ target' = target
  BY DEF StartCheck
<1>2. TypeOK'
  BY <1>1 DEF ManageInv, TypeOK
<1>3. SaidStoppedIsGone'
  BY <1>1 DEF ManageInv, TypeOK, SaidStoppedIsGone
<1>4. QED
  BY <1>1, <1>2, <1>3 DEF ManageInv, TypeOK

(* A program goes from one stage of its life to a later one. *)
LEMMA InstanceStep ==
  ASSUME ManageInv, NEW i \in Instances, Exec(i) \/ BindPorts(i) \/ End(i)
  PROVE  ManageInv'
<1>1. PICK s \in {"running", "serving", "dead"} :
        /\ inst' = [inst EXCEPT ![i] = s]
        /\ inst[i] # "dead"
  BY DEF Exec, BindPorts, End, Matched
<1>2. script' = script /\ said' = said /\ killed' = killed /\ target' = target
  BY DEF Exec, BindPorts, End
<1>3. TypeOK'
  BY <1>1, <1>2 DEF ManageInv, TypeOK
<1>4. \A j \in killed' : inst'[j] \in {"running", "serving", "dead"}
  BY <1>1, <1>2 DEF ManageInv, TypeOK
<1>5. SaidStoppedIsGone'
  BY <1>1, <1>2 DEF ManageInv, TypeOK, SaidStoppedIsGone
<1>6. QED
  BY <1>2, <1>3, <1>4, <1>5 DEF ManageInv

(***************************************************************************)
(* ManageInv holds however calls of manage.sh, deaths and starts of        *)
(* programs interleave.                                                    *)
(***************************************************************************)
THEOREM ManageInvariant == Spec => []ManageInv
<1>1. Init => ManageInv
  BY InitManage
<1>2. ManageInv /\ [Next]_vars => ManageInv'
  <2> SUFFICES ASSUME ManageInv, [Next]_vars PROVE ManageInv'
    OBVIOUS
  <2>1. ASSUME NEW o \in Operators,
               StartCommand(o) \/ StopCommand(o) \/ Script(o)
        PROVE  ManageInv'
    BY <2>1, StartCommandStep, StopCommandStep, StartCheckStep, StopKillStep,
       StopCheckStep DEF Script
  <2>2. ASSUME NEW i \in Instances, Exec(i) \/ BindPorts(i) \/ End(i)
        PROVE  ManageInv'
    BY <2>2, InstanceStep
  <2>3. CASE UNCHANGED vars
    BY <2>3 DEF vars, ManageInv, TypeOK, SaidStoppedIsGone
  <2>4. QED
    BY <2>1, <2>2, <2>3 DEF Next
<1>3. QED
  BY <1>1, <1>2, PTL DEF Spec

(***************************************************************************)
(* Whoever reads that the system was stopped can rely on it for every      *)
(* program his own call has signalled (manage.sh:36-46).                   *)
(***************************************************************************)
THEOREM StoppedIsGone == Spec => []SaidStoppedIsGone
<1>1. ManageInv => SaidStoppedIsGone
  BY DEF ManageInv
<1>2. QED
  BY <1>1, ManageInvariant, PTL
==============================================================================
