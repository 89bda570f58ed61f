--------------------------- MODULE QwinMainProofs ---------------------------
(***************************************************************************)
(* Proofs about QwinMain, for any number of ports and worker threads.      *)
(***************************************************************************)
EXTENDS QwinMain, TLAPS

LEMMA InitMain == ASSUME Init PROVE MainInv
<1> USE QwinMainAssumption DEF Init, Ports, Workers
<1>1. TypeOK             BY DEF TypeOK
<1>2. PortsAreExclusive  BY DEF PortsAreExclusive
<1>3. PhasesInOrder      BY DEF PhasesInOrder
<1>4. WorkersInOrder     BY DEF WorkersInOrder
<1>5. QED  BY <1>1, <1>2, <1>3, <1>4 DEF MainInv, NothingOutlivesPool

(***************************************************************************)
(* A worker that cannot be started ends the program: with the first of     *)
(* them nothing is left, with a later one the pool is not destroyed.       *)
(***************************************************************************)
LEMMA SpawnFailsStep == ASSUME MainInv, SpawnFails PROVE MainInv'
<1> DEFINE rest == <<next, workers, servers, bound, proxy, others, takes>>
<1>1. /\ main = "spawning"
      /\ next \in Workers
      /\ main' = IF next = 1 THEN "exit 1" ELSE "aborted"
      /\ pool' = IF next = 1 THEN "destroyed" ELSE pool
      /\ UNCHANGED rest
  BY Zenon DEF SpawnFails
<1>2. TypeOK /\ PortsAreExclusive /\ PhasesInOrder /\ WorkersInOrder
      /\ pool # "destroyed"
  BY <1>1 DEF MainInv
<1>3. TypeOK'
  BY <1>1, <1>2 DEF TypeOK
<1>4. PortsAreExclusive'
  BY <1>1, <1>2 DEF PortsAreExclusive
<1>5. PhasesInOrder' /\ WorkersInOrder'
  BY <1>1 DEF PhasesInOrder, WorkersInOrder
<1>6. CASE next = 1
  <2>1. \A w \in Workers : workers[w] = "none"
    <3>1. \A w \in Workers : w >= next
      BY QwinMainAssumption, <1>6 DEF Workers
    <3>2. QED  BY <1>1, <1>2, <3>1 DEF WorkersInOrder
  <2>2. servers = {} /\ bound = {} /\ proxy = {}
    BY <1>1, <1>2 DEF TypeOK, PhasesInOrder
  <2>3. /\ workers' = workers /\ servers' = {} /\ bound' = {} /\ proxy' = {}
        /\ \A w \in Workers : workers[w] = "none"
    BY <1>1, <2>1, <2>2
  <2>4. NothingOutlivesPool'
    BY <2>3 DEF NothingOutlivesPool
  <2>5. main' = "exit 1"
    BY <1>1, <1>6
  <2>6. QED  BY <1>3, <1>4, <1>5, <2>4, <2>5 DEF MainInv
<1>7. CASE next # 1
  <2>1. pool' # "destroyed"
    BY <1>1, <1>2, <1>7
  <2>2. QED  BY <1>3, <1>4, <1>5, <2>1 DEF MainInv, NothingOutlivesPool
<1>8. QED  BY <1>6, <1>7

(* The proxy's thread starts with all ports bound, or cannot start. *)
LEMMA ProxyServesStep == ASSUME MainInv, ProxyServes PROVE MainInv'
<1> DEFINE rest == <<next, workers, pool, servers, bound, proxy, others, takes>>
<1>1. /\ main = "proxy"
      /\ next \notin Ports
      /\ main' \in {"serving", "announcing"}
      /\ UNCHANGED rest
  BY Zenon DEF ProxyServes
<1>2. TypeOK /\ PortsAreExclusive /\ PhasesInOrder /\ NothingOutlivesPool
      /\ pool # "destroyed"
  BY <1>1 DEF MainInv
<1>3. proxy = Ports
  <2>1. next = PortCount + 1 /\ proxy = 1..(next - 1)
    BY QwinMainAssumption, <1>1, <1>2 DEF PhasesInOrder, Ports
  <2>2. next - 1 = PortCount
    BY QwinMainAssumption, <2>1
  <2>3. QED  BY <2>1, <2>2 DEF Ports
<1>4. TypeOK'
  BY <1>1, <1>2 DEF TypeOK
<1>5. PortsAreExclusive' /\ NothingOutlivesPool' /\ pool' # "destroyed"
  BY <1>1, <1>2 DEF PortsAreExclusive, NothingOutlivesPool
<1>6. PhasesInOrder' /\ WorkersInOrder'
  BY <1>1, <1>3 DEF PhasesInOrder, WorkersInOrder
<1>7. QED  BY <1>4, <1>5, <1>6 DEF MainInv

(***************************************************************************)
(* One more port of the proxy, which no server is bound to; or the first   *)
(* it cannot have, which is the end of its start.                          *)
(***************************************************************************)
LEMMA ProxyOpensPortStep == ASSUME MainInv, ProxyOpensPort PROVE MainInv'
<1>1. /\ main = "proxy"
      /\ next \in Ports
      /\ UNCHANGED <<workers, pool, servers, bound, others, takes>>
  BY DEF ProxyOpensPort
<1>2. TypeOK /\ PortsAreExclusive /\ PhasesInOrder /\ NothingOutlivesPool
      /\ pool # "destroyed"
  BY <1>1 DEF MainInv
<1>3. NothingOutlivesPool' /\ pool' # "destroyed"
  BY <1>1, <1>2 DEF NothingOutlivesPool
<1>4. proxy = 1..(next - 1) /\ next \in 1..PortCount
  BY <1>1, <1>2 DEF PhasesInOrder, Ports
<1>5. CASE Free(next)
  <2>1. proxy' = proxy \cup {next} /\ next' = next + 1 /\ main' = "proxy"
    BY <1>1, <1>5 DEF ProxyOpensPort
  <2>2. next' \in 1..(PortCount + 1) /\ proxy' = 1..(next' - 1)
    BY QwinMainAssumption, <1>4, <2>1
  <2>3. TypeOK'
    <3>1. proxy' \subseteq Ports /\ next' \in Nat
      BY <1>1, <1>2, <1>4, <2>1 DEF TypeOK
    <3>2. QED  BY <1>1, <1>2, <2>1, <3>1 DEF TypeOK
  <2>4. PortsAreExclusive'
    BY <1>1, <1>2, <1>5, <2>1 DEF PortsAreExclusive, Free
  <2>5. PhasesInOrder' /\ WorkersInOrder'
    BY <2>1, <2>2 DEF PhasesInOrder, WorkersInOrder
  <2>6. QED  BY <1>3, <2>3, <2>4, <2>5 DEF MainInv
<1>6. CASE ~Free(next)
  <2>1. main' = "announcing" /\ proxy' = proxy /\ next' = next
    BY <1>6 DEF ProxyOpensPort
  <2>2. TypeOK'
    BY <1>1, <1>2, <2>1 DEF TypeOK
  <2>3. PortsAreExclusive' /\ PhasesInOrder' /\ WorkersInOrder'
    BY <1>1, <1>2, <2>1 DEF PortsAreExclusive, PhasesInOrder, WorkersInOrder
  <2>4. QED  BY <1>3, <2>2, <2>3 DEF MainInv
<1>7. QED  BY <1>5, <1>6

(* A port another process takes is none of the program's. *)
LEMMA OthersBindStep ==
  ASSUME MainInv, NEW p \in Ports, OthersBind(p) PROVE MainInv'
<1>1. /\ others' = others \cup {p} /\ takes' = takes + 1
      /\ UNCHANGED <<main, next, workers, pool, servers, bound, proxy>>
  BY Zenon DEF OthersBind
<1>2. others' \subseteq Ports /\ takes' \in Nat
  <2>1. others \subseteq Ports /\ takes \in Nat  BY DEF MainInv, TypeOK
  <2>2. others' \subseteq Ports  BY <1>1, <2>1
  <2>3. takes' \in Nat           BY <1>1, <2>1
  <2>4. QED  BY <2>2, <2>3
<1>3. TypeOK'
  BY <1>1, <1>2 DEF MainInv, TypeOK
<1>4. PortsAreExclusive' /\ PhasesInOrder' /\ WorkersInOrder'
  BY <1>1 DEF MainInv, PortsAreExclusive, PhasesInOrder, WorkersInOrder
<1>5. NothingOutlivesPool' /\ (pool = "destroyed" => main \in {"exit 0", "exit 1"})'
  BY <1>1 DEF MainInv, NothingOutlivesPool
<1>6. QED  BY <1>3, <1>4, <1>5 DEF MainInv

(* Every step of main preserves the invariant, one action at a time. *)
LEMMA MainSteps == ASSUME MainInv, Main PROVE MainInv'
<1> USE QwinMainAssumption
    DEF MainInv, TypeOK, PortsAreExclusive, PhasesInOrder, WorkersInOrder,
        NothingOutlivesPool, Ports, Workers
<1>1. CASE LoadConfig      BY <1>1 DEF LoadConfig
<1>2. CASE SpawnWorker     BY <1>2 DEF SpawnWorker
<1>3. CASE SpawnFails      BY <1>3, SpawnFailsStep
<1>4. CASE PoolReady       BY <1>4 DEF PoolReady
<1>5. CASE CreateServer    BY <1>5 DEF CreateServer, Free
<1>6. CASE ServersReady    BY <1>6 DEF ServersReady
<1>7. CASE ProxyOpensPort  BY <1>7, ProxyOpensPortStep
<1>8. CASE ProxyServes     BY <1>8, ProxyServesStep
<1>9. CASE Announce        BY <1>9 DEF Announce
<1>10. CASE MainRuns       BY <1>10 DEF MainRuns
<1>11. CASE CloseProxy     BY <1>11 DEF CloseProxy
<1>12. ASSUME NEW p \in Ports, CloseServer(p) PROVE MainInv'
  BY <1>12 DEF CloseServer
<1>13. CASE StopPool       BY <1>13 DEF StopPool
<1>14. ASSUME NEW w \in Workers, JoinWorker(w) PROVE MainInv'
  BY <1>14 DEF JoinWorker
<1>15. CASE Exit           BY <1>15 DEF Exit
<1>16. QED
  BY <1>1, <1>2, <1>3, <1>4, <1>5, <1>6, <1>7, <1>8, <1>9, <1>10, <1>11,
     <1>12, <1>13, <1>14, <1>15 DEF Main

(* So do the workers, the end of the proxy and other processes. *)
LEMMA NextSteps == ASSUME MainInv, [Next]_vars PROVE MainInv'
<1> USE QwinMainAssumption
    DEF MainInv, TypeOK, PortsAreExclusive, PhasesInOrder, WorkersInOrder,
        NothingOutlivesPool, Ports, Workers
<1>1. CASE Main  BY <1>1, MainSteps
<1>2. ASSUME NEW w \in Workers, WorkerRuns(w) PROVE MainInv'
  BY <1>2 DEF WorkerRuns, Ended
<1>3. CASE ProxyEnds  BY <1>3 DEF ProxyEnds
<1>4. ASSUME NEW p \in Ports, OthersBind(p) PROVE MainInv'
  BY <1>4, OthersBindStep
<1>5. ASSUME NEW p \in Ports, OthersRelease(p) PROVE MainInv'
  BY <1>5 DEF OthersRelease
<1>6. CASE UNCHANGED vars  BY <1>6 DEF vars
<1>7. QED  BY <1>1, <1>2, <1>3, <1>4, <1>5, <1>6 DEF Next

(***************************************************************************)
(* The inductive invariant of main holds, whatever the number of ports and *)
(* workers, whichever threads fail and whatever other processes bind.      *)
(***************************************************************************)
THEOREM MainInvariant == Spec => []MainInv
<1>1. Init => MainInv                      BY InitMain
<1>2. MainInv /\ [Next]_vars => MainInv'   BY NextSteps
<1>3. QED  BY <1>1, <1>2, PTL DEF Spec

(***************************************************************************)
(* The proxy of main.cpp:70-71 serves only where no ServerEmulator of      *)
(* main.cpp:54-57 is bound.                                                *)
(***************************************************************************)
THEOREM ProxyServesAlone == Spec => []ServesAlone
<1>1. MainInv => ServesAlone
  BY DEF MainInv, TypeOK, PortsAreExclusive, PhasesInOrder, ServesAlone, Ports
<1>2. QED  BY <1>1, MainInvariant, PTL

(***************************************************************************)
(* No worker and no socket outlives the io_context of the ThreadPool       *)
(* (main.cpp:14-27).                                                       *)
(***************************************************************************)
THEOREM PoolOutlivesAll == Spec => []NothingOutlivesPool
<1>1. MainInv => NothingOutlivesPool  BY DEF MainInv
<1>2. QED  BY <1>1, MainInvariant, PTL
==============================================================================
