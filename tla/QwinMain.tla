------------------------------ MODULE QwinMain ------------------------------
(***************************************************************************)
(* main of src/main.cpp with its ThreadPool, the ServerEmulators it        *)
(* creates and the life of its UdpProxy: who holds which port, which       *)
(* threads run, and in which order everything is made and destroyed.  What *)
(* the proxy does while it serves is UdpProxy's matter; here it serves     *)
(* until it ends.  No server starts an operation, so the pool's io_context *)
(* never has work and every run() of it returns at once.                   *)
(***************************************************************************)
EXTENDS Integers, FiniteSets

CONSTANTS
  PortCount,       \* serverPortEnd - serverPortStart + 1; ports count from the first
  WorkerCount,     \* hardware_concurrency(), which may be 0
  ThreadsMayFail,  \* whether std::thread may throw
  MaxTakes         \* bound: ports other processes bind

ASSUME QwinMainAssumption ==
  /\ PortCount \in Nat
  /\ WorkerCount \in Nat
  /\ ThreadsMayFail \in BOOLEAN
  /\ MaxTakes \in Nat

Ports == 1..PortCount
Workers == 1..WorkerCount

VARIABLES
  main,     \* where main is
  next,     \* the port or worker its loop is at
  workers,  \* per worker thread: "none", "running", "finished" or "joined"
  pool,     \* the pool's io_context: "none", "alive", "stopped" or "destroyed"
  servers,  \* ServerEmulator objects, by the port they were made for
  bound,    \* those of them that are bound
  proxy,    \* ports the UdpProxy's sockets are bound to
  others,   \* ports other processes are bound to
  takes     \* how many they have taken

vars == <<main, next, workers, pool, servers, bound, proxy, others, takes>>

TypeOK ==
  /\ main \in {"config", "spawning", "servers", "proxy", "serving", "announcing",
               "running", "closing", "joining", "exit 0", "exit 1", "aborted"}
  /\ next \in Nat
  /\ workers \in [Workers -> {"none", "running", "finished", "joined"}]
  /\ pool \in {"none", "alive", "stopped", "destroyed"}
  /\ bound \subseteq servers /\ servers \subseteq Ports
  /\ proxy \subseteq Ports
  /\ others \subseteq Ports
  /\ takes \in Nat

Init ==
  /\ main = "config"
  /\ next = 1
  /\ workers = [w \in Workers |-> "none"]
  /\ pool = "none"
  /\ servers = {} /\ bound = {}
  /\ proxy = {}
  /\ others = {}
  /\ takes = 0

(* Mutation of Free: the sockets of the program set SO_REUSEADDR. *)
FreeReused(p) == p \notin others

(* bind succeeds on a port nobody is bound to; SO_REUSEADDR is never set. *)
Free(p) == p \notin bound \cup proxy \cup others

(* The program has ended; nothing of it is left. *)
Ended == main \in {"exit 0", "exit 1", "aborted"}

------------------------------------------------------------------------------
(* No argument, an argv[2] that is not there, or a file that does not load. *)
LoadConfig ==
  /\ main = "config"
  /\ \/ main' = "spawning" /\ pool' = "alive"
     \/ main' = "exit 1" /\ UNCHANGED pool
  /\ UNCHANGED <<next, workers, servers, bound, proxy, others, takes>>

(***************************************************************************)
(* The constructor of ThreadPool.  If a thread cannot be started, the      *)
(* vector with those that were is destroyed while they are joinable: that  *)
(* is std::terminate, unless there are none.                               *)
(***************************************************************************)
SpawnWorker ==
  /\ main = "spawning"
  /\ next \in Workers
  /\ workers' = [workers EXCEPT ![next] = "running"]
  /\ next' = next + 1
  /\ UNCHANGED <<main, pool, servers, bound, proxy, others, takes>>

(* Mutation of SpawnFails: the workers are detached, the exception is caught. *)
SpawnFailsDetached ==
  /\ ThreadsMayFail
  /\ main = "spawning"
  /\ next \in Workers
  /\ main' = "exit 1"
  /\ pool' = "destroyed"
  /\ UNCHANGED <<next, workers, servers, bound, proxy, others, takes>>

SpawnFails ==
  /\ ThreadsMayFail
  /\ main = "spawning"
  /\ next \in Workers
  /\ main' = IF next = 1 THEN "exit 1" ELSE "aborted"
  /\ pool' = IF next = 1 THEN "destroyed" ELSE pool
  /\ UNCHANGED <<next, workers, servers, bound, proxy, others, takes>>

PoolReady ==
  /\ main = "spawning"
  /\ next \notin Workers
  /\ main' = "servers"
  /\ next' = 1
  /\ UNCHANGED <<workers, pool, servers, bound, proxy, others, takes>>

(* A worker's run() finds no work: it stops the context and returns. *)
WorkerRuns(w) ==
  /\ ~Ended
  /\ workers[w] = "running"
  /\ workers' = [workers EXCEPT ![w] = "finished"]
  /\ pool' = "stopped"
  /\ UNCHANGED <<main, next, servers, bound, proxy, others, takes>>

(* Mutation of CreateServer: the loop goes one port too far. *)
CreateServerPastEnd ==
  /\ main = "servers"
  /\ next <= PortCount + 1
  /\ servers' = servers \cup {next}
  /\ bound' = IF Free(next) THEN bound \cup {next} ELSE bound
  /\ next' = next + 1
  /\ UNCHANGED <<main, workers, pool, proxy, others, takes>>

(* A server is made for every port; a failure to bind stays inside it. *)
CreateServer ==
  /\ main = "servers"
  /\ next \in Ports
  /\ servers' = servers \cup {next}
  /\ bound' = IF Free(next) THEN bound \cup {next} ELSE bound
  /\ next' = next + 1
  /\ UNCHANGED <<main, workers, pool, proxy, others, takes>>

ServersReady ==
  /\ main = "servers"
  /\ next \notin Ports
  /\ main' = "proxy"
  /\ next' = 1
  /\ UNCHANGED <<workers, pool, servers, bound, proxy, others, takes>>

(* startProxy binds the same ports again; the first it cannot have ends it. *)
ProxyOpensPort ==
  /\ main = "proxy"
  /\ next \in Ports
  /\ IF Free(next)
     THEN proxy' = proxy \cup {next} /\ next' = next + 1 /\ UNCHANGED main
     ELSE main' = "announcing" /\ UNCHANGED <<proxy, next>>
  /\ UNCHANGED <<workers, pool, servers, bound, others, takes>>

(* With all ports bound its thread runs the proxy's own io_context, or cannot start. *)
ProxyServes ==
  /\ main = "proxy"
  /\ next \notin Ports
  /\ \/ main' = "serving"
     \/ ThreadsMayFail /\ main' = "announcing"
  /\ UNCHANGED <<next, workers, pool, servers, bound, proxy, others, takes>>

ProxyEnds ==
  /\ main = "serving"
  /\ main' = "announcing"
  /\ UNCHANGED <<next, workers, pool, servers, bound, proxy, others, takes>>

(* The message of line 74, then run() on the pool's context. *)
Announce ==
  /\ main = "announcing"
  /\ main' = "running"
  /\ UNCHANGED <<next, workers, pool, servers, bound, proxy, others, takes>>

MainRuns ==
  /\ main = "running"
  /\ pool' = "stopped"
  /\ main' = "closing"
  /\ UNCHANGED <<next, workers, servers, bound, proxy, others, takes>>

(* The end of the try block: proxy, servers and pool go in this order. *)
CloseProxy ==
  /\ main = "closing"
  /\ proxy # {}
  /\ proxy' = {}
  /\ UNCHANGED <<main, next, workers, pool, servers, bound, others, takes>>

(* Mutation of CloseServer: only a bound server can be destroyed. *)
CloseServerBound(p) ==
  /\ main = "closing"
  /\ proxy = {}
  /\ p \in bound
  /\ servers' = servers \ {p}
  /\ bound' = bound \ {p}
  /\ UNCHANGED <<main, next, workers, pool, proxy, others, takes>>

CloseServer(p) ==
  /\ main = "closing"
  /\ proxy = {}
  /\ p \in servers
  /\ \A q \in servers : p <= q
  /\ servers' = servers \ {p}
  /\ bound' = bound \ {p}
  /\ UNCHANGED <<main, next, workers, pool, proxy, others, takes>>

StopPool ==
  /\ main = "closing"
  /\ proxy = {} /\ servers = {}
  /\ pool' = "stopped"
  /\ main' = "joining"
  /\ UNCHANGED <<next, workers, servers, bound, proxy, others, takes>>

JoinWorker(w) ==
  /\ main = "joining"
  /\ workers[w] = "finished"
  /\ workers' = [workers EXCEPT ![w] = "joined"]
  /\ UNCHANGED <<main, next, pool, servers, bound, proxy, others, takes>>

Exit ==
  /\ main = "joining"
  /\ \A w \in Workers : workers[w] = "joined"
  /\ pool' = "destroyed"
  /\ main' = "exit 0"
  /\ UNCHANGED <<next, workers, servers, bound, proxy, others, takes>>

Main ==
  \/ LoadConfig
  \/ SpawnWorker \/ SpawnFails \/ PoolReady
  \/ CreateServer \/ ServersReady
  \/ ProxyOpensPort \/ ProxyServes
  \/ Announce \/ MainRuns
  \/ CloseProxy \/ (\E p \in Ports : CloseServer(p)) \/ StopPool
  \/ (\E w \in Workers : JoinWorker(w)) \/ Exit

(* Other processes. *)
OthersBind(p) ==
  /\ takes < MaxTakes
  /\ Free(p)
  /\ others' = others \cup {p}
  /\ takes' = takes + 1
  /\ UNCHANGED <<main, next, workers, pool, servers, bound, proxy>>

OthersRelease(p) ==
  /\ p \in others
  /\ others' = others \ {p}
  /\ UNCHANGED <<main, next, workers, pool, servers, bound, proxy, takes>>

Next ==
  \/ Main
  \/ \E w \in Workers : WorkerRuns(w)
  \/ ProxyEnds
  \/ \E p \in Ports : OthersBind(p) \/ OthersRelease(p)

Spec == Init /\ [][Next]_vars

(* Every thread runs; whether the proxy ever ends is up to its clients. *)
Fairness ==
  /\ WF_vars(Main)
  /\ \A w \in Workers : WF_vars(WorkerRuns(w))

FairSpec == Spec /\ Fairness

------------------------------------------------------------------------------
(***************************************************************************)
(* The proxy serves only where no emulated server is bound: both are given *)
(* the same ports (main.cpp:54-57 and 70), so a server that did bind keeps *)
(* the proxy from starting.                                                *)
(***************************************************************************)
ServesAlone == main = "serving" => bound = {} /\ proxy = Ports

(***************************************************************************)
(* Nothing outlives the pool's io_context: when it is destroyed no worker  *)
(* thread that captured the pool runs or waits to be joined, and no socket *)
(* opened on it is left (main.cpp:14-27, 49-72), also when only some of    *)
(* the workers could be started.                                           *)
(***************************************************************************)
NothingOutlivesPool ==
  pool = "destroyed" =>
    /\ bound = {} /\ servers = {} /\ proxy = {}
    /\ \A w \in Workers : workers[w] \in {"none", "joined"}

(***************************************************************************)
(* Why both hold.  No port is held by a server and the proxy at a time;    *)
(* the proxy holds the ports its loop has passed; before the servers are   *)
(* made and after they are closed there are none; no worker is started out *)
(* of order; and the pool is destroyed only by an end of the program that  *)
(* is not std::terminate.                                                  *)
(***************************************************************************)
PortsAreExclusive == bound \cap proxy = {}

PhasesInOrder ==
  /\ main \in {"config", "spawning"} => servers = {}
  /\ main \in {"config", "spawning", "servers"} => proxy = {}
  /\ main = "config" => next = 1
  /\ main = "proxy" => next \in 1..(PortCount + 1) /\ proxy = 1..(next - 1)
  /\ main = "serving" => proxy = Ports
  /\ main = "joining" => servers = {} /\ proxy = {}

WorkersInOrder ==
  main \in {"config", "spawning"} =>
    /\ next >= 1
    /\ \A w \in Workers : w >= next => workers[w] = "none"

(* The inductive invariant of main. *)
MainInv ==
  /\ TypeOK
  /\ PortsAreExclusive
  /\ PhasesInOrder
  /\ WorkersInOrder
  /\ pool = "destroyed" => main \in {"exit 0", "exit 1"}
  /\ NothingOutlivesPool

(***************************************************************************)
(* Once the proxy is through, main gets to its end: the pool's threads and *)
(* main's own run() return, and every join does.                           *)
(***************************************************************************)
EndsAfterProxy == (main = "announcing") ~> (main = "exit 0")
==============================================================================
