---------------------------- MODULE MasterReports ----------------------------
(***************************************************************************)
(* What reports to the master server on the io_context of the pool: the    *)
(* ServerEmulator of src/server_emulator.cpp, whose detached thread sends  *)
(* a packet a minute, that of modules_1, and Steam of src/steam.cpp.       *)
(* asio is reduced to what matters here: a send is made at once or waits   *)
(* until a thread in run() finds room; AsioUdp and Scheduler have the rest.*)
(* Bytes on the wire are left out: a send that waits reads memory that was *)
(* gone when the sending function returned, and may send anything.         *)
(***************************************************************************)
EXTENDS A2SPackets, FiniteSets, FiniteSetsExt

CONSTANTS
  Servers,       \* emulated servers
  Modules1,      \* those of them that are of the class of modules_1
  SteamClients,  \* objects of class Steam
  Configs,       \* what the configuration file may say
  Port,          \* the port of each server
  MaxBacklog,    \* bound: operations of one socket not yet completed
  MaxFills,      \* bound: times send buffers fill up, in all
  BufferSizes    \* bound: sizes of buffers the builders are asked about

Senders == Servers \cup SteamClients

(* A std::string, and the struct Config: its counts are not negative. *)
Text == Seq(0..255)

ConfigType ==
  [ip : Text, name : Text, map : Text, players : Nat, maxPlayers : Nat,
   version : Nat, playersList : Seq(Text)]

ASSUME MasterReportsAssumption ==
  /\ IsFiniteSet(Senders)
  /\ Servers \cap SteamClients = {}
  /\ Modules1 \subseteq Servers
  /\ Configs \subseteq ConfigType
  /\ Port \in [Servers -> Nat]
  /\ MaxBacklog \in Nat \ {0}
  /\ MaxFills \in Nat
  /\ BufferSizes \subseteq Nat

VARIABLES
  config,    \* Config: the address, and what the answers to queries tell
  life,      \* per sender: "none", "open", "closed" (no socket) or "destroyed"
  bound,     \* the member bound of each server
  thread,    \* per server: "none", "idle" between two reports, "resolving", "sending"
  full,      \* per sender, whether sendto would block
  waiting,   \* per sender, how many sends wait at its descriptor
  posted,    \* completions in the queue of the context
  pool,      \* "starting", "running", "stopped": the threads in run()
  undefined, \* an object was used after its end: nothing is said of what follows
  fills,     \* how often a socket has become full
  sent       \* history: of whom a packet left in the last step, if any did

vars == <<config, life, bound, thread, full, waiting, posted, pool, undefined, fills, sent>>

TypeOK ==
  /\ config \in Configs
  /\ life \in [Senders -> {"none", "open", "closed", "destroyed"}]
  /\ bound \in [Servers -> BOOLEAN]
  /\ thread \in [Servers -> {"none", "idle", "resolving", "sending"}]
  /\ full \in [Senders -> BOOLEAN]
  /\ waiting \in [Senders -> Nat]
  /\ posted \in Nat
  /\ pool \in {"starting", "running", "stopped"}
  /\ undefined \in BOOLEAN
  /\ fills \in Nat
  /\ sent \subseteq Senders

Init ==
  /\ config \in Configs
  /\ life = [s \in Senders |-> "none"]
  /\ bound = [s \in Servers |-> FALSE]
  /\ thread = [s \in Servers |-> "none"]
  /\ full = [s \in Senders |-> FALSE]
  /\ waiting = [s \in Senders |-> 0]
  /\ posted = 0
  /\ pool = "starting"
  /\ undefined = FALSE
  /\ fills = 0
  /\ sent = {}

Waiting == FoldSet(LAMBDA s, n : n + waiting[s], 0, Senders)
Room(s) == waiting[s] + posted < MaxBacklog

------------------------------------------------------------------------------
(* Constructors and destructors. *)
(* Mutation of BindServer: bound is set by the constructor of modules_1 too. *)
BindServerSetting(s) ==
  /\ life' = [life EXCEPT ![s] = "open"]
  /\ bound' = [bound EXCEPT ![s] = TRUE]

BindServer(s) ==
  /\ life' = [life EXCEPT ![s] = "open"]
  /\ bound' = [bound EXCEPT ![s] = s \notin Modules1]

(***************************************************************************)
(* The constructor: if the port cannot be bound, the root class logs it    *)
(* and has an object without a socket; that of modules_1 throws, and there *)
(* is no object.                                                           *)
(***************************************************************************)
CreateServer(s) ==
  /\ ~undefined
  /\ life[s] = "none"
  /\ \/ BindServer(s)
     \/ /\ s \notin Modules1
        /\ life' = [life EXCEPT ![s] = "closed"]
        /\ UNCHANGED bound
  /\ sent' = {}
  /\ UNCHANGED <<config, thread, full, waiting, posted, pool, undefined, fills>>

CreateSteam(s) ==
  /\ ~undefined
  /\ life[s] = "none"
  /\ life' = [life EXCEPT ![s] = "open"]
  /\ sent' = {}
  /\ UNCHANGED <<config, bound, thread, full, waiting, posted, pool, undefined, fills>>

(* Mutation of Abort: sends that wait are left with the descriptor. *)
AbortLeaving(s) == UNCHANGED <<waiting, posted>>

(* Closing a socket completes the sends that wait at it, with an error. *)
Abort(s) ==
  /\ waiting' = [waiting EXCEPT ![s] = 0]
  /\ posted' = posted + waiting[s]

(***************************************************************************)
(* The thread of a server, if it has one, goes on.  Closing the socket and *)
(* a send of that thread exclude each other by the mutex of the            *)
(* descriptor; a thread that comes second uses what is destroyed.          *)
(***************************************************************************)
Destroy(s) ==
  /\ ~undefined
  /\ life[s] \in {"open", "closed"}
  /\ life' = [life EXCEPT ![s] = "destroyed"]
  /\ Abort(s)
  /\ sent' = {}
  /\ UNCHANGED <<config, bound, thread, full, pool, undefined, fills>>

------------------------------------------------------------------------------
(* Sending. *)

(* Mutation of Send: a report overtakes those that wait. *)
SendOvertaking(s) ==
  \/ ~full[s] /\ sent' = {s} /\ posted' = posted + 1 /\ UNCHANGED waiting
  \/ waiting' = [waiting EXCEPT ![s] = @ + 1] /\ sent' = {} /\ UNCHANGED posted

(***************************************************************************)
(* async_send_to: sendto is tried at once by the caller, in run() or not,  *)
(* unless earlier sends wait, and takes the packet or rejects it; else the *)
(* send waits.                                                             *)
(***************************************************************************)
Send(s) ==
  IF ~full[s] /\ waiting[s] = 0 THEN
    /\ sent' \in {{}, {s}}
    /\ posted' = posted + 1
    /\ UNCHANGED waiting
  ELSE
    /\ waiting' = [waiting EXCEPT ![s] = @ + 1]
    /\ sent' = {} /\ UNCHANGED posted

ListenForConnections(s) ==
  /\ ~undefined
  /\ life[s] \in {"open", "closed"}
  /\ bound[s]
  /\ thread[s] = "none"
  /\ thread' = [thread EXCEPT ![s] = "idle"]
  /\ sent' = {}
  /\ UNCHANGED <<config, life, bound, full, waiting, posted, pool, undefined, fills>>

(* The thread has started, or slept for a minute, and reads the address. *)
BeginReport(s) ==
  /\ ~undefined /\ life[s] = "open"
  /\ thread[s] = "idle"
  /\ thread' = [thread EXCEPT ![s] = "resolving"]
  /\ sent' = {}
  /\ UNCHANGED <<config, life, bound, full, waiting, posted, pool, undefined, fills>>

Resolve(s) ==
  /\ ~undefined /\ life[s] = "open"
  /\ thread[s] = "resolving"
  /\ thread' = [thread EXCEPT ![s] = "sending"]
  /\ sent' = {}
  /\ UNCHANGED <<config, life, bound, full, waiting, posted, pool, undefined, fills>>

(* Mutation of Sleep: the loop is left. *)
SleepForGood(s) == thread' = [thread EXCEPT ![s] = "none"]

Sleep(s) == thread' = [thread EXCEPT ![s] = "idle"]

(* What resolve throws is logged; nothing of the server is touched. *)
ResolveFails(s) ==
  /\ ~undefined
  /\ thread[s] = "resolving"
  /\ Sleep(s)
  /\ sent' = {}
  /\ UNCHANGED <<config, life, bound, full, waiting, posted, pool, undefined, fills>>

SendMasterServerInfo(s) ==
  /\ ~undefined /\ life[s] = "open"
  /\ thread[s] = "sending"
  /\ Room(s)
  /\ Send(s)
  /\ Sleep(s)
  /\ UNCHANGED <<config, life, bound, full, pool, undefined, fills>>

(* The thread reads the address, the port or the socket of a server that is gone. *)
UseDestroyed(s) ==
  /\ ~undefined /\ life[s] = "destroyed"
  /\ thread[s] # "none"
  /\ undefined' = TRUE
  /\ sent' = {}
  /\ UNCHANGED <<config, life, bound, thread, full, waiting, posted, pool, fills>>

(* sendChallengeResponse and sendServerUpdate: a send, from a local vector. *)
SendSteamPacket(s) ==
  /\ ~undefined /\ life[s] = "open" /\ Room(s)
  /\ Send(s)
  /\ UNCHANGED <<config, life, bound, thread, full, pool, undefined, fills>>

------------------------------------------------------------------------------
(* The context and the kernel. *)

(* A thread of the pool calls run(): without work the context stops. *)
PoolRuns ==
  /\ ~undefined /\ pool = "starting"
  /\ pool' = IF posted + Waiting = 0 THEN "stopped" ELSE "running"
  /\ sent' = {}
  /\ UNCHANGED <<config, life, bound, thread, full, waiting, posted, undefined, fills>>

(* Mutation of RunCompletion: the context stops when nothing is queued. *)
RunCompletionStopping ==
  /\ ~undefined /\ pool = "running" /\ posted > 0
  /\ posted' = posted - 1
  /\ pool' = IF posted' = 0 THEN "stopped" ELSE "running"
  /\ sent' = {}
  /\ UNCHANGED <<config, life, bound, thread, full, waiting, undefined, fills>>

(* Handlers only log, and hold nothing of the server but a copy of a name. *)
RunCompletion ==
  /\ ~undefined /\ pool = "running" /\ posted > 0
  /\ posted' = posted - 1
  /\ pool' = IF posted' + Waiting = 0 THEN "stopped" ELSE "running"
  /\ sent' = {}
  /\ UNCHANGED <<config, life, bound, thread, full, waiting, undefined, fills>>

(***************************************************************************)
(* perform_io, by a thread in run(): the sends that wait are made, all of  *)
(* them or those that fit before the socket is full.                       *)
(***************************************************************************)
Flush(s) ==
  /\ ~undefined /\ pool = "running"
  /\ ~full[s]
  /\ \E n \in 1..waiting[s] :
       LET all == n = waiting[s] IN
       /\ all \/ fills < MaxFills
       /\ full' = [full EXCEPT ![s] = ~all]
       /\ fills' = IF all THEN fills ELSE fills + 1
       /\ waiting' = [waiting EXCEPT ![s] = @ - n]
       /\ posted' = posted + n
  /\ sent' \in {{}, {s}}
  /\ UNCHANGED <<config, life, bound, thread, pool, undefined>>

Fill(s) ==
  /\ ~undefined /\ life[s] = "open" /\ ~full[s]
  /\ fills < MaxFills
  /\ fills' = fills + 1
  /\ full' = [full EXCEPT ![s] = TRUE]
  /\ sent' = {}
  /\ UNCHANGED <<config, life, bound, thread, waiting, posted, pool, undefined>>

Drain(s) ==
  /\ ~undefined /\ full[s]
  /\ full' = [full EXCEPT ![s] = FALSE]
  /\ sent' = {}
  /\ UNCHANGED <<config, life, bound, thread, waiting, posted, pool, undefined, fills>>

Reporter(s) ==
  \/ BeginReport(s) \/ Resolve(s) \/ ResolveFails(s)
  \/ SendMasterServerInfo(s) \/ UseDestroyed(s)

Next ==
  \/ \E s \in Servers :
       CreateServer(s) \/ ListenForConnections(s) \/ Reporter(s)
  \/ \E s \in SteamClients : CreateSteam(s) \/ SendSteamPacket(s)
  \/ \E s \in Senders : Destroy(s) \/ Flush(s) \/ Fill(s) \/ Drain(s)
  \/ PoolRuns \/ RunCompletion

Spec == Init /\ [][Next]_vars

(* Threads run, and a full send buffer drains. *)
Fairness ==
  /\ \A s \in Servers : WF_vars(Reporter(s))
  /\ \A s \in Senders : WF_vars(Flush(s)) /\ WF_vars(Drain(s))
  /\ WF_vars(PoolRuns) /\ WF_vars(RunCompletion)

FairSpec == Spec /\ Fairness

------------------------------------------------------------------------------
(***************************************************************************)
(* The server of modules_1 never sets bound, so it refuses to listen: none *)
(* of its receives and answers ever runs (modules_1/src/server_emulator    *)
(* .cpp:10, 19-22), and no server without a port reports.                  *)
(***************************************************************************)
OnlyBoundReport ==
  \A s \in Servers :
    /\ bound[s] => s \notin Modules1
    /\ thread[s] # "none" \/ waiting[s] > 0 \/ s \in sent => bound[s]

(***************************************************************************)
(* What every sender keeps to: its sends wait only at a socket it has      *)
(* (server_emulator.cpp:20-21), nobody without a port reports, and only a  *)
(* server that listened is used after its end (server_emulator.cpp:34-41). *)
(***************************************************************************)
ReportsInv ==
  /\ TypeOK
  /\ OnlyBoundReport
  /\ \A s \in Senders : waiting[s] > 0 => life[s] = "open"
  /\ undefined => \E s \in Servers : bound[s] /\ life[s] = "destroyed"

(***************************************************************************)
(* A server that listens must not be destroyed while the program runs: its *)
(* thread is detached and loops for ever, so it comes to use what is gone, *)
(* wherever it was when the destructor ran (server_emulator.cpp:34-41).    *)
(***************************************************************************)
ThreadOutlivesServer ==
  \A s \in Servers :
    (thread[s] # "none" /\ life[s] = "destroyed") ~> undefined

(***************************************************************************)
(* A server whose report has to wait when the pool's context has stopped   *)
(* is silent from then on: nobody runs the context again, and later        *)
(* reports queue up behind (server_emulator.cpp:53 on main.cpp:16).        *)
(***************************************************************************)
Silenced(s) == pool = "stopped" /\ waiting[s] > 0

SilencedForGood ==
  [][\A s \in Senders :
       Silenced(s) => s \notin sent' /\ (Silenced(s)' \/ life'[s] = "destroyed")]_vars

(***************************************************************************)
(* While a thread is in run(), a send that waits keeps it there and is     *)
(* made or aborted in the end.                                             *)
(***************************************************************************)
WaitingSendsLeave ==
  \A s \in Senders :
    (pool = "running" /\ waiting[s] > 0) ~> (undefined \/ waiting[s] = 0)

(***************************************************************************)
(* No builder writes a byte beside the buffer it was given, up to the last *)
(* one, and none has a byte sent that it did not write: the header counts  *)
(* the same when the size is compared, when it is copied and in what is    *)
(* returned (modules_1/src/utils.cpp:18-24, 35-42, 56-63).                 *)
(***************************************************************************)
BuildersKeepToBuffer ==
  \A size \in BufferSizes :
    /\ \A s \in Servers :
         KeepsTo(CreateMasterServerPacket(size, config.ip, Port[s]), size)
    /\ KeepsTo(CreateA2SInfoPacket(size, config.name, config.map, config.players,
                                   config.maxPlayers, config.version), size)
    /\ KeepsTo(CreateA2SPlayerPacket(size, config.playersList), size)
==============================================================================
