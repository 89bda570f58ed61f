------------------------------- MODULE UdpProxy -------------------------------
(***************************************************************************)
(* UdpProxy of src/udp_proxy.cpp: startProxy opens a socket per port,      *)
(* starts a receive on each and then runs the io_context in a thread it    *)
(* joins; the completion handlers charge the packet to the limiter and     *)
(* send it on to the remote server.  Composed of AsioUdp (the io_context,  *)
(* its sockets, the one buffer and clientEndpoint all receives share) and  *)
(* IpLimiter (the table of connections).                                   *)
(***************************************************************************)
EXTENDS Integers, Sequences, FiniteSets

CONSTANTS
  PortCount,            \* endPort - startPort + 1; ports count from startPort
  ContestedPorts,       \* ports some other socket may be bound to
  ThreadMayFail,        \* whether std::thread may throw
  Clients,              \* addresses of clients
  RemoteServer,         \* address of the remote server
  Sizes, BufferSize, SendsMayFail, EventsPerWait, MaxArrivals, MaxBlocks, \* of AsioUdp
  ExcludedIps, MaxConnections, BlockDurationSeconds, TicksPerSecond, MaxTime,
  None

Ports == 1..PortCount
Senders == Clients \cup {RemoteServer}

VARIABLES
  open, arrivals, taken, txFull, blocks, edge, wire, pollOut, events, readOp,
  writeOps, ioq, work, ioState, running, buffer, endpoint, sends, \* AsioUdp
  now, ipMap, totalConnections, checked, charges, refusedAt,   \* IpLimiter
  main,       \* where startProxy is
  next,       \* the port its loop is at
  step,       \* what the running handler does next
  handled,    \* history: per port, the datagrams whose handler ran
  attributed  \* history: the address each datagram was checked as

ioVars == <<open, arrivals, taken, txFull, blocks, edge, wire, pollOut, events,
            readOp, writeOps, ioq, work, ioState, running, buffer, endpoint, sends>>
limiterVars == <<now, ipMap, totalConnections, checked, charges, refusedAt>>
proxyVars == <<main, next, step, handled, attributed>>
vars == <<ioVars, limiterVars, proxyVars>>

(* A program makes at most one send per datagram received. *)
Io == INSTANCE AsioUdp WITH
        Handlers <- {"outer", "inner", "sent"},
        MaxSends <- PortCount * MaxArrivals
Limiter == INSTANCE IpLimiter WITH Ips <- Senders, NoPacket <- None

ASSUME UdpProxyAssumption ==
  /\ PortCount \in Nat
  /\ ContestedPorts \subseteq Ports
  /\ ThreadMayFail \in BOOLEAN
  /\ RemoteServer \notin Clients
  /\ Sizes \subseteq Nat \cup {Io!ReceiveError}
  /\ BufferSize \in Nat \ {0}
  /\ SendsMayFail \in BOOLEAN
  /\ EventsPerWait \in Nat \ {0}
  /\ MaxArrivals \in Nat
  /\ MaxBlocks \in Nat
  /\ ExcludedIps \subseteq Senders
  /\ MaxConnections \in Int
  /\ BlockDurationSeconds \in Nat
  /\ TicksPerSecond \in Nat \ {0}
  /\ MaxTime \in Nat
  /\ None \notin Ports \cup Senders
  /\ None \notin Io!Receive /\ None \notin Io!Completion
  /\ None \notin Limiter!Check

Attribution == [port : Ports, index : Nat, ip : Senders \cup {None}]

TypeOK ==
  /\ Io!TypeOK
  /\ Limiter!TypeOK
  /\ main \in {"opening", "arming", "joined", "returned", "failed"}
  /\ next \in 1..(PortCount + 1)
  /\ step \in {"none", "check", "charge", "send", "rearm", "return"}
  /\ handled \in [Ports -> Seq(Nat)]
  /\ attributed \subseteq Attribution

Init ==
  /\ Io!Init
  /\ Limiter!Init
  /\ main = "opening"
  /\ next = 1
  /\ step = "none"
  /\ handled = [p \in Ports |-> <<>>]
  /\ attributed = {}

------------------------------------------------------------------------------
(* startProxy, in the thread that calls it. *)

(* Mutation of OpenPort: a port that cannot be bound is skipped. *)
OpenPortSkipping ==
  /\ main = "opening"
  /\ next <= PortCount
  /\ \/ /\ Io!OpenSocket(next)
        /\ main' = "arming"
        /\ UNCHANGED next
     \/ /\ next \in ContestedPorts
        /\ next' = next + 1
        /\ UNCHANGED <<ioVars, main>>
  /\ UNCHANGED <<limiterVars, step, handled, attributed>>

(* The socket's constructor binds; if it throws, startProxy logs and returns. *)
OpenPort ==
  /\ main = "opening"
  /\ next <= PortCount
  /\ \/ /\ Io!OpenSocket(next)
        /\ main' = "arming"
     \/ /\ next \in ContestedPorts
        /\ main' = "failed"
        /\ UNCHANGED ioVars
  /\ UNCHANGED <<limiterVars, next, step, handled, attributed>>

(* Mutation of ArmPort: no receive is started on the last port. *)
ArmPortButLast ==
  /\ main = "arming"
  /\ IF next < PortCount THEN Io!AsyncReceive(next, "outer") ELSE UNCHANGED ioVars
  /\ next' = next + 1
  /\ main' = "opening"
  /\ UNCHANGED <<limiterVars, step, handled, attributed>>

ArmPort ==
  /\ main = "arming"
  /\ Io!AsyncReceive(next, "outer")
  /\ next' = next + 1
  /\ main' = "opening"
  /\ UNCHANGED <<limiterVars, step, handled, attributed>>

StartIoThread ==
  /\ main = "opening"
  /\ next > PortCount
  /\ \/ /\ Io!StartRun
        /\ main' = "joined"
     \/ /\ ThreadMayFail
        /\ main' = "failed"
        /\ UNCHANGED ioVars
  /\ UNCHANGED <<limiterVars, next, step, handled, attributed>>

(* Mutation of Joined: the thread is detached. *)
JoinedDetached ==
  /\ main = "joined"
  /\ main' = "returned"
  /\ UNCHANGED <<ioVars, limiterVars, next, step, handled, attributed>>

(* Mutation of Joined: the context is stopped from outside. *)
JoinedStopping ==
  /\ main = "joined"
  /\ ioState' = "stopped"
  /\ main' = "returned"
  /\ UNCHANGED <<open, arrivals, taken, txFull, blocks, edge, wire, pollOut>>
  /\ UNCHANGED <<events, readOp, writeOps, ioq, work, running, buffer, endpoint>>
  /\ UNCHANGED sends
  /\ UNCHANGED <<limiterVars, next, step, handled, attributed>>

(* ioContext.run() returned and the thread was joined. *)
Joined ==
  /\ main = "joined"
  /\ ioState = "stopped"
  /\ main' = "returned"
  /\ UNCHANGED <<ioVars, limiterVars, next, step, handled, attributed>>

------------------------------------------------------------------------------
(* Mutation of AfterPacket: the inner handler rearms too. *)
AfterPacketRearming(c) == "rearm"

(***************************************************************************)
(* The completion handlers.  The outer one rearms its port with the inner  *)
(* one unless the receive failed; the inner one does not rearm.  An empty  *)
(* datagram is an error to the outer handler only.                         *)
(***************************************************************************)
AfterPacket(c) == IF c.handler = "outer" THEN "rearm" ELSE "return"

FirstStep(c) ==
  IF c.handler = "sent" \/ c.failed THEN "return"
  ELSE IF c.handler = "outer" /\ c.bytes = 0 THEN "rearm"
  ELSE "check"

(* Mutation of Enter: the handler that sent a packet is taken for another. *)
EnterAny(c) ==
  /\ step' = FirstStep(c)
  /\ handled' = [handled EXCEPT ![c.port] = Append(@, c.index)]

(* The handler of the completion the io thread has come to begins. *)
Enter(c) ==
  /\ step' = FirstStep(c)
  /\ handled' = IF c.handler = "sent" THEN handled
                ELSE [handled EXCEPT ![c.port] = Append(@, c.index)]

RunTask ==
  /\ Io!RunTask
  /\ UNCHANGED <<limiterVars, proxyVars>>

RunDescriptor(p) ==
  /\ Io!RunDescriptor(p)
  /\ IF running' = None THEN UNCHANGED <<step, handled>> ELSE Enter(running')
  /\ UNCHANGED <<limiterVars, main, next, attributed>>

RunCompletion ==
  /\ Io!RunCompletion
  /\ Enter(running')
  /\ UNCHANGED <<limiterVars, main, next, attributed>>

(* handleIncomingPacket takes the sender from clientEndpoint and checks it. *)
Attribute ==
  /\ attributed' = attributed \cup
       {[port |-> running.port, index |-> running.index, ip |-> endpoint]}
  /\ UNCHANGED <<ioVars, main, next, handled>>

(* Mutation of AdmitPacket: the verdict of the limiter is not asked for. *)
AdmitPacketUnchecked ==
  /\ step = "check"
  /\ checked' = [ip |-> endpoint, seen |-> now]
  /\ step' = "charge"
  /\ UNCHANGED <<now, ipMap, totalConnections, charges, refusedAt>>
  /\ Attribute

AdmitPacket ==
  /\ step = "check"
  /\ Limiter!CheckExcluded(endpoint) \/ Limiter!CheckAdmits(endpoint)
  /\ step' = "charge"
  /\ Attribute

(* Mutation of RefusePacket: the handler does not return. *)
RefusePacketSending ==
  /\ step = "check"
  /\ Limiter!CheckRefuses(endpoint)
  /\ step' = "send"
  /\ Attribute

RefusePacket ==
  /\ step = "check"
  /\ Limiter!CheckRefuses(endpoint)
  /\ step' = AfterPacket(running)
  /\ Attribute

ChargePacket ==
  /\ step = "charge"
  /\ Limiter!AddIpConnection
  /\ step' = "send"
  /\ UNCHANGED <<ioVars, main, next, handled, attributed>>

(* Mutation of ForwardPacket: the whole buffer is sent. *)
ForwardPacketWhole ==
  /\ step = "send"
  /\ Io!AsyncSend(running.port, "sent", running.index, BufferSize)
  /\ step' = AfterPacket(running)
  /\ UNCHANGED <<limiterVars, main, next, handled, attributed>>

ForwardPacket ==
  /\ step = "send"
  /\ Io!AsyncSend(running.port, "sent", running.index, running.bytes)
  /\ step' = AfterPacket(running)
  /\ UNCHANGED <<limiterVars, main, next, handled, attributed>>

(* The name of the remote server does not resolve: logged, nothing is sent. *)
ResolveFails ==
  /\ step = "send"
  /\ step' = AfterPacket(running)
  /\ UNCHANGED <<ioVars, limiterVars, main, next, handled, attributed>>

Rearm ==
  /\ step = "rearm"
  /\ Io!AsyncReceive(running.port, "inner")
  /\ step' = "return"
  /\ UNCHANGED <<limiterVars, main, next, handled, attributed>>

Return ==
  /\ step = "return"
  /\ Io!FinishHandler
  /\ step' = "none"
  /\ UNCHANGED <<limiterVars, main, next, handled, attributed>>

Handler ==
  \/ AdmitPacket \/ RefusePacket \/ ChargePacket
  \/ ForwardPacket \/ ResolveFails \/ Rearm \/ Return

IoThread ==
  \/ RunTask
  \/ \E p \in Ports : RunDescriptor(p)
  \/ RunCompletion
  \/ Handler

StartProxy == OpenPort \/ ArmPort \/ StartIoThread \/ Joined

------------------------------------------------------------------------------
(* The world: clients send at any time, the remote server answers what it got. *)

ClientSends ==
  /\ \E p \in Ports, src \in Clients, size \in Sizes : Io!Deliver(p, src, size)
  /\ UNCHANGED <<limiterVars, proxyVars>>

RemoteAnswers ==
  /\ \E p \in Ports, size \in Sizes \cap Nat :
       /\ \E i \in DOMAIN wire : wire[i].port = p
       /\ Io!Deliver(p, RemoteServer, size)
  /\ UNCHANGED <<limiterVars, proxyVars>>

SendBufferFills ==
  /\ \E p \in Ports : Io!Block(p)
  /\ UNCHANGED <<limiterVars, proxyVars>>

SendBufferDrains(p) ==
  /\ Io!Drain(p)
  /\ UNCHANGED <<limiterVars, proxyVars>>

Tick ==
  /\ Limiter!Tick
  /\ UNCHANGED <<ioVars, proxyVars>>

World ==
  \/ ClientSends \/ RemoteAnswers \/ SendBufferFills \/ Tick
  \/ \E p \in Ports : SendBufferDrains(p)

Next == StartProxy \/ IoThread \/ World

Spec == Init /\ [][Next]_vars

(***************************************************************************)
(* Threads run, and a full send buffer drains.  Nothing makes clients      *)
(* send, the clock tick or the server answer.                              *)
(***************************************************************************)
Fairness ==
  /\ WF_vars(StartProxy)
  /\ WF_vars(IoThread)
  /\ \A p \in Ports : WF_vars(SendBufferDrains(p))

FairSpec == Spec /\ Fairness

------------------------------------------------------------------------------
(* startProxy binds and arms port after port, then runs the io_context. *)
PhasesInOrder ==
  /\ main = "opening" => open = 1..(next - 1)
  /\ main = "arming" => next <= PortCount /\ open = 1..next
  /\ main \in {"joined", "returned"} => open = Ports
  /\ main \in {"opening", "arming", "failed"} <=> ioState = "idle"
  /\ main = "returned" => ioState = "stopped"
  /\ ioState = "idle" => running = None /\ \A p \in Ports : handled[p] = <<>>

(* The position in the handler fits the completion that is handled. *)
StepsAgree ==
  /\ step = "none" <=> running = None
  /\ step \in {"check", "charge", "send", "rearm"} => running.handler # "sent"
  /\ step \in {"check", "charge", "send"} => ~running.failed
  /\ step = "rearm" => running.handler = "outer"

OwnHandlers ==
  \A p \in Ports :
    /\ \A i \in DOMAIN writeOps[p] : writeOps[p][i].handler = "sent"
    /\ readOp[p] # None => readOp[p].handler # "sent"

(* Until a datagram has been received well, no handler asks who sent it. *)
EndpointKnown ==
  endpoint = None =>
    /\ \A i \in DOMAIN ioq :
         ioq[i].item = "completion" /\ ioq[i].op.handler # "sent" => ioq[i].op.failed
    /\ running # None /\ running.handler # "sent" => running.failed

(* A queued item completes a receive of port p. *)
Receives(item, p) ==
  item.item = "completion" /\ item.op.port = p /\ item.op.handler # "sent"

NoReceive(q, p) == \A i \in DOMAIN q : ~Receives(q[i], p)

OneReceive(q, p, k) ==
  \E i \in DOMAIN q :
    /\ Receives(q[i], p) /\ q[i].op.index = k
    /\ \A j \in DOMAIN q : Receives(q[j], p) => j = i

(* A handler of a received datagram of port p runs; it may start another receive. *)
Handling(p) ==
  /\ running # None /\ running.port = p /\ running.handler # "sent"
  /\ step \in {"check", "charge", "send", "rearm"}

(***************************************************************************)
(* A port has one receive at a time, though asio may complete it at once   *)
(* or later and the first is started before the context runs: it waits, or *)
(* its completion is queued with the one datagram that is taken and not    *)
(* handled, or its handler has yet to start the next, or it is over.       *)
(***************************************************************************)
OneReceiveEach ==
  \A p \in Ports :
    /\ \/ NoReceive(ioq, p) /\ taken[p] = Len(handled[p])
       \/ /\ OneReceive(ioq, p, taken[p]) /\ taken[p] = Len(handled[p]) + 1
          /\ readOp[p] = None /\ ~Handling(p)
    /\ readOp[p] # None => ~Handling(p)
    /\ main \in {"opening", "arming"} /\ p >= next => NoReceive(ioq, p)

(* A handler sends once at most, so the sends are no more than the datagrams. *)
HandledSlots == UNION {{p} \X DOMAIN handled[p] : p \in Ports}

SendsBounded ==
  /\ \A p \in Ports : taken[p] <= Len(arrivals[p]) /\ Len(arrivals[p]) <= MaxArrivals
  /\ sends + (IF step \in {"check", "charge", "send"} THEN 1 ELSE 0)
       <= Cardinality(HandledSlots)

(* The datagram a handler is about was the last of its port to be handled. *)
HandlerAtHand ==
  running # None /\ running.handler # "sent" =>
    running.index = Len(handled[running.port]) /\ running.index > 0

(* A handler runs that may still send on the datagram of port p at hand. *)
Sending(p) ==
  /\ running # None /\ running.port = p
  /\ step \in {"check", "charge", "send"}

(* Datagram k of port p was handled and is not the one that may still be sent on. *)
Past(p, k) == k <= Len(handled[p]) /\ (Sending(p) => k < Len(handled[p]))

WasChecked(p, k) == \E a \in attributed : a.port = p /\ a.index = k

(* What waits or was sent belongs to datagrams handled and checked before. *)
SendsFollow ==
  /\ \A p \in Ports : \A i \in DOMAIN writeOps[p] :
       LET op == writeOps[p][i]
       IN  op.port = p /\ Past(p, op.index) /\ WasChecked(p, op.index)
  /\ \A i \in DOMAIN wire :
       Past(wire[i].port, wire[i].index) /\ WasChecked(wire[i].port, wire[i].index)

(* A datagram is checked once, and charged as the address it was checked as. *)
AttributionsFollow ==
  /\ IsFiniteSet(attributed)
  /\ step \in {"charge", "send"} => WasChecked(running.port, running.index)
  /\ \A a \in attributed :
       /\ a.index <= Len(handled[a.port])
       /\ step = "check" /\ running.port = a.port => a.index < Len(handled[a.port])
       /\ step = "charge" /\ running.port = a.port /\ running.index = a.index =>
            a.ip = checked.ip

(* Datagram k of port p was sent on or waits to be. *)
Underway(p, k) ==
  \/ \E i \in DOMAIN wire : wire[i].port = p /\ wire[i].index = k
  \/ \E i \in DOMAIN writeOps[p] : writeOps[p][i].index = k

(* Or its handler is about to send it. *)
Leaves(p, k) == Underway(p, k) \/ (step = "send" /\ running.port = p /\ running.index = k)

PaidFor ==
  \A ip \in Senders \ ExcludedIps :
    Cardinality({a \in attributed : a.ip = ip /\ Leaves(a.port, a.index)})
      <= Len(charges[ip])

(***************************************************************************)
(* Why datagrams are handled in order and startProxy returns when through: *)
(* one receive at a time for each port, from the arming of the port to the *)
(* second handler's end.  Why nothing is sent on uncharged: what waits or  *)
(* was sent is of earlier datagrams than the one at hand, which is checked *)
(* and charged in between, as one and the same address.                    *)
(***************************************************************************)
ProxyInv ==
  /\ TypeOK
  /\ PhasesInOrder
  /\ StepsAgree
  /\ OwnHandlers
  /\ EndpointKnown
  /\ OneReceiveEach
  /\ SendsBounded
  /\ HandlerAtHand
  /\ SendsFollow
  /\ AttributionsFollow
  /\ PaidFor

------------------------------------------------------------------------------
(* Datagrams recvfrom has taken are handled in the order they arrived at   *)
(* their port, each once (udp_proxy.cpp:24-44: one receive per port is     *)
(* outstanding, whichever way asio completes it).                          *)
HandledInOrderOnce ==
  \A p \in Ports :
    /\ \A i \in DOMAIN handled[p] : handled[p][i] = i
    /\ Len(handled[p]) <= taken[p]

(***************************************************************************)
(* A packet is checked against, and charged to, the address that sent it   *)
(* (udp_proxy.cpp:58-68).                                                  *)
(***************************************************************************)
ChargedToSender ==
  \A a \in attributed : a.ip = arrivals[a.port][a.index].src

(***************************************************************************)
(* What goes to the remote server on behalf of a datagram are bytes of     *)
(* that datagram (udp_proxy.cpp:74-75).                                    *)
(***************************************************************************)
PayloadIntact ==
  \A i \in DOMAIN wire : \A k \in DOMAIN wire[i].cells :
    wire[i].cells[k] = [port |-> wire[i].port, index |-> wire[i].index]

(***************************************************************************)
(* startProxy returns after a start only when it has finished with every   *)
(* datagram it took: all are handled and no send is left behind, however   *)
(* the completions and blocked sends of the ports interleaved.             *)
(***************************************************************************)
ReturnsWhenDone ==
  main = "returned" =>
    \A p \in Ports : /\ Len(handled[p]) = taken[p]
                     /\ writeOps[p] = <<>> /\ readOp[p] = None

(***************************************************************************)
(* A packet is sent on only if it was checked, and admitted and charged    *)
(* unless its address is excluded: no handler of another port comes in     *)
(* between (udp_proxy.cpp:60-75).                                          *)
(***************************************************************************)
SentWasAdmitted ==
  LET sent == {a \in attributed : \E i \in DOMAIN wire :
                 wire[i].port = a.port /\ wire[i].index = a.index}
  IN  /\ \A i \in DOMAIN wire : WasChecked(wire[i].port, wire[i].index)
      /\ \A ip \in Senders \ ExcludedIps :
           Cardinality({a \in sent : a.ip = ip}) <= Len(charges[ip])

(***************************************************************************)
(* A start is all or nothing: no handler runs unless every port could be   *)
(* bound and armed, even when datagrams arrived while the loop was still   *)
(* at it (udp_proxy.cpp:18-54).                                            *)
(***************************************************************************)
AllPortsOrNone ==
  running # None \/ (\E p \in Ports : handled[p] # <<>>) =>
    open = Ports /\ main \in {"joined", "returned"}

(* The proxy uses asio and the limiter as they are specified. *)
UsesAsio == Io!Spec
UsesLimiter == Limiter!Spec

Promise == INSTANCE Relay WITH
  arrived  <- [p \in Ports |-> Len(arrivals[p])],
  handled  <- [p \in Ports |-> Len(handled[p])],
  outgoing <- [p \in Ports |-> [i \in DOMAIN writeOps[p] |-> writeOps[p][i].index]],
  sent     <- [i \in DOMAIN wire |-> [port |-> wire[i].port, index |-> wire[i].index]],
  ended    <- main = "returned"

(***************************************************************************)
(* The proxy is a relay: whatever the ports share and however sends and    *)
(* receives wait, datagrams of a port leave in order, each at most once,   *)
(* after they were handled, and startProxy returns with none waiting       *)
(* (udp_proxy.cpp:26-55, 70-80).                                           *)
(***************************************************************************)
KeepsPromise == Promise!Spec

(***************************************************************************)
(* Two datagrams at each port, or one it fails to receive, end the proxy:  *)
(* the inner handler does not rearm and run() runs out of work.            *)
(***************************************************************************)
EndsAfterTwo ==
  (main = "joined" /\ \A p \in Ports : Len(arrivals[p]) >= 2) ~> (main = "returned")

(***************************************************************************)
(* udp_proxy.cpp:22, "Начало прослушивания порта": a port is listened to   *)
(* once the io thread runs, so the first datagram that arrives there is    *)
(* handled, whenever it arrived since the port was opened.                 *)
(***************************************************************************)
FirstIsHandled ==
  \A p \in Ports :
    (main = "joined" /\ Len(arrivals[p]) >= 1) ~> (Len(handled[p]) >= 1)

(***************************************************************************)
(* main.cpp:74, "Система работает. Для завершения нажмите Ctrl+C": nothing *)
(* but the user ends the service, so whatever arrives at a port that was   *)
(* opened is handled.                                                      *)
(***************************************************************************)
KeepsServing ==
  \A p \in Ports : \A i \in 1..MaxArrivals :
    (p \in open /\ Len(arrivals[p]) >= i) ~> (Len(handled[p]) >= i)
==============================================================================
