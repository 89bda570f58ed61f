------------------------------- MODULE AsioUdp -------------------------------
(***************************************************************************)
(* The part of asio 1.28.0 the proxy stands on: one io_context, run by one *)
(* thread, over datagram sockets registered edge-triggered with epoll.     *)
(* scheduler.ipp keeps the queue of what is to run and the count of        *)
(* outstanding work; epoll_reactor.ipp tries an operation when it is       *)
(* started and otherwise leaves it with its descriptor until epoll reports *)
(* an event.  Every receive is given the same buffer and endpoint, as the  *)
(* proxy does, and a program keeps at most one receive pending per socket. *)
(* Operations of reactor and scheduler hold a lock or belong to the one    *)
(* thread that runs, so each is a step; the kernel moves between any two.  *)
(***************************************************************************)
EXTENDS Integers, Sequences, FiniteSets, SequencesExt

CONSTANTS
  Ports,         \* the sockets, by the port they are bound to
  Senders,       \* addresses datagrams come from
  Sizes,         \* lengths of arriving datagrams; ReceiveError: the receive fails
  BufferSize,    \* length of the shared buffer
  SendsMayFail,  \* whether sendto may fail for good
  EventsPerWait, \* length of the array epoll_wait fills, 128 in the code
  Handlers,      \* kinds of completion handlers
  MaxArrivals,   \* bound: datagrams arriving at one socket
  MaxBlocks,     \* bound: times send buffers fill up, in all
  MaxSends,      \* bound: sends of any program, in all
  None

ReceiveError == -1

(* A datagram is named by its port and the order of its arrival there. *)
Datagram == [port : Ports, index : Nat \ {0}]
Receive == [port : Ports, handler : Handlers]
Send == [port : Ports, handler : Handlers, index : Nat, bytes : 0..BufferSize]
Completion ==
  [port : Ports, handler : Handlers, index : Nat, bytes : 0..BufferSize,
   failed : BOOLEAN]

ASSUME AsioUdpAssumption ==
  /\ IsFiniteSet(Ports)
  /\ Sizes \subseteq Nat \cup {ReceiveError}
  /\ BufferSize \in Nat \ {0}
  /\ SendsMayFail \in BOOLEAN
  /\ EventsPerWait \in Nat \ {0}
  /\ MaxArrivals \in Nat
  /\ MaxBlocks \in Nat
  /\ MaxSends \in Nat
  /\ None \notin Ports \cup Senders
  /\ None \notin Receive
  /\ None \notin Completion

VARIABLES
  \* the kernel
  open,       \* sockets that are bound
  arrivals,   \* per socket, the datagrams that arrived: [src, size]
  taken,      \* per socket, how many of them recvfrom has taken
  txFull,     \* per socket, whether sendto would block
  blocks,     \* how often a socket has become full
  edge,       \* per socket, whether it is on epoll's ready list
  wire,       \* history: what was sent, [port, index, cells]
  \* epoll_reactor: the descriptor_state of each socket
  pollOut,    \* EPOLLOUT is among registered_events_
  events,     \* task_result_: events the queued descriptor stands for
  readOp,     \* op_queue_[read_op]: the pending receive or None
  writeOps,   \* op_queue_[write_op]: pending sends
  \* scheduler
  ioq,        \* op_queue_
  work,       \* outstanding_work_
  ioState,    \* "idle" before run(), "running", "stopped"
  running,    \* the completion whose handler runs, or None
  \* memory of the program that operations work on
  buffer,     \* per cell, the datagram whose byte it holds
  endpoint,   \* clientEndpoint
  sends       \* history: how many sends were started

kernelVars == <<open, arrivals, taken, txFull, blocks, edge, wire>>
reactorVars == <<pollOut, events, readOp, writeOps>>
schedulerVars == <<ioq, work, ioState, running>>
memoryVars == <<buffer, endpoint, sends>>
vars == <<kernelVars, reactorVars, schedulerVars, memoryVars>>

(* What the queue of the scheduler holds. *)
Task == [item |-> "task"]
Descriptor(p) == [item |-> "descriptor", port |-> p]
Completed(c) == [item |-> "completion", op |-> c]
QueueItems ==
  {Task} \cup {Descriptor(p) : p \in Ports}
         \cup [item : {"completion"}, op : Completion]

TypeOK ==
  /\ open \subseteq Ports
  /\ arrivals \in [Ports -> Seq([src : Senders, size : Sizes])]
  /\ taken \in [Ports -> Nat]
  /\ txFull \in [Ports -> BOOLEAN]
  /\ blocks \in Nat
  /\ edge \in [Ports -> BOOLEAN]
  /\ wire \in Seq([port : Ports, index : Nat, cells : Seq(Datagram \cup {None})])
  /\ pollOut \in [Ports -> BOOLEAN]
  /\ events \in [Ports -> SUBSET {"in", "out"}]
  /\ readOp \in [Ports -> Receive \cup {None}]
  /\ writeOps \in [Ports -> Seq(Send)]
  /\ ioq \in Seq(QueueItems)
  /\ work \in Nat
  /\ ioState \in {"idle", "running", "stopped"}
  /\ running \in Completion \cup {None}
  /\ buffer \in [1..BufferSize -> Datagram \cup {None}]
  /\ endpoint \in Senders \cup {None}
  /\ sends \in Nat

(* The first socket of an io_context makes init_task queue the reactor's task. *)
Init ==
  /\ open = {}
  /\ arrivals = [p \in Ports |-> <<>>]
  /\ taken = [p \in Ports |-> 0]
  /\ txFull = [p \in Ports |-> FALSE]
  /\ blocks = 0
  /\ edge = [p \in Ports |-> FALSE]
  /\ wire = <<>>
  /\ pollOut = [p \in Ports |-> FALSE]
  /\ events = [p \in Ports |-> {}]
  /\ readOp = [p \in Ports |-> None]
  /\ writeOps = [p \in Ports |-> <<>>]
  /\ ioq = <<Task>>
  /\ work = 0
  /\ ioState = "idle"
  /\ running = None
  /\ buffer = [k \in 1..BufferSize |-> None]
  /\ endpoint = None
  /\ sends = 0

------------------------------------------------------------------------------
(* The kernel. *)

Readable(p) == taken[p] < Len(arrivals[p])
Writable(p) == ~txFull[p]

(* Mutation of Ready: of a socket that is ready both ways, room to send is lost. *)
ReadyOneWay(p) ==
  IF Readable(p) THEN {"in"} ELSE IF pollOut[p] /\ Writable(p) THEN {"out"} ELSE {}

(* The events epoll would report for a socket now. *)
Ready(p) ==
  {e \in {"in", "out"} : \/ e = "in" /\ Readable(p)
                         \/ e = "out" /\ pollOut[p] /\ Writable(p)}

Deliver(p, src, size) ==
  /\ p \in open
  /\ Len(arrivals[p]) < MaxArrivals
  /\ arrivals' = [arrivals EXCEPT ![p] = Append(@, [src |-> src, size |-> size])]
  /\ edge' = [edge EXCEPT ![p] = TRUE]
  /\ UNCHANGED <<open, taken, txFull, blocks, wire>>
  /\ UNCHANGED <<reactorVars, schedulerVars, memoryVars>>

(* The send buffer of a socket fills up: sendto returns EAGAIN. *)
Block(p) ==
  /\ p \in open
  /\ ~txFull[p]
  /\ blocks < MaxBlocks
  /\ blocks' = blocks + 1
  /\ txFull' = [txFull EXCEPT ![p] = TRUE]
  /\ UNCHANGED <<open, arrivals, taken, edge, wire>>
  /\ UNCHANGED <<reactorVars, schedulerVars, memoryVars>>

(* It drains: an edge, when EPOLLOUT is asked for. *)
Drain(p) ==
  /\ txFull[p]
  /\ txFull' = [txFull EXCEPT ![p] = FALSE]
  /\ edge' = [edge EXCEPT ![p] = @ \/ pollOut[p]]
  /\ UNCHANGED <<open, arrivals, taken, blocks, wire>>
  /\ UNCHANGED <<reactorVars, schedulerVars, memoryVars>>

(* Opening, registering and binding a socket. *)
OpenSocket(p) ==
  /\ p \notin open
  /\ open' = open \cup {p}
  /\ UNCHANGED <<arrivals, taken, txFull, blocks, edge, wire>>
  /\ UNCHANGED <<reactorVars, schedulerVars, memoryVars>>

------------------------------------------------------------------------------
(* Operations. *)

(***************************************************************************)
(* What recvfrom makes of the datagram at the head of the socket: it is    *)
(* cut to the buffer, and a failed one leaves buffer and endpoint alone.   *)
(***************************************************************************)
Head1(p) == arrivals[p][taken[p] + 1]
Failed(p) == Head1(p).size = ReceiveError
BytesOf(p) ==
  IF Failed(p) THEN 0
  ELSE IF Head1(p).size <= BufferSize THEN Head1(p).size ELSE BufferSize

ReceiveDone(p, op) ==
  [port |-> p, handler |-> op.handler, index |-> taken[p] + 1,
   bytes |-> BytesOf(p), failed |-> Failed(p)]

(* Mutation of PerformReceive: a datagram that is cut leaves the endpoint. *)
PerformReceiveWhole(p) ==
  /\ taken' = [taken EXCEPT ![p] = @ + 1]
  /\ buffer' = [k \in 1..BufferSize |->
                  IF k <= BytesOf(p) THEN [port |-> p, index |-> taken[p] + 1]
                  ELSE buffer[k]]
  /\ endpoint' = IF BytesOf(p) < Head1(p).size THEN endpoint ELSE Head1(p).src

(* Mutation of PerformReceive: the datagram stays in the socket. *)
PerformReceivePeeking(p) ==
  /\ UNCHANGED taken
  /\ buffer' = [k \in 1..BufferSize |->
                  IF k <= BytesOf(p) THEN [port |-> p, index |-> taken[p] + 1]
                  ELSE buffer[k]]
  /\ endpoint' = Head1(p).src

PerformReceive(p) ==
  /\ taken' = [taken EXCEPT ![p] = @ + 1]
  /\ buffer' = [k \in 1..BufferSize |->
                  IF k <= BytesOf(p) THEN [port |-> p, index |-> taken[p] + 1]
                  ELSE buffer[k]]
  /\ endpoint' = IF Failed(p) THEN endpoint ELSE Head1(p).src

SendDone(op, failed) ==
  [port |-> op.port, handler |-> op.handler, index |-> op.index,
   bytes |-> IF failed THEN 0 ELSE op.bytes, failed |-> failed]

(* Which of n sends the kernel may reject. *)
Rejected(n) == IF SendsMayFail THEN SUBSET (1..n) ELSE {{}}

(* The bytes sendto finds in the buffer when it is called. *)
Packet(op) ==
  [port |-> op.port, index |-> op.index, cells |-> SubSeq(buffer, 1, op.bytes)]

(* Code that calls asio: the thread that opens the sockets, later a handler. *)
CallerRuns == ioState = "idle" \/ running # None

(* Mutation of AsyncReceive: the receive is not tried when it is started. *)
AsyncReceiveWaiting(p, h) ==
  /\ CallerRuns
  /\ p \in open
  /\ readOp[p] = None
  /\ work' = work + 1
  /\ readOp' = [readOp EXCEPT ![p] = [port |-> p, handler |-> h]]
  /\ UNCHANGED <<kernelVars, memoryVars, pollOut, events, writeOps>>
  /\ UNCHANGED <<ioq, ioState, running>>

(***************************************************************************)
(* async_receive_from.  start_op tries the receive at once; if a datagram  *)
(* is there the completion is posted behind everything already queued,     *)
(* with buffer and endpoint already written.                               *)
(***************************************************************************)
AsyncReceive(p, h) ==
  LET op == [port |-> p, handler |-> h] IN
  /\ CallerRuns
  /\ p \in open
  /\ readOp[p] = None
  /\ work' = work + 1
  /\ \/ /\ Readable(p)
        /\ PerformReceive(p)
        /\ ioq' = Append(ioq, Completed(ReceiveDone(p, op)))
        /\ UNCHANGED readOp
     \/ /\ ~Readable(p)
        /\ readOp' = [readOp EXCEPT ![p] = op]
        /\ UNCHANGED <<taken, buffer, endpoint, ioq>>
  /\ UNCHANGED <<open, arrivals, txFull, blocks, edge, wire>>
  /\ UNCHANGED <<pollOut, events, writeOps, ioState, running, sends>>

(* Mutation of SendNow: tried at once although earlier sends wait. *)
SendNowOvertaking(op) ==
  /\ Writable(op.port)
  /\ \E rejected \in Rejected(1) :
        /\ wire' = IF 1 \in rejected THEN wire ELSE Append(wire, Packet(op))
        /\ ioq' = Append(ioq, Completed(SendDone(op, 1 \in rejected)))
  /\ UNCHANGED <<writeOps, pollOut, edge>>

(* sendto is tried at once: it takes the packet or rejects it for good. *)
SendNow(op) ==
  /\ writeOps[op.port] = <<>>
  /\ Writable(op.port)
  /\ \E rejected \in Rejected(1) :
        /\ wire' = IF 1 \in rejected THEN wire ELSE Append(wire, Packet(op))
        /\ ioq' = Append(ioq, Completed(SendDone(op, 1 \in rejected)))
  /\ UNCHANGED <<writeOps, pollOut, edge>>

(***************************************************************************)
(* EPOLL_CTL_MOD makes epoll look at the socket afresh.  It is called only *)
(* for a first send that waits, at a socket EPOLLOUT was not yet asked for.*)
(***************************************************************************)
Reregistered(p) ==
  [edge EXCEPT ![p] = @ \/ /\ writeOps[p] = <<>> /\ ~pollOut[p]
                           /\ Readable(p) \/ Writable(p)]

(* Mutation of SendLater: EPOLLOUT is not added to the registration. *)
SendLaterUnregistered(op) ==
  /\ writeOps[op.port] # <<>> \/ ~Writable(op.port)
  /\ writeOps' = [writeOps EXCEPT ![op.port] = Append(@, op)]
  /\ UNCHANGED <<pollOut, edge, wire, ioq>>

(***************************************************************************)
(* sendto would block, or earlier sends wait: the operation stays with the *)
(* descriptor, and the buffer is read when epoll says there is room.       *)
(***************************************************************************)
SendLater(op) ==
  /\ writeOps[op.port] # <<>> \/ ~Writable(op.port)
  /\ writeOps' = [writeOps EXCEPT ![op.port] = Append(@, op)]
  /\ pollOut' = [pollOut EXCEPT ![op.port] = @ \/ writeOps[op.port] = <<>>]
  /\ edge' = Reregistered(op.port)
  /\ UNCHANGED <<wire, ioq>>

(* Mutation of AsyncSend: a send that has to wait is not counted as work. *)
AsyncSendUncounted(p, h, i, n) ==
  LET op == [port |-> p, handler |-> h, index |-> i, bytes |-> n] IN
  /\ CallerRuns
  /\ p \in open
  /\ \/ SendNow(op) /\ work' = work + 1
     \/ SendLater(op) /\ UNCHANGED work
  /\ sends' = sends + 1
  /\ UNCHANGED <<open, arrivals, taken, txFull, blocks, events, readOp>>
  /\ UNCHANGED <<ioState, running, buffer, endpoint>>

(* async_send_to of the first n bytes of the buffer, on behalf of datagram i. *)
AsyncSend(p, h, i, n) ==
  LET op == [port |-> p, handler |-> h, index |-> i, bytes |-> n] IN
  /\ CallerRuns
  /\ p \in open
  /\ work' = work + 1
  /\ SendNow(op) \/ SendLater(op)
  /\ sends' = sends + 1
  /\ UNCHANGED <<open, arrivals, taken, txFull, blocks, events, readOp>>
  /\ UNCHANGED <<ioState, running, buffer, endpoint>>

------------------------------------------------------------------------------
(* The thread in io_context::run. *)

(* run() with nothing to do stops the context at once. *)
StartRun ==
  /\ ioState = "idle"
  /\ ioState' = IF work = 0 THEN "stopped" ELSE "running"
  /\ UNCHANGED <<kernelVars, reactorVars, memoryVars, ioq, work, running>>

Dispatches(item) ==
  /\ ioState = "running"
  /\ running = None
  /\ Head(ioq) = item

(* Mutation of Requeue: the task is queued before the descriptors it found. *)
RequeueTaskFirst(found) ==
  Tail(ioq) \o <<Task>> \o [i \in DOMAIN found |-> Descriptor(found[i])]

(* Descriptors the task found go behind everything queued, the task behind them. *)
Requeue(found) ==
  Tail(ioq) \o [i \in DOMAIN found |-> Descriptor(found[i])] \o <<Task>>

(* What one epoll_wait may report of the sockets that are ready. *)
Reports(ready) ==
  {found \in SUBSET ready :
     \/ found = ready /\ Cardinality(ready) <= EventsPerWait
     \/ Cardinality(found) = EventsPerWait}

(***************************************************************************)
(* The task: epoll_wait, which blocks only when nothing else is queued.    *)
(* What it does not report stays on epoll's ready list.                    *)
(***************************************************************************)
RunTask ==
  LET ready == {p \in open : edge[p] /\ Ready(p) # {}} IN
  /\ Dispatches(Task)
  /\ Len(ioq) > 1 \/ ready # {}
  /\ \E found \in Reports(ready) :
        /\ \E order \in SetToSeqs(found) : ioq' = Requeue(order)
        /\ events' = [p \in Ports |-> IF p \in found THEN Ready(p) ELSE events[p]]
        /\ edge' = [p \in Ports |-> p \in ready \ found]
  /\ UNCHANGED <<open, arrivals, taken, txFull, blocks, wire>>
  /\ UNCHANGED <<pollOut, readOp, writeOps, work, ioState, running, memoryVars>>

(***************************************************************************)
(* How many pending sends a descriptor gets rid of: none without the event *)
(* or the room, else all, or those that fit before the socket is full.     *)
(***************************************************************************)
Flushable(p) ==
  LET pending == Len(writeOps[p]) IN
  IF "out" \in events[p] /\ Writable(p)
  THEN {n \in 0..pending : n = pending \/ (n > 0 /\ blocks < MaxBlocks)}
  ELSE {0}

(* Whether the pending receive of a descriptor completes. *)
Receives(p) == "in" \in events[p] /\ readOp[p] # None /\ Readable(p)

(* The operations of a descriptor that complete when it gets rid of n sends. *)
Done(p, n, rejected) ==
  [i \in 1..n |-> SendDone(writeOps[p][i], i \in rejected)]
    \o (IF Receives(p) THEN <<ReceiveDone(p, readOp[p])>> ELSE <<>>)

(* What the kernel takes of those sends. *)
Packets(p, n, rejected) ==
  FlattenSeq([i \in 1..n |->
                IF i \in rejected THEN <<>> ELSE <<Packet(writeOps[p][i])>>])

(***************************************************************************)
(* perform_io of a descriptor: pending sends first, then the pending       *)
(* receive.  The handler of the first completed operation runs in this     *)
(* step's place, the rest are posted.  When nothing completed the work is  *)
(* compensated, so the count does not change.                              *)
(***************************************************************************)
RunDescriptor(p) ==
  /\ Dispatches(Descriptor(p))
  /\ events' = [events EXCEPT ![p] = {}]
  /\ \E n \in Flushable(p) : \E rejected \in Rejected(n) :
       LET done == Done(p, n, rejected)
           full == 0 < n /\ n < Len(writeOps[p])
       IN
       /\ wire' = wire \o Packets(p, n, rejected)
       /\ writeOps' = [writeOps EXCEPT ![p] = SubSeq(@, n + 1, Len(@))]
       /\ txFull' = [txFull EXCEPT ![p] = @ \/ full]
       /\ blocks' = IF full THEN blocks + 1 ELSE blocks
       /\ running' = IF done = <<>> THEN None ELSE Head(done)
       /\ ioq' = Tail(ioq) \o [i \in 1..(Len(done) - 1) |-> Completed(done[i + 1])]
  /\ IF Receives(p)
     THEN PerformReceive(p) /\ readOp' = [readOp EXCEPT ![p] = None]
     ELSE UNCHANGED <<taken, buffer, endpoint, readOp>>
  /\ UNCHANGED <<open, arrivals, edge, pollOut, work, ioState, sends>>

(* A posted completion: its handler runs. *)
RunCompletion ==
  /\ ioState = "running"
  /\ running = None
  /\ Head(ioq).item = "completion"
  /\ running' = Head(ioq).op
  /\ ioq' = Tail(ioq)
  /\ UNCHANGED <<kernelVars, reactorVars, memoryVars, work, ioState>>

(* The handler returns; the last piece of work stops the context. *)
FinishHandler ==
  /\ running # None
  /\ running' = None
  /\ work' = work - 1
  /\ ioState' = IF work' = 0 THEN "stopped" ELSE ioState
  /\ UNCHANGED <<kernelVars, reactorVars, memoryVars, ioq>>

Kernel ==
  \E p \in Ports :
    \/ \E src \in Senders, size \in Sizes : Deliver(p, src, size)
    \/ Block(p)
    \/ Drain(p)

(* Any program that uses asio as described: what the proxy refines. *)
Program ==
  \E p \in Ports :
    \/ OpenSocket(p)
    \/ \E h \in Handlers : AsyncReceive(p, h)
    \/ \E h \in Handlers :
          /\ running # None
          /\ sends < MaxSends
          /\ AsyncSend(p, h, running.index, running.bytes)

Run ==
  \/ StartRun
  \/ RunTask
  \/ \E p \in Ports : RunDescriptor(p)
  \/ RunCompletion
  \/ FinishHandler

Next == Kernel \/ Program \/ Run

Spec == Init /\ [][Next]_vars

------------------------------------------------------------------------------
(* Places in the queue that hold something of a kind. *)
QueuedAt(kind) == {i \in DOMAIN ioq : ioq[i].item = kind}
DescriptorQueued(p) == \E i \in DOMAIN ioq : ioq[i] = Descriptor(p)

PendingReceives == {p \in Ports : readOp[p] # None}
PendingSends == UNION {{p} \X DOMAIN writeOps[p] : p \in Ports}

(***************************************************************************)
(* The count of outstanding work is exact: one for every operation that    *)
(* waits at a descriptor, is posted or whose handler runs.  Counting one   *)
(* too few would end run() with operations pending, one too many would     *)
(* leave it waiting for ever (scheduler.ipp:81-104, epoll_reactor.ipp:     *)
(* 733-752).                                                               *)
(***************************************************************************)
WorkIsExact ==
  work = Cardinality(PendingReceives) + Cardinality(PendingSends)
         + Cardinality(QueuedAt("completion")) + (IF running # None THEN 1 ELSE 0)

(***************************************************************************)
(* A context that stopped has nothing left: no operation waits and no      *)
(* completion is queued.                                                   *)
(***************************************************************************)
StopsOnlyWhenIdle ==
  ioState = "stopped" =>
    /\ running = None
    /\ QueuedAt("completion") = {}
    /\ \A p \in Ports : readOp[p] = None /\ writeOps[p] = <<>>

(***************************************************************************)
(* An operation waits only at a socket epoll watches, a send only where    *)
(* EPOLLOUT is among the events (epoll_reactor.ipp:271-327).               *)
(***************************************************************************)
PendingRegistered ==
  \A p \in Ports :
    /\ readOp[p] # None \/ writeOps[p] # <<>> => p \in open
    /\ writeOps[p] # <<>> => pollOut[p]

(***************************************************************************)
(* Why run() returns when it is through, and not before: the count is      *)
(* exact, only a count of zero stops the context, and what is counted      *)
(* waits where an event can reach it.                                      *)
(***************************************************************************)
AsioInv == TypeOK /\ WorkIsExact /\ StopsOnlyWhenIdle /\ PendingRegistered

(***************************************************************************)
(* epoll_reactor.ipp:487-491: by the time the task runs, every descriptor  *)
(* it returned before has been dequeued, so that none is queued twice.     *)
(***************************************************************************)
DescriptorsBeforeTask ==
  /\ Cardinality(QueuedAt("task")) = 1
  /\ \A i \in QueuedAt("descriptor"), j \in QueuedAt("task") : i < j
  /\ \A i, j \in QueuedAt("descriptor") : ioq[i] = ioq[j] => i = j

(***************************************************************************)
(* No wakeup is lost to the edge-triggered registration: whenever a        *)
(* pending operation could proceed, its socket is on epoll's ready list or *)
(* its descriptor is queued with the event.                                *)
(***************************************************************************)
NoLostWakeup ==
  \A p \in Ports :
    LET awaits(e) == edge[p] \/ (DescriptorQueued(p) /\ e \in events[p])
    IN  /\ readOp[p] # None /\ Readable(p) => awaits("in")
        /\ writeOps[p] # <<>> /\ Writable(p) => awaits("out")

(***************************************************************************)
(* The io thread is fair, and a full send buffer drains.                   *)
(***************************************************************************)
Fairness == WF_vars(Run) /\ \A p \in Ports : WF_vars(Drain(p))

FairSpec == Spec /\ Fairness

(***************************************************************************)
(* Once run() has begun, a datagram that came while a receive was pending  *)
(* completes it, and a send that had to wait is made.                      *)
(***************************************************************************)
OperationsComplete ==
  \A p \in Ports :
    /\ (ioState = "running" /\ readOp[p] # None /\ Readable(p)) ~> (readOp[p] = None)
    /\ (ioState = "running" /\ writeOps[p] # <<>>) ~> (writeOps[p] = <<>>)
==============================================================================
