# qwin: models, checks and proofs

qwin is a UDP relay for game servers: it listens on a range of ports, limits how
many packets an address may have relayed per time window, and sends what it
admits on to one remote server. It is about 870 lines of C++ and shell of its
own (`src/`, `include/`, `modules_1/`, `script/`) on top of a vendored asio
1.28.0 and nlohmann json.

The tree does not build as committed: `main.cpp` passes six arguments to a
`UdpProxy` constructor with five parameters and defines a `loadConfig` that only calls
itself, `ServerEmulator` default-constructs a socket that has no default
constructor and reads `Config` fields only `modules_1` has, `isBound` and
`~UdpProxy` have no definition, and `modules_1/src/main.cpp` ends inside a
string literal. The models follow each function as written. Where two of them
disagree about an interface (the constructor of `UdpProxy`, which
`loadConfig`) they follow the definition in `udp_proxy.cpp`, `udp_proxy.h` and
`utils.cpp`: the proxy has an `io_context` of its own, and the configuration is
loaded from the file.

## Inventory

| Component | State | Operations | Talks to |
|---|---|---|---|
| Connection limiter (`utils.cpp`, called from `udp_proxy.cpp`) | `ipMap`: address -> (count, last time); `totalConnections` | `isIpBlocked` (purge, verdict), `addIpConnection` | called twice per packet by the proxy |
| UDP proxy (`udp_proxy.cpp`) | sockets, one `buffer`, one `clientEndpoint`, its `io_context` | `startProxy`, outer, inner and send handlers, `handleIncomingPacket` | limiter, asio, clients, remote server |
| asio `io_context`, epoll reactor, UDP sockets | operation queue, outstanding work, wakeup event, per descriptor queues and events | `run`, reactor task, `start_op`, `perform_io`, `post`, `cancel`, `stop` | kernel sockets, handlers of the program, threads of the pool |
| `main`, `ThreadPool` (`main.cpp`) | pool `io_context`, worker threads, servers, proxy | construct, run, destroy | everything above |
| `ServerEmulator` (root) | socket, `bound` | constructor, destructor, `listenForConnections` (never called) | pool `io_context`, master server |
| `ServerEmulator` and packets (`modules_1`) | socket, `bound` | constructor, `listenForConnections` (refuses), packet builders | clients, master server |
| `Steam` | socket, master endpoint | challenge and status sends | pool `io_context`, master server |
| Configuration | none beyond the file | `loadConfig` | main, the constants of the other modules |
| Logging | the `tm` of `localtime`, a file a day | `logMessage`, `getLogFileName` | called by every thread |
| `manage.sh` | process table | start, stop | the program, other operators |
| `clean_logs.sh` | log files | none that works | |

What is hard here: completions of many ports share one buffer and one endpoint;
a receive completes at once or much later, through an edge-triggered reactor; a
send that has to wait reads memory the next receive writes; an ever falling
count of work silently ends the service; starting is a sequence of steps each of
which can fail; every packet and every log line reads the clock twice; the
pool's context is run by several threads that sleep, wake and stop each other;
sends are given memory of a function that returns first, and a thread goes on
using an object that is gone; programs are found by name, in a table others
change. What makes each component correct:

* limiter: no window holds more than the maximum of one address, nobody is
  refused without having used it up, and being refused prolongs nothing;
* asio: the count of work is exact, no wakeup is lost, no operation forgotten or
  run twice, however many threads there are, and `stop()` reaches all of them;
* proxy: every datagram is handled once, in order, as the packet of its sender,
  with its own bytes, and only if charged; a start is all or nothing; the
  service goes on;
* main: nothing outlives what it uses, and the program can always end;
* reports: only a server with a port reports, one whose thread runs is not
  destroyed, a report that has to wait leaves in the end, packets keep to their
  buffers;
* logging: a line is at most as far off as the calls it overlaps with take;
* process control: a stop ends what it found, and says so only then.

## Modules

| Module | Models | Extends / instantiates |
|---|---|---|
| `RateLimit` | the promise of the limiter: charges and refusals, no table | |
| `IpLimiter` | `isIpBlocked`, `addIpConnection` | `RateLimit` as `Promise` |
| `IpLimiterProofs` | theorems about `IpLimiter` | `IpLimiter` |
| `AsioUdp` | `scheduler.ipp` for one thread, `epoll_reactor.ipp`, the datagram operations, the kernel's sockets | |
| `Executor` | the promise of an `io_context` several threads run | |
| `AsioUdpProofs` | theorems about `AsioUdp` | `AsioUdp` |
| `Scheduler` | `scheduler.ipp` for several threads, `posix_event.hpp`, the reactor's interrupter | `Executor` as `Promise` |
| `SchedulerProofs` | theorems about `Scheduler` | `Scheduler` |
| `Relay` | the promise of the proxy: order, once, nothing waiting at the end | |
| `UdpProxy` | `udp_proxy.cpp` | `AsioUdp` as `Io`, `IpLimiter` as `Limiter`, `Relay` as `Promise` |
| `UdpProxyProofs` | theorems about `UdpProxy` | `UdpProxy`; `AsioUdpProofs` as `Asio`, `IpLimiterProofs` as `Lim` |
| `QwinMain` | `main.cpp`, root `ServerEmulator` constructor and destructor | |
| `QwinMainProofs` | theorems about `QwinMain` | `QwinMain` |
| `A2SPackets` | the packet builders of `modules_1/src/utils.cpp` | |
| `MasterReports` | both `ServerEmulator`s and `Steam` sending on the pool's context | `A2SPackets` |
| `MasterReportsProofs` | theorems about `MasterReports` and `A2SPackets` | `MasterReports` |
| `Logging` | `logMessage`, `getLogFileName` | |
| `LoggingProofs` | theorems about `Logging` | `Logging` |
| `Manage` | `manage.sh` | |
| `ManageProofs` | theorems about `Manage` | `Manage` |
| `MCIpLimiter`, `MCAsioUdp`, `MCScheduler`, `MCUdpProxy`, `MCQwinMain`, `MCMasterReports`, `MCLogging`, `MCManage` | instances for TLC | the module they are named after |

Definitions named `...` after a comment "Mutation of X" are plausible mistakes
in the code X stands for. No specification uses them; substituting one for X
must make TLC report the property it is paired with in `PROJECT.json`, which
shows that the property depends on that code.

### IpLimiter

`now` is `steady_clock` in ticks, `ipMap` the table. A packet is two steps, as in
the code: `CheckExcluded`, `CheckAdmits` or `CheckRefuses` (one per way out of
`isIpBlocked`, each with the purge the code does on that way), then
`AddIpConnection`; `Tick` may come in between because both read the clock.
`checked` is the packet between the two calls. Ages are truncated as
`duration_cast<seconds>` does (`Expired`). `charges` and `refusedAt` are history:
what the promise is about. The window comes out as
`(BlockDurationSeconds + 1) * TicksPerSecond`, a second longer than configured,
and the limit as at least 1; both are what the code does.

`RateLimit` knows no table. It allows a charge when the charge `Limit` places
back is a window old, and a refusal when the last `Limit` charges follow one
another within a window and the last is within a window of now.

### AsioUdp

One thread in `run()`. A step is what the code does under one lock or what
belongs to the running thread alone: `StartRun`, `RunTask` (one `epoll_wait` and
the requeueing by `task_cleanup`), `RunDescriptor` (`perform_io`, and its first
completion starting), `RunCompletion`, `FinishHandler` (`work_cleanup`), and
`AsyncReceive` and `AsyncSend` (`start_op` with its speculative try). The kernel
(`Deliver`, `Block`, `Drain`) moves between any two. `edge` says that a socket
is on epoll's ready list; it is set by arrivals, by room to send if `EPOLLOUT` is
registered, and by the one `EPOLL_CTL_MOD` a descriptor ever gets: when a send has
to wait, none waits already and `EPOLLOUT` was not yet asked for (`Reregistered`).
A send queued behind others wakes nothing. Buffers are sequences of cells that name the
datagram whose byte they hold, which is all that tells an intact packet from an
overwritten one. A receive that fails is a "size" of -1; a send may be rejected;
a flush may end with the socket full again; one `epoll_wait` reports at most
`EventsPerWait` sockets. `AsioInv` has, beside the exact count, that a socket with
an operation waiting is one epoll knows of, and for sends with `EPOLLOUT`
(`PendingRegistered`).

### UdpProxy

`main` and `next` are the position of `startProxy`: `OpenPort`, `ArmPort` for
each port, `StartIoThread`, `Joined`. The io thread takes a completion
(`RunDescriptor`, `RunCompletion`) and `step` then walks through the handler:
`AdmitPacket` or `RefusePacket` (with the sender read from the shared
`endpoint`), `ChargePacket`, `ForwardPacket` or `ResolveFails`, `Rearm`,
`Return`. Steps of a handler are separate because the kernel and the clock go on
between them. `handled` and `attributed` are history. `UsesAsio` and
`UsesLimiter` state that every step of the proxy is a step `AsioUdp` and
`IpLimiter` allow, so what is shown of them holds here. The parts of `ProxyInv`
say what `ReturnsWhenDone`, `HandledInOrderOnce` and `SentWasAdmitted` rest on;
they are named and explained where they are defined.

`Relay` is what a user sees: per port, how many datagrams arrived and were
handled, which wait to be sent and, for all ports together, the sequence of those
that were. The refinement reads `outgoing` off the descriptor's queue of sends and
`sent` off the wire. It says that a port's
datagrams leave in order, each at most once, after they were handled, although
ports share a thread, a queue of completions and a reactor, and that
`startProxy` returns with none waiting. It says nothing of the bytes or the
sender, because with two ports these are wrong (see the disagreements).

### Scheduler and Executor

The proxy's context has one thread; that of the pool has as many as there are
processors, and `main`. A step of `Scheduler` is one hold of the scheduler's
mutex. `Continue` is the loop of `do_run_one` from the moment a thread has the
mutex: it begins a handler, takes the reactor's turn, waits, or returns.
`pthread_cond_signal` comes after the unlock and is a step of its own (`Signal`);
a wait may end without cause (`SpuriousWakeup`). The event's `state_` is its low
bit, `signalled`; the rest, the count of waiters, is the set of threads that
wait or were woken and have not got the mutex back. `kick` is the interrupter's
readiness: set by `interrupt()`, consumed by `epoll_wait`. Work is counted before
an operation is queued (`Post`, `Push`). `Outsiders` never call `run()` but post,
start operations, cancel and stop.

`Executor` knows no queue: operations are submitted, run once by one of so many
threads, and none begins after the halt.

### QwinMain

`main` goes through configuration, worker threads, servers, proxy, message,
`run()` of the pool's context and destruction. The servers start no operation, so
that context has no work and each `run()` returns at once. `bound`, `proxy` and
`others` say who holds which port. `ProxyOpensPort`, `ProxyServes`, `ProxyEnds`
are the outside of `UdpProxy`: it ends in the ways that module shows.

### A2SPackets and MasterReports

The builders are operators. Of a buffer only its size is given, because what is in
it before is nobody's; a builder returns how many bytes are to be sent and what it
has written, by offset (`Copy` is `memcpy`), so that the sum that is compared with
the size, the length that is copied and the length that is returned are three
things and can disagree. As in the code the type byte is left out and no zero byte
separates the fields (`"\0"` appended to a `std::string` is empty). `KeepsTo` is
what a buffer asks of a builder.

`MasterReports` is about the sends. `ListenForConnections` starts the thread of a
server, which from then on goes round: `BeginReport` reads the address, `Resolve`
or `ResolveFails`, `SendMasterServerInfo`, `Sleep`. `Send` is `async_send_to`: made
at once, or kept at the descriptor and made by `Flush`. Its packet is in memory
that is gone by then; such a send may send anything, and no property could hold of
it, so that bytes on the wire are left out. `PoolRuns` and `RunCompletion` are the
context's threads, which stop it for good when they find no work. A server of
`modules_1` is created with `bound` unset, or not at all. `posted` and `waiting`
together are the context's work; the inside of reactor and scheduler is left to
the two modules about them.

`Destroy` may come at any point of a report. Closing the socket and starting a send
on it exclude each other by the mutex of the descriptor, so one step each is
enough: a send that came first waits or is made, and is aborted by the close if it
waits; a thread that comes second reads the address, the port or the socket of an
object whose life is over (`UseDestroyed`). To that C++ gives no meaning: memory
may be as it was, or reused, and the number of the socket may be another's.
`undefined` therefore ends the behaviour, and what the properties say, they say of
behaviours up to there.

### Logging

A call is `Begin` (the clock for the file name), `Convert` (`localtime` into the
`tm` of the process), `ReadField` for year, month and day (`strftime`), `Open` (the
file, the clock for the stamp), `Convert` again, `ReadField` for all six fields and
`Write`. Threads of a process share `tm`, and no lock is held while `strftime` reads
it: a field is the one last stored or one another thread is storing (`Found`),
each field for itself. A stamp can therefore say 31 February, or 1 January on the
first of February, and so can the name of a file. `localtime` may store the fields
in Greenwich before it adds the offset of the zone, so another thread may find
those too (`Universal`; `Calendar` has the fields of local time). `began`, `oldest`
and `alone` are history for the properties.

What is left is `FieldsAreRecent` (each field is of a time between the beginning of
the oldest call the line overlaps with and now, here or in Greenwich), `DateIsRight`
(the date is right if it changes nowhere meanwhile) and, of a thread that was
alone, `AloneIsExact`.

### Manage

`inst` is the life of each program: forked, running with its own command line
(which is when `pgrep -f` finds it), serving with the ports bound, dead.
`killed` has those a SIGTERM is under way to. A script is two or three steps with
sleeps in between: `StartCommand`, `StartCheck`; `StopCommand`, `StopKill`,
`StopCheck`. `target` is history: whom the call has signalled.

## Runs

| Run | Bounds | Shows |
|---|---|---|
| `limiter` | 2 counted addresses and 1 excluded, maximum 2, window of 2 ticks, clock to 4 | the promise, the window limit, the inductive invariant |
| `asio` | 2 sockets, an arrival each, 2 full buffers, 2 sends which may fail, one event per `epoll_wait` | exact work and stop only when idle (`AsioInv`), no descriptor queued twice, no lost edge, all operations complete |
| `scheduler` | 3 threads in `run()`, 1 outside, 1 posted operation and 1 on a socket | exact work, one reactor turn and order inside each thread (`SchedulerInv`), nobody sleeps on a queued handler, stop reaches all, the promise |
| `proxy` | 2 ports, port 2 contested, thread may fail, a client that is not counted and the remote server with a maximum of 1, 2 arrivals per port, 1 full buffer, failing sends | the promise, order, once, admitted, all ports or none, and why (`ProxyInv`); ends, the first is handled |
| `proxy_one_port` | 1 port, 3 arrivals, sizes failed, 0, fitting, cut; excluded client; a tick; failing sends | sender and bytes are right with one port; composition |
| `main` | 3 ports, 2 workers, threads may fail, others take 3 ports | construction and destruction, the end |
| `reports` | a root server, one of `modules_1`, a Steam object; 3 operations, 2 full buffers; 2 configurations, buffers from empty to just large enough (the least size 5 in place of 1400) | who reports and where sends wait (`ReportsInv`), the use of a server that is gone, silence, sizes |
| `logging` | 2 threads, 2 processes, clock to 2, stamps of month, day and hour around the end of January, Greenwich an hour behind | how wrong a line can be (`LoggingInv`, `AloneIsExact`) |
| `manage` | 2 operators, 3 programs | a stop ends what it finds and says so only then (`ManageInv`) |
| `shared_endpoint`, `deferred_send`, `keeps_serving` | as small as shows it | disagreements, below |

The bounds are where the cases happen. Two ports are what it takes for one
completion to wait behind another and for a later port to fail; a port never
takes more than two datagrams, so a third arrival covers whatever is left over.
Two packets per window and a clock of two windows cover filling, refusing,
expiring and filling again. The window in the limiter's run has two ticks per
second so that truncation matters. `EventsPerWait` is 1 for two sockets where the
code has 128 for 1000. In the proxy's run the client is excluded from counting,
so two of its packets can be on their way at one port, and the remote server,
which is counted, is refused at its second. Three threads are what it takes for
one to sleep in `epoll_wait`, one on the event and one to be in a handler; with
one operation of each kind a handler can leave a continuation behind while
another is queued. A log line needs one end of a month and two threads to tear its
date; that overlaps of more threads add nothing new is not left to the bound but
proved. Three programs are one that serves, one that
waits for its ports and one that is started while a stop is under way.

A maximum of zero or less, which lets one packet into each window, is not a run
of its own: the theorems about the limiter cover every integer.

Deadlock is not checked: every system here comes to a legitimate end (the clock
and the arrivals are bounded, the proxy returns, main exits). That something
happens is stated by liveness properties instead.

**Fairness.** `AsioUdp`: the thread in `run()` keeps running and a full send
buffer drains. `UdpProxy`: the same, and the thread in `startProxy` keeps
running. `QwinMain`: `main` and every worker keep running. `Scheduler`: threads in
`run()` go on, handlers return, and a call to post or signal once begun is
finished. `MasterReports`: threads go on and a full buffer drains. `Manage`: a
script goes on to its end and a program that was sent SIGTERM dies of it (none is
caught). `Logging` has no liveness. That is weak fairness
of threads that an operating system schedules and that block only where the model
blocks. Nothing makes clients send, the clock tick, the remote server answer, the
proxy end, sockets of the pool become ready, operators call the scripts or other
processes act.

## Disagreements between the code and what it says

* `shared_endpoint`: with two ports, a packet is checked, charged and logged as
  one of another client: both receives completed before the first handler ran,
  and `clientEndpoint` holds the later sender.
* `deferred_send`: a send that found no room reads `buffer` after the rearmed
  receive has overwritten it. It takes one port only.
* `keeps_serving`: the inner handler does not rearm. Two datagrams per port and
  the proxy is over, though `main.cpp:74` tells the user to end it with Ctrl+C.
* `main` gives the servers and the proxy the same ports, so the proxy cannot start
  after servers that could bind them (`ServesAlone`, proved); the message that the
  system works follows anyway.
* A worker thread that cannot be started after the first ends the program by
  `std::terminate` (`SpawnFails`), not by the catch block that reports critical
  errors.

In functions nothing calls yet, `reports` has these: a report or a Steam packet
that has to wait is read from a stack or a vector that is gone; a server whose
thread runs cannot be destroyed without being used afterwards
(`ThreadOutlivesServer`); the pool's workers call `run()` before anything is
started, so that the context stops and a server whose report had to wait is silent
for good (`SilencedForGood`); a server of `modules_1` never listens
(`OnlyBoundReport`, in `ReportsInv`); and the builders leave out the type byte and the zeros between
fields that the query protocol has.

Of `manage.sh`: "Система успешно запущена" may be said of a program that has
ended, if another of its name runs; a program between `fork` and `exec` is
overlooked by a stop, which then says nothing runs; and a start truncates the
`system.log` a running program writes to. `FoundIsEnded` and
`SaidStoppedIsGone` (in `ManageInv`) are what does hold.

## Proofs

All proofs are for every value of the constants the named assumptions allow:

| Assumption | Allows |
|---|---|
| `IpLimiterAssumption` | any maximum, even negative; any duration and clock resolution |
| `AsioUdpAssumption` | any finite set of sockets, any buffer of at least a byte, any number of events per `epoll_wait`, any program |
| `SchedulerAssumption` | any finite number of threads, of callers outside, of posted operations and of sockets |
| `UdpProxyAssumption` | any number of ports and clients, any buffer of at least a byte, any datagram sizes, any maximum, duration and clock |
| `QwinMainAssumption` | any number of ports and workers |
| `MasterReportsAssumption` | any finite number of senders, any configuration of the shape `loadConfig` gives it, any buffer sizes |
| `LoggingAssumption` | any finite number of threads, any processes, any number of fields, any calendar |
| `ManageAssumption` | any finite number of operators and programs |

What must be finite is what the code counts; that a `None` is apart from what it
stands in for is the only other thing assumed of a set.

**`IpLimiterProofs`.** `LimiterInvariant` (`Spec => []LimiterInv`) and with it
`TypeCorrect`; `LimiterKeepsPromise` (the refinement of `RateLimit`); `LimitHolds`
(`WindowLimit`). Neither the promise nor the limit is inductive: the table alone
does not say what was charged. `LimiterInv` relates the two.
`TableMatchesHistory`: the count of an entry is the length of the run of charges no
whole window interrupts, and its time is that of the last. `SilenceIfAbsent`: an
address with no entry has been silent for a window, which is why forgetting it is
harmless, by whoever's check it was purged. `VerdictHolds`: what `isIpBlocked`
found for the pending packet is still true when `addIpConnection` acts, however
late. `HistoryInOrder`: times do not decrease. A step then has to show that a
counted packet extends the run or starts a new one a window later, and that a
refused one had a full run.

**`AsioUdpProofs`.** `AsioInvariant` (`AsioInv`), `DescriptorsOnce`
(`DescriptorsBeforeTask`), `WakeupsKept` (`NoLostWakeup`). None of the three is
inductive alone. A lost wakeup is excluded because a socket with something to do
is on epoll's ready list, or its descriptor is queued, or it is being run; that
the middle case ends needs the turn of the queue (`InTurn`: when the task runs, no
event is on its way to a descriptor any more), and that the kernel sets the edge
needs that what waits is registered (`PendingRegistered`). The exact count
(`WorkIsExact`: what waits, what is queued and the handler that runs) needs the turn
too, because a round of the task must neither lose nor double a completion. So
`EventInv` is the conjunction of all of them, and every action has one lemma per
part. A descriptor's run and a round of the task move whole queues at once;
`RunDescriptor` is cut into what it takes, what it leaves and what it appends
(`DescriptorDoes`, `DescriptorStep`), and the pairing of what is counted before and
after is a bijection given explicitly. The requeueing of `task_cleanup` and what the
kernel takes of the sends that are flushed are flattened sequences of sequences,
about which facts are shown for a shortest counterexample (below); for the sends
that the packets are some of them, in their order (`FlattenPicks`, `PacketsKept`).

**`SchedulerProofs`.** `SchedulerInvariant` (`SchedulerInv`), `WorkExact`
(`WorkIsExact`), `NobodySleepsOverWork` (`NoIdleThreadMissesWork`), `StopReaches`
(`StopReachesAll`) and `SchedulerKeepsPromise`, the refinement of `Executor`. The
first part, `OrderKept`, is the invariant `OrderInv`: types, the task in the queue
exactly when no thread has it, what each thread holds privately at each of its
places (a thread that begins a handler has run what it held, and one in the
reactor's turn holds as many operations as its count of private work says),
every operation in one place at most, and the work
counted. The second, `WakingKept`, is `WakeInv`: if something is queued,
somebody is about to look, or will be made to. It needs `PushersBusy`, that a
thread that queues something is itself in a handler and so not asleep, and the
first part, by which at most one thread is in `epoll_wait`. The refinement needs
`OrderInv` for the guards of the promise: an operation that begins was submitted
and has not begun, and there is room for one more handler because a thread that
begins one was in none (`RoomForOne`).

**`UdpProxyProofs`.** All safety and both kinds of refinement, in four layers, each
an invariant that the one before makes inductive.

1. `AllInv`: asio's `EventInv`, the limiter's `LimiterInv` and `OwnInv`, the first
   parts of `ProxyInv`. That asio's and the limiter's invariants are kept is their
   own theorems' doing, instantiated for the proxy (`SameAsio` and `SameLimiter`
   say that the two instances of a module are one); what has to be shown is that
   each step of the proxy is one they allow: that it never starts a second receive
   on a port, asks the limiter about one packet at a time and of an address that
   is known, and makes no more sends than there are datagrams. The last two need
   `OneReceiveEach`: the receive of a port waits, or has completed and its
   completion is queued, exactly once, with the datagram that is taken and not
   handled, or its handler runs. From this layer come `OrderAndOnce`
   (`HandledInOrderOnce`), `AllOrNone` (`AllPortsOrNone`), `ReturnsThrough`
   (`ReturnsWhenDone`), `AsioUsedRight` (`UsesAsio`), `LimiterUsedRight`
   (`UsesLimiter`) and with it `ClientsLimited`: the window limit, `WindowLimit`,
   for the packets the proxy charges.
2. `FlowInv`, the rest of `ProxyInv`: `OnlyAdmittedSent` (`SentWasAdmitted`) and
   `ProxyInvariant` (`ProxyInv`). The number of charges is compared with the
   number of datagrams sent, and a send may be held up past any number of charges
   of others; so the invariant counts a datagram from the moment it is charged
   (`PaidFor`), and needs that it is not counted already, because what waits or
   was sent is of earlier datagrams than the one at hand (`SendsFollow`), and that
   nobody else's check comes between its check and its charge
   (`AttributionsFollow`).
3. The refinement, `ProxyIsRelay` (`KeepsPromise`). `Indices` and `Names` read the
   variables of `Relay` off queues of operations and of packets; there is one
   lemma for each way asio moves these queues. A flush is a step of the promise
   because what the kernel takes of n sends is chosen by an increasing function
   (`PacketsKept`), which fits into n (`IncreasingFit`).
4. With one port, `FreshInv`: `clientEndpoint` and `buffer` are of the one datagram
   that is taken and not yet done with, wherever its completion is, until its
   handler has sent it. `OnePortChargesSender` (`ChargedToSender`) follows, and, if
   a send never has to wait, `OnePortPayload` (`PayloadIntact`). `shared_endpoint`
   refutes the first with a second port, `deferred_send` the second with a send
   that waits.

**`QwinMainProofs`.** `MainInvariant` (`MainInv`), `ProxyServesAlone`
(`ServesAlone`), `PoolOutlivesAll` (`NothingOutlivesPool`). `ServesAlone` needs that no
port has two holders (`PortsAreExclusive`) and that the loop of `startProxy` has bound
exactly the ports it has passed (`PhasesInOrder`); `NothingOutlivesPool` needs that
no worker is started out of order (`WorkersInOrder`) and that only an end other than
`std::terminate` destroys the pool.

**`MasterReportsProofs`.** `ReportsInvariant` (`ReportsInv`), `BuildersKeep`
(`BuildersKeepToBuffer`) and an action property, `SilencedStaysSo`
(`SilencedForGood`). `ReportsInv` says where sends wait, who reports and whose use
after its end there can be; that only a bound root server reports
(`OnlyBoundReport`) needs that a server of `modules_1` is never bound, in every
state between its creation and its destruction. `BuildersKeep` is about the
builders as operators, whatever the configuration: what they write and what they
say is to be sent are the same offsets, from 0 to below the size of the buffer.
The texts may be of any length, that of a number written in decimal included, of
which only is used that it is one (`DecimalDefined`, `FlattenSeqType`).

**`LoggingProofs`.** `LinesAreRecent` (`LoggingInv`) and `AloneExact`
(`AloneIsExact`). `LoggingInv` is inductive by design: every time in `tm` or about to
be stored there, and every field read so far, lies between the oldest call it may
come from and now. What carries it is that overlapping is symmetric: a call that
can write what another reads is either older, and then counted in the other's
`oldest`, or younger, and then of a later time (`CallContinues` is the step of one
call, seen by all others). `DateIsRight` is a consequence: if all times of that
interval have one date, any mixture of them has it. `AloneIsExact` is about the line
just written and needs `AloneFindsItsOwn`: a call no other has overlapped so far
finds in `tm` what it stored itself, field by field, because nobody else of its
process is in between.

**`ManageProofs`.** `ManageInvariant` (`ManageInv`) and `StoppedIsGone`
(`SaidStoppedIsGone`, the part of it a user relies on). It is inductive with the
conjunct that a call under way has said nothing yet and that what a stop has
signalled is dead or about to die.

Only model-checked:

* all liveness (`OperationsComplete`, `QueuedRuns`, `StopEndsAll`, `EndsAfterTwo`,
  `FirstIsHandled`, `EndsAfterProxy`, `WaitingSendsLeave`, `ThreadOutlivesServer`,
  `FoundIsEnded`), and
  `ENABLED`: beyond the proof system.

Induction over data is beyond it too: the library's induction theorems take an
operator as parameter. Where a proof needs a fact about a recursive definition for
every input (that `Decimal` gives a text, where an element of `FlattenSeq` comes from),
it is had from the least counterexample: the smallest number of a nonempty set of
naturals exists, and the definition unfolds once below it.

## Not modelled

* The two vendored copies of asio and of nlohmann json are all but a thousandth of
  the source. The models cover the functions of asio the program's own code runs
  through on Linux; timers, strands, TCP, SSL, Windows and the rest are not
  reached. The program's own code, some 870 lines, is modelled but for the
  parts listed here.
* Restarting a context, and its destruction with operations pending (the proxy's
  after a failed start): the operations are destroyed unexecuted.
* In `Scheduler` a socket has one operation and is registered once; the inside of
  a descriptor is `AsioUdp`'s, with one thread. The two are not composed.
* JSON parsing, the text of messages, and arguments of the scripts.
* `blockDurationMinutes * 60` overflowing, and negative durations.
* The handlers of `modules_1/src/server_emulator.cpp` behind its check of
  `bound`: no state of the program reaches them.
* `modules_1/src/main.cpp` ends in the middle of a string and is no program.
* `clean_logs.sh` calls `FIND`, which does not exist: it changes nothing.

## Plan

Done, in this order: the limiter with its promise and proofs (the one piece of
state that decides what is relayed), asio's event loop, the proxy composed of
both, main; the scheduler with several threads and its promise, the promise of
the proxy, the reports to the master server and their packets, logging, process
control.

Every safety property, action property and refinement that a run checks is also
proved.

Next: that the program composed of `QwinMain` and `UdpProxy` ends the way the
former says of the latter (`ProxyOpensPort`, `ProxyServes`, `ProxyEnds` are only
argued from the text today); and one descriptor with several operations run by
several threads, which would join `Scheduler` and `AsioUdp`.
