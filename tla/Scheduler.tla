------------------------------- MODULE Scheduler -------------------------------
(***************************************************************************)
(* asio's scheduler when several threads run one io_context, as the        *)
(* ThreadPool of main.cpp does: scheduler.ipp with the event of            *)
(* posix_event.hpp and the interrupter of the epoll reactor.               *)
(*                                                                         *)
(* A step is what happens under one hold of the scheduler's mutex; the     *)
(* pthread_cond_signal that follows an unlock is a step of its own.  An    *)
(* operation that waits for a socket is one descriptor with one operation  *)
(* (AsioUdp has the inside of a descriptor); operations are told apart     *)
(* only by name, and each is started at most once.                         *)
(***************************************************************************)
EXTENDS Integers, Sequences, FiniteSets, SequencesExt, FiniteSetsExt

CONSTANTS
  Threads,    \* threads that call run()
  Outsiders,  \* threads that only start operations or call stop()
  Posted,     \* operations that are posted
  Io,         \* operations that wait for a socket
  None

Ops == Posted \cup Io
Task == "task"     \* task_operation_: the place of the reactor in the queue

ASSUME SchedulerAssumption ==
  /\ IsFiniteSet(Threads) /\ IsFiniteSet(Outsiders) /\ IsFiniteSet(Ops)
  /\ Threads \cap Outsiders = {} /\ Posted \cap Io = {}
  /\ None \notin Ops /\ Task \notin Ops

VARIABLES
  queue,        \* op_queue_
  stopped,      \* stopped_
  work,         \* outstanding_work_
  interrupted,  \* task_interrupted_
  signalled,    \* the low bit of the event's state_
  kick,         \* whether the interrupter is on epoll's ready list
  waiting,      \* operations that wait in the reactor
  ready,        \* those of them whose socket is ready
  pc,           \* where each thread is in run()
  mayBlock,     \* whether the task was started with a timeout of -1
  running,      \* the operation whose handler a thread runs
  private,      \* private_op_queue
  privateWork,  \* private_outstanding_work
  posting,      \* an operation counted by work_started() and not yet queued
  signalling,   \* whether a thread has a pthread_cond_signal to make
  begun         \* history: how often each operation's handler began

queueVars == <<queue, stopped, work, interrupted, signalled>>
reactorVars == <<kick, waiting, ready>>
threadVars == <<pc, mayBlock, running, private, privateWork, posting, signalling>>
vars == <<queueVars, reactorVars, threadVars, begun>>

Callers == Threads \cup Outsiders

TypeOK ==
  /\ queue \in Seq(Ops \cup {Task})
  /\ stopped \in BOOLEAN
  /\ work \in Nat
  /\ interrupted \in BOOLEAN
  /\ signalled \in BOOLEAN
  /\ kick \in BOOLEAN
  /\ waiting \subseteq Io
  /\ ready \subseteq Io
  /\ pc \in [Threads -> {"out", "loop", "waiting", "woken", "task", "task done",
                         "handler", "last work", "no work", "returned"}]
  /\ mayBlock \in [Threads -> BOOLEAN]
  /\ running \in [Threads -> Ops \cup {None}]
  /\ private \in [Threads -> Seq(Ops)]
  /\ privateWork \in [Threads -> Nat]
  /\ posting \in [Callers -> Ops \cup {None}]
  /\ signalling \in [Callers -> BOOLEAN]
  /\ begun \in [Ops -> Nat]

(* The reactor exists: its task is queued, and its constructor interrupted it. *)
Init ==
  /\ queue = <<Task>>
  /\ stopped = FALSE
  /\ work = 0
  /\ interrupted = TRUE
  /\ signalled = FALSE
  /\ kick = TRUE
  /\ waiting = {}
  /\ ready = {}
  /\ pc = [t \in Threads |-> "out"]
  /\ mayBlock = [t \in Threads |-> FALSE]
  /\ running = [t \in Threads |-> None]
  /\ private = [t \in Threads |-> <<>>]
  /\ privateWork = [t \in Threads |-> 0]
  /\ posting = [c \in Callers |-> None]
  /\ signalling = [c \in Callers |-> FALSE]
  /\ begun = [o \in Ops |-> 0]

(* Operations that have been started. *)
Queued == {o \in Ops : Contains(queue, o)}
Held(t) == {o \in Ops : Contains(private[t], o)}
Private == UNION {Held(t) : t \in Threads}
Started ==
  {o \in Ops : begun[o] > 0} \cup Queued \cup Private \cup waiting \cup ready
    \cup {posting[c] : c \in Callers} \cup {running[t] : t \in Threads}

(* What the event counts as waiters besides t: a woken one is still counted. *)
WaitersBut(t) == {u \in Threads \ {t} : pc[u] \in {"waiting", "woken"}}

Ready(t) == pc[t] = "loop" /\ ~signalling[t]

------------------------------------------------------------------------------
(* Mutation of WakeOne: the event is set, but no waiting thread is signalled. *)
WakeOneUnsignalled(c, i) ==
  LET idle == WaitersBut(c) # {} IN
  /\ signalled' = TRUE
  /\ interrupted' = (i \/ ~idle)
  /\ kick' = (kick \/ (~idle /\ ~i))
  /\ UNCHANGED signalling

(***************************************************************************)
(* wake_one_thread_and_unlock: signal a thread that waits for the event,   *)
(* or else interrupt the task.  i is task_interrupted_ at that moment.     *)
(***************************************************************************)
WakeOne(c, i) ==
  LET idle == WaitersBut(c) # {} IN
  /\ signalled' = TRUE
  /\ signalling' = [signalling EXCEPT ![c] = idle]
  /\ interrupted' = (i \/ ~idle)
  /\ kick' = (kick \/ (~idle /\ ~i))

(* Mutation of BeginHandler: no one is woken for the handlers left. *)
BeginHandlerAlone(t, q, i) ==
  /\ pc' = [pc EXCEPT ![t] = "handler"]
  /\ running' = [running EXCEPT ![t] = Head(q)]
  /\ begun' = [begun EXCEPT ![Head(q)] = @ + 1]
  /\ queue' = Tail(q)
  /\ interrupted' = i
  /\ UNCHANGED <<signalled, signalling, kick, mayBlock>>

(* Mutation of BeginHandler: the operation stays queued if others are behind it. *)
BeginHandlerPeeking(t, q, i) ==
  /\ pc' = [pc EXCEPT ![t] = "handler"]
  /\ running' = [running EXCEPT ![t] = Head(q)]
  /\ begun' = [begun EXCEPT ![Head(q)] = @ + 1]
  /\ IF Len(q) > 1 THEN queue' = q /\ WakeOne(t, i)
     ELSE /\ queue' = Tail(q)
          /\ interrupted' = i /\ UNCHANGED <<signalled, signalling, kick>>
  /\ UNCHANGED mayBlock

(* The first handler is taken off; if there are more, another thread is woken. *)
BeginHandler(t, q, i) ==
  /\ pc' = [pc EXCEPT ![t] = "handler"]
  /\ running' = [running EXCEPT ![t] = Head(q)]
  /\ begun' = [begun EXCEPT ![Head(q)] = @ + 1]
  /\ queue' = Tail(q)
  /\ IF Len(q) > 1 THEN WakeOne(t, i)
     ELSE interrupted' = i /\ UNCHANGED <<signalled, signalling, kick>>
  /\ UNCHANGED mayBlock

(* The reactor's turn: it may block only if nothing else is queued. *)
BeginTask(t, q) ==
  LET more == Len(q) > 1 IN
  /\ pc' = [pc EXCEPT ![t] = "task"]
  /\ mayBlock' = [mayBlock EXCEPT ![t] = ~more]
  /\ interrupted' = more
  /\ queue' = Tail(q)
  /\ signalled' = (signalled \/ more)
  /\ signalling' = [signalling EXCEPT ![t] = more /\ WaitersBut(t) # {}]
  /\ UNCHANGED <<kick, running, begun>>

(***************************************************************************)
(* The loop of do_run_one, from a moment at which t holds the mutex with   *)
(* q queued, until it lets go of it.                                       *)
(***************************************************************************)
Continue(t, q, i) ==
  IF stopped \/ q = <<>> THEN
    /\ pc' = [pc EXCEPT ![t] = IF stopped THEN "returned" ELSE "waiting"]
    /\ signalled' = (signalled /\ stopped)
    /\ queue' = q
    /\ interrupted' = i
    /\ UNCHANGED <<signalling, kick, mayBlock, running, begun>>
  ELSE IF Head(q) = Task THEN BeginTask(t, q)
  ELSE BeginHandler(t, q, i)

(* run() looks at the count of work before it takes the mutex. *)
Enter(t) ==
  /\ pc[t] = "out"
  /\ pc' = [pc EXCEPT ![t] = IF work = 0 THEN "no work" ELSE "loop"]
  /\ UNCHANGED <<queueVars, reactorVars, begun, mayBlock, running, private>>
  /\ UNCHANGED <<privateWork, posting, signalling>>

(* Operations a handler left in the private queue go to the queue first. *)
Loop(t) ==
  /\ Ready(t)
  /\ Continue(t, queue \o private[t], interrupted)
  /\ private' = [private EXCEPT ![t] = <<>>]
  /\ UNCHANGED <<stopped, work, waiting, ready, privateWork, posting>>

(* pthread_cond_wait returned: because of a signal, or spuriously. *)
Woken(t) ==
  /\ pc[t] = "woken"
  /\ IF signalled THEN Continue(t, queue, interrupted)
     ELSE /\ pc' = [pc EXCEPT ![t] = "waiting"]
          /\ UNCHANGED <<queue, interrupted, signalled, signalling, kick>>
          /\ UNCHANGED <<mayBlock, running, begun>>
  /\ UNCHANGED <<stopped, work, waiting, ready, private, privateWork, posting>>

SpuriousWakeup(t) ==
  /\ pc[t] = "waiting"
  /\ pc' = [pc EXCEPT ![t] = "woken"]
  /\ UNCHANGED <<queueVars, reactorVars, begun, mayBlock, running, private>>
  /\ UNCHANGED <<privateWork, posting, signalling>>

(* The signal made after the unlock: one of those that wait now, if any. *)
Signal(c) ==
  /\ signalling[c]
  /\ signalling' = [signalling EXCEPT ![c] = FALSE]
  /\ \/ \E t \in Threads : pc[t] = "waiting" /\ pc' = [pc EXCEPT ![t] = "woken"]
     \/ (\A t \in Threads : pc[t] # "waiting") /\ UNCHANGED pc
  /\ UNCHANGED <<queueVars, reactorVars, begun, mayBlock, running, private>>
  /\ UNCHANGED <<privateWork, posting>>

(* epoll_wait returns; what became ready goes to the private queue. *)
RunTask(t) ==
  /\ pc[t] = "task" /\ ~signalling[t]
  /\ ~mayBlock[t] \/ kick \/ ready # {}
  /\ \E found \in SetToSeqs(ready) : private' = [private EXCEPT ![t] = found]
  /\ ready' = {}
  /\ kick' = FALSE
  /\ pc' = [pc EXCEPT ![t] = "task done"]
  /\ UNCHANGED <<queueVars, waiting, begun, mayBlock, running>>
  /\ UNCHANGED <<privateWork, posting, signalling>>

(* Mutation of TaskCleanup: the task is queued on each side of what it found. *)
TaskCleanupTwice(t) ==
  /\ pc[t] = "task done"
  /\ Continue(t, <<Task>> \o queue \o private[t] \o <<Task>>, TRUE)
  /\ private' = [private EXCEPT ![t] = <<>>]
  /\ UNCHANGED <<stopped, work, waiting, ready, privateWork, posting>>

(* task_cleanup: what the task found, then the task, and on with the loop. *)
TaskCleanup(t) ==
  /\ pc[t] = "task done"
  /\ Continue(t, queue \o private[t] \o <<Task>>, TRUE)
  /\ private' = [private EXCEPT ![t] = <<>>]
  /\ UNCHANGED <<stopped, work, waiting, ready, privateWork, posting>>

(* Mutation of FinishHandler: the operation's own work is forgotten. *)
FinishHandlerKeeping(t) ==
  /\ pc[t] = "handler" /\ posting[t] = None /\ ~signalling[t]
  /\ running' = [running EXCEPT ![t] = None]
  /\ privateWork' = [privateWork EXCEPT ![t] = 0]
  /\ work' = IF privateWork[t] > 0 THEN work + privateWork[t] ELSE work - 1
  /\ pc' = [pc EXCEPT ![t] = IF work' = 0 THEN "last work" ELSE "loop"]
  /\ UNCHANGED <<queue, stopped, interrupted, signalled, reactorVars, begun>>
  /\ UNCHANGED <<mayBlock, private, posting, signalling>>

(***************************************************************************)
(* work_cleanup: the operation's own work is taken off against that of     *)
(* the continuations its handler left.                                     *)
(***************************************************************************)
FinishHandler(t) ==
  /\ pc[t] = "handler" /\ posting[t] = None /\ ~signalling[t]
  /\ running' = [running EXCEPT ![t] = None]
  /\ privateWork' = [privateWork EXCEPT ![t] = 0]
  /\ work' = work + privateWork[t] - 1
  /\ pc' = [pc EXCEPT ![t] = IF work' = 0 THEN "last work" ELSE "loop"]
  /\ UNCHANGED <<queue, stopped, interrupted, signalled, reactorVars, begun>>
  /\ UNCHANGED <<mayBlock, private, posting, signalling>>

------------------------------------------------------------------------------
(* What callers do: outsiders at any time, threads in a handler. *)

Free(c) ==
  /\ posting[c] = None /\ ~signalling[c]
  /\ c \in Threads => pc[c] = "handler"

(* post_immediate_completion: counted first, queued under the mutex after. *)
Post(c, o) ==
  /\ Free(c)
  /\ o \in Posted \ Started
  /\ work' = work + 1
  /\ posting' = [posting EXCEPT ![c] = o]
  /\ UNCHANGED <<queue, stopped, interrupted, signalled, reactorVars, begun>>
  /\ UNCHANGED <<pc, mayBlock, running, private, privateWork, signalling>>

Push(c) ==
  /\ posting[c] # None
  /\ queue' = Append(queue, posting[c])
  /\ WakeOne(c, interrupted)
  /\ posting' = [posting EXCEPT ![c] = None]
  /\ UNCHANGED <<stopped, work, waiting, ready, begun>>
  /\ UNCHANGED <<pc, mayBlock, running, private, privateWork>>

(* A continuation of the running handler stays with its thread. *)
PostContinuation(t, o) ==
  /\ Free(t)
  /\ o \in Posted \ Started
  /\ privateWork' = [privateWork EXCEPT ![t] = @ + 1]
  /\ private' = [private EXCEPT ![t] = Append(@, o)]
  /\ UNCHANGED <<queueVars, reactorVars, begun, pc, mayBlock, running>>
  /\ UNCHANGED <<posting, signalling>>

(* start_op leaves an operation with its descriptor. *)
StartIo(c, o) ==
  /\ Free(c)
  /\ o \in Io \ Started
  /\ work' = work + 1
  /\ waiting' = waiting \cup {o}
  /\ UNCHANGED <<queue, stopped, interrupted, signalled, kick, ready, begun>>
  /\ UNCHANGED threadVars

(* cancel_ops, also when a socket is closed: queued as it is, already counted. *)
Cancel(c, o) ==
  /\ Free(c)
  /\ o \in waiting
  /\ waiting' = waiting \ {o}
  /\ queue' = Append(queue, o)
  /\ WakeOne(c, interrupted)
  /\ UNCHANGED <<stopped, work, ready, begun>>
  /\ UNCHANGED <<pc, mayBlock, running, private, privateWork, posting>>

(* Mutation of StopAll: the blocked task is not interrupted. *)
StopAllIdle ==
  /\ stopped' = TRUE
  /\ signalled' = TRUE
  /\ UNCHANGED <<interrupted, kick>>

(* stop_all_threads, but for the broadcast. *)
StopAll ==
  /\ stopped' = TRUE
  /\ signalled' = TRUE
  /\ interrupted' = TRUE
  /\ kick' = (kick \/ ~interrupted)

(* Mutation of Broadcast: only one of the threads that wait is woken. *)
BroadcastOne ==
  [t \in Threads |->
     IF pc[t] = "waiting" /\ t = CHOOSE u \in Threads : pc[u] = "waiting"
     THEN "woken" ELSE pc[t]]

Broadcast == [t \in Threads |-> IF pc[t] = "waiting" THEN "woken" ELSE pc[t]]

(* run() without work, or the last work done: stop(), then return or loop. *)
StopSelf(t) ==
  /\ pc[t] \in {"no work", "last work"}
  /\ StopAll
  /\ pc' = [Broadcast EXCEPT ![t] = IF pc[t] = "no work" THEN "returned" ELSE "loop"]
  /\ UNCHANGED <<queue, work, waiting, ready, begun>>
  /\ UNCHANGED <<mayBlock, running, private, privateWork, posting, signalling>>

(* io_context::stop, as the destructor of ThreadPool calls it. *)
Stop(c) ==
  /\ Free(c)
  /\ ~stopped
  /\ StopAll
  /\ pc' = Broadcast
  /\ UNCHANGED <<queue, work, waiting, ready, begun>>
  /\ UNCHANGED <<mayBlock, running, private, privateWork, posting, signalling>>

(* The kernel: a socket becomes ready. *)
BecomesReady(o) ==
  /\ o \in waiting
  /\ waiting' = waiting \ {o}
  /\ ready' = ready \cup {o}
  /\ UNCHANGED <<queueVars, kick, threadVars, begun>>

Proceed(t) ==
  \/ Enter(t) \/ Loop(t) \/ Woken(t) \/ RunTask(t) \/ TaskCleanup(t)
  \/ FinishHandler(t) \/ StopSelf(t)

Next ==
  \/ \E t \in Threads :
       \/ Proceed(t)
       \/ SpuriousWakeup(t)
       \/ \E o \in Posted : PostContinuation(t, o)
  \/ \E c \in Callers :
       \/ Signal(c) \/ Push(c)
       \/ \E o \in Posted : Post(c, o)
       \/ \E o \in Io : StartIo(c, o) \/ Cancel(c, o)
  \/ \E c \in Outsiders : Stop(c)
  \/ \E o \in Io : BecomesReady(o)

Spec == Init /\ [][Next]_vars

(***************************************************************************)
(* Threads call run() and keep running, handlers return, and a call to     *)
(* post or signal once begun is finished.  Sockets need not become ready,  *)
(* and nobody has to start or stop anything.                               *)
(***************************************************************************)
Fairness ==
  /\ \A t \in Threads : WF_vars(Proceed(t))
  /\ \A c \in Callers : WF_vars(Signal(c)) /\ WF_vars(Push(c))

FairSpec == Spec /\ Fairness

------------------------------------------------------------------------------
InHandler == {t \in Threads : pc[t] = "handler"}

(***************************************************************************)
(* The count of outstanding work is exact whatever the threads are at: an  *)
(* operation counts from its start to the return of its handler, and the   *)
(* continuations of a handler count when it has returned                   *)
(* (scheduler.ipp:81-104, 345-366).                                        *)
(***************************************************************************)
WorkIsExact ==
  work = Cardinality(Queued \cup waiting \cup ready)
         + Cardinality(UNION {Held(t) : t \in Threads \ InHandler})
         + Cardinality(InHandler)
         + Cardinality({c \in Callers : posting[c] # None})

(***************************************************************************)
(* The reactor has one place: its task is queued or with one thread, so    *)
(* no two threads are in epoll_wait and it never gets lost                 *)
(* (scheduler.ipp:56-74, 461-476).                                         *)
(***************************************************************************)
OneTask ==
  Cardinality({i \in DOMAIN queue : queue[i] = Task})
    + Cardinality({t \in Threads : pc[t] \in {"task", "task done"}}) = 1

(***************************************************************************)
(* A handler runs with what the queue gave it and counts what it leaves;   *)
(* the rest of a thread is empty (scheduler.ipp:81-104, 325-366).          *)
(***************************************************************************)
ThreadsInOrder ==
  \A t \in Threads :
    /\ running[t] # None <=> pc[t] = "handler"
    /\ privateWork[t] = IF pc[t] = "handler" THEN Len(private[t]) ELSE 0
    /\ private[t] # <<>> => pc[t] \in {"handler", "loop", "last work", "task done"}

(***************************************************************************)
(* An operation is in one place: with its caller, its descriptor, the      *)
(* reactor, a thread or the queue, once, or else its handler has begun,    *)
(* once (scheduler.ipp:325-366, 447-505).                                  *)
(***************************************************************************)
Pending == Queued \cup waiting \cup ready \cup Private

OnePlace ==
  /\ IsInjective(queue)
  /\ Queued \cap waiting = {} /\ Queued \cap ready = {} /\ waiting \cap ready = {}
  /\ \A t \in Threads :
       /\ IsInjective(private[t])
       /\ Held(t) \cap (Queued \cup waiting \cup ready) = {}
       /\ \A u \in Threads \ {t} : Held(t) \cap Held(u) = {}
       /\ running[t] # None =>
            begun[running[t]] = 1 /\ \A u \in Threads \ {t} : running[u] # running[t]
  /\ \A c \in Callers : posting[c] # None =>
       /\ posting[c] \notin Pending /\ begun[posting[c]] = 0
       /\ \A d \in Callers \ {c} : posting[d] # posting[c]
  /\ \A o \in Ops : begun[o] # 0 => begun[o] = 1 /\ o \notin Pending

(***************************************************************************)
(* The inside of run() is in order: one reactor turn, and what a thread    *)
(* keeps to itself it keeps only on its way back to the queue              *)
(* (scheduler.ipp:56-104).                                                 *)
(***************************************************************************)
SchedulerInv == TypeOK /\ OneTask /\ ThreadsInOrder /\ OnePlace

(* Somebody is on the way to the queue and will look at it. *)
Coming ==
  \/ \E c \in Callers : signalling[c]
  \/ \E t \in Threads :
       \/ pc[t] \in {"loop", "last work", "task done"}
       \/ pc[t] = "woken" /\ signalled
       \/ pc[t] = "task" /\ (~mayBlock[t] \/ kick \/ ready # {})

(***************************************************************************)
(* The event is set while a handler is queued; a blocked task that was     *)
(* interrupted has been kicked, and while it has not been, somebody else   *)
(* is there to be woken for what is queued (scheduler.ipp:447-505,         *)
(* 647-658).                                                               *)
(***************************************************************************)
Wakeful ==
  /\ stopped \/ Queued # {} => signalled
  /\ \A t \in Threads : pc[t] = "task" /\ mayBlock[t] /\ ~kick =>
       /\ ~interrupted
       /\ ~stopped /\ Queued # {} =>
            \E u \in Threads :
              pc[u] \in {"waiting", "woken", "loop", "last work", "task done"}

(***************************************************************************)
(* No handler is left lying while a thread sleeps, be it on the event or   *)
(* in epoll_wait: somebody is on the way (scheduler.ipp:447-505, 647-658,  *)
(* posix_event.hpp:63-121).                                                *)
(***************************************************************************)
NoIdleThreadMissesWork ==
  /\ Wakeful
  /\ ~stopped /\ Queued # {} =>
       \/ Coming
       \/ \A t \in Threads : pc[t] \in {"out", "no work", "handler", "returned"}

(***************************************************************************)
(* stop() reaches everyone: afterwards no thread sleeps on the event and   *)
(* none is left blocked in epoll_wait.                                     *)
(***************************************************************************)
StopReachesAll ==
  stopped =>
    \A t \in Threads :
      /\ pc[t] # "waiting"
      /\ pc[t] = "woken" => signalled
      /\ pc[t] = "task" => ~mayBlock[t] \/ kick \/ ready # {}

(* The promise: see Executor. *)
Life ==
  [o \in Ops |->
     IF \E t \in Threads : running[t] = o THEN "running"
     ELSE IF begun[o] > 0 THEN "done"
     ELSE IF o \in Started THEN "submitted" ELSE "new"]

Promise == INSTANCE Executor WITH
             ThreadCount <- Cardinality(Threads), life <- Life, halted <- stopped

KeepsPromise == Promise!Spec

(***************************************************************************)
(* A queued operation runs, unless the context is stopped.                 *)
(***************************************************************************)
QueuedRuns == \A o \in Ops : (o \in Queued) ~> (begun[o] > 0 \/ stopped)

(***************************************************************************)
(* Once the context is stopped every run() returns, which is what the      *)
(* joins in the destructor of ThreadPool wait for (main.cpp:20-27).        *)
(***************************************************************************)
StopEndsAll == stopped ~> (\A t \in Threads : pc[t] = "returned")
==============================================================================
