--------------------------- MODULE SchedulerProofs ---------------------------
(***************************************************************************)
(* Proofs about Scheduler, for any number of threads, of other callers and *)
(* of operations.                                                          *)
(***************************************************************************)
EXTENDS Scheduler, SequenceTheorems, FiniteSetTheorems, TLAPS

(***************************************************************************)
(* Queues without repetitions, and what they contain.                      *)
(***************************************************************************)
LEMMA ContainsRange ==
  ASSUME NEW S, NEW q \in Seq(S), NEW x
  PROVE  Contains(q, x) <=> x \in Range(q)
BY LenProperties DEF Contains, Range

LEMMA RangeEmpty ==
  ASSUME NEW S, NEW q \in Seq(S)
  PROVE  Range(q) = {} <=> q = <<>>
<1>1. DOMAIN q = 1..Len(q) /\ Len(q) \in Nat
  BY LenProperties
<1>2. q = <<>> => Range(q) = {}
  BY DEF Range
<1>3. ASSUME q # <<>> PROVE Range(q) # {}
  <2>1. Len(q) \in Nat \ {0}
    BY <1>3, EmptySeq
  <2>2. q[1] \in Range(q)
    BY <1>1, <2>1 DEF Range
  <2>3. QED
    BY <2>2
<1>4. QED
  BY <1>2, <1>3

LEMMA ConcatOnce ==
  ASSUME NEW S, NEW s \in Seq(S), NEW t \in Seq(S),
         IsInjective(s), IsInjective(t), Range(s) \cap Range(t) = {}
  PROVE  /\ s \o t \in Seq(S)
         /\ IsInjective(s \o t)
         /\ Range(s \o t) = Range(s) \cup Range(t)
<1>1. /\ s \o t \in Seq(S) /\ Len(s \o t) = Len(s) + Len(t)
      /\ \A i \in 1..(Len(s) + Len(t)) :
           (s \o t)[i] = IF i <= Len(s) THEN s[i] ELSE t[i - Len(s)]
  BY ConcatProperties
<1>2. /\ DOMAIN s = 1..Len(s) /\ DOMAIN t = 1..Len(t)
      /\ DOMAIN (s \o t) = 1..(Len(s) + Len(t))
      /\ Len(s) \in Nat /\ Len(t) \in Nat
  BY <1>1, LenProperties
<1>3. ASSUME NEW a \in 1..(Len(s) + Len(t)), NEW b \in 1..(Len(s) + Len(t)),
             (s \o t)[a] = (s \o t)[b]
      PROVE  a = b
  <2>1. CASE a <= Len(s) /\ b <= Len(s)
    <3>1. a \in DOMAIN s /\ b \in DOMAIN s /\ s[a] = s[b]
      BY <1>1, <1>2, <1>3, <2>1
    <3>2. QED
      BY <3>1 DEF IsInjective
  <2>2. CASE a > Len(s) /\ b > Len(s)
    <3>1. a - Len(s) \in DOMAIN t /\ b - Len(s) \in DOMAIN t /\ t[a - Len(s)] = t[b - Len(s)]
      BY <1>1, <1>2, <1>3, <2>2
    <3>2. a - Len(s) = b - Len(s)
      BY <3>1 DEF IsInjective
    <3>3. QED
      BY <1>2, <3>2
  <2>3. CASE a <= Len(s) /\ b > Len(s)
    <3>1. a \in DOMAIN s /\ b - Len(s) \in DOMAIN t /\ s[a] = t[b - Len(s)]
      BY <1>1, <1>2, <1>3, <2>3
    <3>2. QED
      BY <3>1 DEF Range
  <2>4. CASE a > Len(s) /\ b <= Len(s)
    <3>1. b \in DOMAIN s /\ a - Len(s) \in DOMAIN t /\ s[b] = t[a - Len(s)]
      BY <1>1, <1>2, <1>3, <2>4
    <3>2. QED
      BY <3>1 DEF Range
  <2>5. QED
    BY <1>2, <2>1, <2>2, <2>3, <2>4
<1>4. IsInjective(s \o t)
  BY <1>2, <1>3 DEF IsInjective
<1>5. QED
  BY <1>1, <1>4, RangeConcatenation

LEMMA SingleOnce ==
  ASSUME NEW x
  PROVE  <<x>> \in Seq({x}) /\ IsInjective(<<x>>) /\ Range(<<x>>) = {x} /\ <<x>> # <<>>
BY DEF IsInjective, Range

LEMMA AppendOnce ==
  ASSUME NEW S, NEW q \in Seq(S), NEW x \in S, IsInjective(q), x \notin Range(q)
  PROVE  /\ Append(q, x) \in Seq(S)
         /\ IsInjective(Append(q, x))
         /\ Range(Append(q, x)) = Range(q) \cup {x}
<1>1. PICK y : y = <<x>>
  OBVIOUS
<1>2. Append(q, x) = q \o y
  BY <1>1, AppendIsConcat
<1>3. <<x>> \in Seq({x}) /\ {x} \subseteq S
  BY SingleOnce
<1>4. y \in Seq(S) /\ IsInjective(y) /\ Range(y) = {x}
  BY <1>1, <1>3, SingleOnce, SeqMonotonic
<1>5. Range(q) \cap Range(y) = {}
  BY <1>4
<1>6. /\ q \o y \in Seq(S) /\ IsInjective(q \o y)
      /\ Range(q \o y) = Range(q) \cup Range(y)
  BY <1>4, <1>5, ConcatOnce
<1>7. QED
  BY <1>2, <1>4, <1>6

LEMMA TailOnce ==
  ASSUME NEW S, NEW q \in Seq(S), q # <<>>, IsInjective(q)
  PROVE  /\ Head(q) \in S /\ Head(q) \in Range(q)
         /\ Tail(q) \in Seq(S)
         /\ IsInjective(Tail(q))
         /\ Range(Tail(q)) = Range(q) \ {Head(q)}
         /\ Len(q) > 1 <=> Tail(q) # <<>>
<1>1. /\ Head(q) \in S /\ Tail(q) \in Seq(S) /\ Len(Tail(q)) = Len(q) - 1
      /\ \A i \in 1..Len(Tail(q)) : Tail(q)[i] = q[i + 1]
  BY HeadTailProperties
<1>2. /\ DOMAIN q = 1..Len(q) /\ Len(q) \in Nat \ {0}
      /\ DOMAIN Tail(q) = 1..(Len(q) - 1)
  BY <1>1, LenProperties, EmptySeq
<1>3. Head(q) = q[1] /\ 1 \in DOMAIN q
  BY <1>2
<1>4. IsInjective(Tail(q))
  BY <1>1, <1>2 DEF IsInjective
<1>5. ASSUME NEW x \in Range(q), x # Head(q) PROVE x \in Range(Tail(q))
  <2>1. PICK i \in 1..Len(q) : x = q[i]
    BY <1>2 DEF Range
  <2>2. i # 1
    BY <1>3, <1>5, <2>1
  <2>3. i - 1 \in 1..(Len(q) - 1) /\ (i - 1) + 1 = i
    BY <1>2, <2>2
  <2>4. Tail(q)[i - 1] = x
    BY <1>1, <1>2, <2>1, <2>3
  <2>5. QED
    BY <1>2, <2>3, <2>4 DEF Range
<1>6. ASSUME NEW x \in Range(Tail(q)) PROVE x \in Range(q) /\ x # Head(q)
  <2>1. PICK i \in 1..(Len(q) - 1) : x = Tail(q)[i]
    BY <1>2 DEF Range
  <2>2. x = q[i + 1] /\ i + 1 \in DOMAIN q /\ i + 1 # 1
    BY <1>1, <1>2, <2>1
  <2>3. QED
    BY <1>3, <2>2 DEF Range, IsInjective
<1>7. Len(q) > 1 <=> Tail(q) # <<>>
  <2>1. Tail(q) = <<>> <=> Len(Tail(q)) = 0
    BY <1>1, EmptySeq
  <2>2. QED
    BY <1>1, <1>2, <2>1
<1>8. Range(Tail(q)) = Range(q) \ {Head(q)}
  BY <1>5, <1>6
<1>9. QED
  BY <1>1, <1>3, <1>4, <1>7, <1>8 DEF Range

LEMMA SetToSeqsOnce ==
  ASSUME NEW S, IsFiniteSet(S), NEW q \in SetToSeqs(S)
  PROVE  q \in Seq(S) /\ IsInjective(q) /\ Range(q) = S
<1> DEFINE n == Cardinality(S)
<1>1. n \in Nat
  BY FS_CardinalityType
<1>2. q \in [1..n -> S] /\ \A i, j \in 1..n : i # j => q[i] # q[j]
  BY DEF SetToSeqs
<1>3. IsInjective(q) /\ q \in Injection(1..n, S)
  BY <1>2 DEF IsInjective, Injection
<1>4. Cardinality(1..n) = n
  BY <1>1, FS_Interval
<1>5. q \in Surjection(1..n, S)
  BY <1>3, <1>4, FS_Injection
<1>6. Range(q) = S
  BY <1>2, <1>5 DEF Surjection, Range
<1>7. q \in Seq(S)
  BY <1>1, <1>2, SeqDef
<1>8. QED
  BY <1>3, <1>6, <1>7

------------------------------------------------------------------------------
(***************************************************************************)
(* The parts of the inductive invariant.  The place of the task is told    *)
(* without cardinalities, and what work counts as one set of operations,   *)
(* one of threads and one of callers.                                      *)
(***************************************************************************)
AtTask(t) == pc[t] \in {"task", "task done"}

TaskPlace ==
  \/ /\ Task \in Range(queue)
     /\ \A t \in Threads : ~AtTask(t)
  \/ /\ Task \notin Range(queue)
     /\ \E t \in Threads : AtTask(t) /\ \A u \in Threads \ {t} : ~AtTask(u)

Outstanding ==
  Queued \cup waiting \cup ready \cup UNION {Held(t) : t \in Threads \ InHandler}

Posters == {c \in Callers : posting[c] # None}

WorkCounted ==
  work = Cardinality(Outstanding) + Cardinality(InHandler) + Cardinality(Posters)

OrderInv == TypeOK /\ TaskPlace /\ ThreadsInOrder /\ OnePlace /\ WorkCounted

LEMMA QueuedRange ==
  ASSUME TypeOK
  PROVE  /\ \A o \in Ops : o \in Queued <=> o \in Range(queue)
         /\ \A t \in Threads : Held(t) = Range(private[t])
         /\ \A t \in Threads : Held(t) = {} <=> private[t] = <<>>
<1>1. queue \in Seq(Ops \cup {Task}) /\ \A t \in Threads : private[t] \in Seq(Ops)
  BY DEF TypeOK
<1>2. \A o \in Ops : o \in Queued <=> o \in Range(queue)
  BY <1>1, ContainsRange DEF Queued
<1>3. ASSUME NEW t \in Threads
      PROVE  Held(t) = Range(private[t]) /\ (Held(t) = {} <=> private[t] = <<>>)
  <2>1. \A o \in Ops : o \in Held(t) <=> o \in Range(private[t])
    BY <1>1, ContainsRange DEF Held
  <2>2. Range(private[t]) \subseteq Ops /\ Held(t) \subseteq Ops
    BY <1>1, RangeOfSeq DEF Held
  <2>3. Held(t) = Range(private[t])
    BY <2>1, <2>2
  <2>4. QED
    BY <1>1, <2>3, RangeEmpty
<1>4. QED
  BY <1>2, <1>3

(* The same of a next state, for the variables that may have changed. *)
LEMMA QueuedRangeNext ==
  ASSUME queue' \in Seq(Ops \cup {Task})
  PROVE  Queued' = Ops \cap Range(queue')
BY ContainsRange DEF Queued

LEMMA HeldNext ==
  ASSUME NEW t \in Threads, private'[t] \in Seq(Ops)
  PROVE  Held(t)' = Range(private'[t])
<1>1. \A o \in Ops : o \in Held(t)' <=> o \in Range(private'[t])
  BY ContainsRange DEF Held
<1>2. Range(private'[t]) \subseteq Ops
  BY RangeOfSeq
<1>3. QED
  BY <1>1, <1>2 DEF Held

LEMMA HeldUnchanged ==
  ASSUME NEW t \in Threads, private'[t] = private[t]
  PROVE  Held(t)' = Held(t)
BY DEF Held

(***************************************************************************)
(* A thread that holds the mutex goes on with q: what Loop, Woken and      *)
(* TaskCleanup have in common.                                             *)
(***************************************************************************)
Turn(t, q, i) ==
  /\ pc[t] \in {"loop", "woken", "task done"}
  /\ q \in Seq(Ops \cup {Task}) /\ IsInjective(q)
  /\ \A o \in Ops : o \in Range(q) <=> o \in Queued \/ o \in Held(t)
  /\ Task \in Range(q) <=> Task \in Range(queue) \/ pc[t] = "task done"
  /\ i \in BOOLEAN /\ (pc[t] = "task done" \/ i = interrupted)
  /\ pc[t] = "woken" => signalled
  /\ Continue(t, q, i)
  /\ private' = [private EXCEPT ![t] = <<>>]
  /\ UNCHANGED <<stopped, work, waiting, ready, privateWork, posting>>

TakesTurn(t) == \E q, i : Turn(t, q, i)

LEMMA LoopTurn ==
  ASSUME OrderInv, NEW t \in Threads, Loop(t) PROVE TakesTurn(t)
<1>1. /\ queue \in Seq(Ops \cup {Task}) /\ private[t] \in Seq(Ops)
      /\ interrupted \in BOOLEAN
      /\ IsInjective(queue) /\ IsInjective(private[t])
      /\ Held(t) \cap Queued = {}
  BY DEF OrderInv, TypeOK, OnePlace
<1>2. /\ \A o \in Ops : o \in Queued <=> o \in Range(queue)
      /\ Held(t) = Range(private[t]) /\ Range(private[t]) \subseteq Ops
  BY <1>1, QueuedRange, RangeOfSeq DEF OrderInv
<1>3. private[t] \in Seq(Ops \cup {Task})
  BY <1>1, SeqMonotonic
<1>4. Range(queue) \cap Range(private[t]) = {}
  BY <1>1, <1>2
<1> DEFINE q == queue \o private[t]
<1>5. /\ q \in Seq(Ops \cup {Task}) /\ IsInjective(q)
      /\ Range(q) = Range(queue) \cup Range(private[t])
  BY <1>1, <1>3, <1>4, ConcatOnce
<1>6. /\ pc[t] = "loop"
      /\ Continue(t, q, interrupted)
      /\ private' = [private EXCEPT ![t] = <<>>]
      /\ UNCHANGED <<stopped, work, waiting, ready, privateWork, posting>>
  BY DEF Loop, Ready
<1> HIDE DEF q
<1>7. Task \notin Range(private[t])
  BY <1>2, SchedulerAssumption
<1>8. \A o \in Ops : o \in Range(q) <=> o \in Queued \/ o \in Held(t)
  BY <1>2, <1>5
<1>9. Turn(t, q, interrupted)
  BY <1>1, <1>5, <1>6, <1>7, <1>8 DEF Turn
<1>10. QED
  BY <1>9 DEF TakesTurn

LEMMA WokenTurn ==
  ASSUME OrderInv, NEW t \in Threads, Woken(t), signalled PROVE TakesTurn(t)
<1>1. /\ queue \in Seq(Ops \cup {Task}) /\ interrupted \in BOOLEAN
      /\ IsInjective(queue) /\ private \in [Threads -> Seq(Ops)]
  BY DEF OrderInv, TypeOK, OnePlace
<1>2. /\ pc[t] = "woken"
      /\ Continue(t, queue, interrupted)
      /\ UNCHANGED <<stopped, work, waiting, ready, private, privateWork, posting>>
  BY DEF Woken
<1>3. private[t] = <<>>
  BY <1>2 DEF OrderInv, ThreadsInOrder
<1>4. private' = [private EXCEPT ![t] = <<>>]
  BY <1>1, <1>2, <1>3
<1>5. Held(t) = {} /\ \A o \in Ops : o \in Queued <=> o \in Range(queue)
  BY <1>3, QueuedRange DEF OrderInv
<1>6. Turn(t, queue, interrupted)
  BY <1>1, <1>2, <1>4, <1>5 DEF Turn
<1>7. QED
  BY <1>6 DEF TakesTurn

LEMMA TaskCleanupTurn ==
  ASSUME OrderInv, NEW t \in Threads, TaskCleanup(t) PROVE TakesTurn(t)
<1>1. /\ queue \in Seq(Ops \cup {Task}) /\ private[t] \in Seq(Ops)
      /\ IsInjective(queue) /\ IsInjective(private[t])
      /\ Held(t) \cap Queued = {}
  BY DEF OrderInv, TypeOK, OnePlace
<1>2. /\ \A o \in Ops : o \in Queued <=> o \in Range(queue)
      /\ Held(t) = Range(private[t]) /\ Range(private[t]) \subseteq Ops
  BY <1>1, QueuedRange, RangeOfSeq DEF OrderInv
<1>3. private[t] \in Seq(Ops \cup {Task})
  BY <1>1, SeqMonotonic
<1>4. Range(queue) \cap Range(private[t]) = {}
  BY <1>1, <1>2, SchedulerAssumption
<1> DEFINE p == queue \o private[t]
           q == p \o <<Task>>
<1>5. /\ p \in Seq(Ops \cup {Task}) /\ IsInjective(p)
      /\ Range(p) = Range(queue) \cup Range(private[t])
  BY <1>1, <1>3, <1>4, ConcatOnce
<1>6. /\ pc[t] = "task done"
      /\ Continue(t, q, TRUE)
      /\ private' = [private EXCEPT ![t] = <<>>]
      /\ UNCHANGED <<stopped, work, waiting, ready, privateWork, posting>>
  BY DEF TaskCleanup
<1> HIDE DEF p
<1>7. Task \notin Range(p)
  BY <1>2, <1>5, <1>6, SchedulerAssumption DEF OrderInv, TaskPlace, AtTask
<1>8. Task \in Ops \cup {Task} /\ q = Append(p, Task)
  BY <1>5, AppendIsConcat
<1> HIDE DEF q
<1>9. /\ q \in Seq(Ops \cup {Task}) /\ IsInjective(q)
      /\ Range(q) = Range(p) \cup {Task}
  <2>1. /\ Append(p, Task) \in Seq(Ops \cup {Task})
        /\ IsInjective(Append(p, Task))
        /\ Range(Append(p, Task)) = Range(p) \cup {Task}
    BY <1>5, <1>7, <1>8, AppendOnce
  <2>2. QED
    BY <1>8, <2>1
<1>10. \A o \in Ops : o \in Range(q) <=> o \in Queued \/ o \in Held(t)
  BY <1>2, <1>5, <1>9, SchedulerAssumption
<1>11. Task \in Range(q)
  BY <1>9
<1>12. Turn(t, q, TRUE)
  BY <1>1, <1>6, <1>9, <1>10, <1>11 DEF Turn
<1>13. QED
  BY <1>12 DEF TakesTurn

------------------------------------------------------------------------------
(***************************************************************************)
(* The three ends of a turn: the thread sleeps or returns, it becomes the  *)
(* reactor's, or it runs the first handler.                                *)
(***************************************************************************)
Sleeps(t, q) ==
  /\ stopped \/ q = <<>>
  /\ pc' = [pc EXCEPT ![t] = IF stopped THEN "returned" ELSE "waiting"]
  /\ Range(queue') = Range(q)
  /\ UNCHANGED <<mayBlock, running, begun, kick, signalling>>

TakesTask(t, q) ==
  /\ ~stopped /\ Task \in Range(q)
  /\ pc' = [pc EXCEPT ![t] = "task"]
  /\ Range(queue') = Range(q) \ {Task}
  /\ UNCHANGED <<kick, running, begun>>

TakesHandler(t, q, o) ==
  /\ ~stopped /\ o \in Range(q)
  /\ pc' = [pc EXCEPT ![t] = "handler"]
  /\ running' = [running EXCEPT ![t] = o]
  /\ begun' = [begun EXCEPT ![o] = @ + 1]
  /\ Range(queue') = Range(q) \ {o}
  /\ UNCHANGED mayBlock

LEMMA TurnEnds ==
  ASSUME OrderInv, NEW t \in Threads, NEW q, NEW i, Turn(t, q, i)
  PROVE  /\ queue' \in Seq(Ops \cup {Task}) /\ IsInjective(queue')
         /\ \/ Sleeps(t, q)
            \/ TakesTask(t, q)
            \/ \E o \in Ops : TakesHandler(t, q, o)
<1>1. q \in Seq(Ops \cup {Task}) /\ IsInjective(q) /\ Continue(t, q, i)
  BY DEF Turn
<1>2. CASE stopped \/ q = <<>>
  BY <1>1, <1>2 DEF Continue, Sleeps
<1>3. CASE ~(stopped \/ q = <<>>)
  <2>1. /\ Head(q) \in Ops \cup {Task} /\ Head(q) \in Range(q)
        /\ Tail(q) \in Seq(Ops \cup {Task}) /\ IsInjective(Tail(q))
        /\ Range(Tail(q)) = Range(q) \ {Head(q)}
    BY <1>1, <1>3, TailOnce
  <2>2. CASE Head(q) = Task
    <3>1. BeginTask(t, q)
      BY <1>1, <1>3, <2>2 DEF Continue
    <3>2. /\ queue' = Tail(q) /\ pc' = [pc EXCEPT ![t] = "task"]
          /\ UNCHANGED <<kick, running, begun>>
      BY <3>1 DEF BeginTask
    <3>3. TakesTask(t, q)
      BY <1>3, <2>1, <2>2, <3>2 DEF TakesTask
    <3>4. QED
      BY <2>1, <3>2, <3>3
  <2>3. CASE Head(q) # Task
    <3>1. BeginHandler(t, q, i)
      BY <1>1, <1>3, <2>3 DEF Continue
    <3>2. PICK o \in Ops : o = Head(q)
      BY <2>1, <2>3
    <3>3. /\ queue' = Tail(q) /\ pc' = [pc EXCEPT ![t] = "handler"]
          /\ running' = [running EXCEPT ![t] = o]
          /\ begun' = [begun EXCEPT ![o] = @ + 1]
          /\ UNCHANGED mayBlock
      BY <3>1, <3>2 DEF BeginHandler
    <3>4. TakesHandler(t, q, o)
      BY <1>3, <2>1, <3>2, <3>3 DEF TakesHandler
    <3>5. QED
      BY <2>1, <3>3, <3>4
  <2>4. QED
    BY <2>2, <2>3
<1>4. QED
  BY <1>2, <1>3

(* The Boolean variables of a turn. *)
LEMMA WakeOneType ==
  ASSUME TypeOK, NEW c \in Callers, NEW i \in BOOLEAN, WakeOne(c, i)
  PROVE  /\ signalled' \in BOOLEAN /\ interrupted' \in BOOLEAN /\ kick' \in BOOLEAN
         /\ signalling' \in [Callers -> BOOLEAN]
<1>1. signalling \in [Callers -> BOOLEAN] /\ kick \in BOOLEAN
  BY DEF TypeOK
<1>2. (WaitersBut(c) # {}) \in BOOLEAN
  OBVIOUS
<1>3. signalling' \in [Callers -> BOOLEAN]
  BY <1>1, <1>2 DEF WakeOne
<1>4. interrupted' \in BOOLEAN
  BY Zenon DEF WakeOne
<1>5. kick' \in BOOLEAN
  BY Zenon DEF WakeOne
<1>6. signalled' \in BOOLEAN
  BY DEF WakeOne
<1>7. QED
  BY <1>3, <1>4, <1>5, <1>6

LEMMA TurnType ==
  ASSUME OrderInv, NEW t \in Threads, NEW q, NEW i, Turn(t, q, i)
  PROVE  /\ signalled' \in BOOLEAN /\ interrupted' \in BOOLEAN /\ kick' \in BOOLEAN
         /\ signalling' \in [Callers -> BOOLEAN]
         /\ mayBlock' \in [Threads -> BOOLEAN]
<1>1. /\ signalled \in BOOLEAN /\ kick \in BOOLEAN
      /\ signalling \in [Callers -> BOOLEAN] /\ mayBlock \in [Threads -> BOOLEAN]
      /\ t \in Callers /\ TypeOK
  BY DEF OrderInv, TypeOK, Callers
<1>2. Continue(t, q, i) /\ i \in BOOLEAN
  BY DEF Turn
<1>3. CASE stopped \/ q = <<>>
  <2>1. /\ signalled' = (signalled /\ stopped) /\ interrupted' = i
        /\ UNCHANGED <<signalling, kick, mayBlock>>
    BY <1>2, <1>3 DEF Continue
  <2>2. signalled' \in BOOLEAN
    BY <2>1, Zenon
  <2>3. QED
    BY <1>1, <1>2, <2>1, <2>2
<1>4. CASE BeginTask(t, q)
  <2>1. PICK more \in BOOLEAN : more = (Len(q) > 1)
    <3>1. Len(q) \in Nat
      BY LenProperties DEF Turn
    <3>2. (Len(q) > 1) \in BOOLEAN
      BY <3>1
    <3>3. QED
      BY <3>2, Zenon
  <2>2. PICK wake \in BOOLEAN : wake = (more /\ WaitersBut(t) # {})
    OBVIOUS
  <2>3. /\ mayBlock' = [mayBlock EXCEPT ![t] = ~more]
        /\ interrupted' = more /\ kick' = kick
        /\ signalled' = (signalled \/ more)
        /\ signalling' = [signalling EXCEPT ![t] = wake]
    BY <1>4, <2>1, <2>2 DEF BeginTask
  <2>4. signalled' \in BOOLEAN
    BY <2>3, Zenon
  <2>5. (~more) \in BOOLEAN
    OBVIOUS
  <2>6. QED
    BY <1>1, <2>3, <2>4, <2>5
<1>5. CASE BeginHandler(t, q, i)
  <2>1. mayBlock' = mayBlock
    BY <1>5 DEF BeginHandler
  <2>2. CASE Len(q) > 1
    <3>1. WakeOne(t, i)
      BY <1>5, <2>2 DEF BeginHandler
    <3>2. QED
      BY <1>1, <1>2, <2>1, <3>1, WakeOneType
  <2>3. CASE ~(Len(q) > 1)
    BY <1>1, <1>2, <1>5, <2>1, <2>3 DEF BeginHandler
  <2>4. QED
    BY <2>2, <2>3
<1>6. QED
  BY <1>2, <1>3, <1>4, <1>5 DEF Continue

(* What a turn does with the operations that wait for their handlers. *)
LEMMA TurnSets ==
  ASSUME OrderInv, NEW t \in Threads, NEW q, NEW i, Turn(t, q, i)
  PROVE  /\ Queued' = Ops \cap Range(queue')
         /\ private' \in [Threads -> Seq(Ops)] /\ private'[t] = <<>>
         /\ Held(t)' = {}
         /\ \A u \in Threads \ {t} : private'[u] = private[u] /\ Held(u)' = Held(u)
<1>1. private \in [Threads -> Seq(Ops)] /\ private' = [private EXCEPT ![t] = <<>>]
  BY DEF OrderInv, TypeOK, Turn
<1>2. private' \in [Threads -> Seq(Ops)] /\ private'[t] = <<>>
  BY <1>1, EmptySeq
<1>3. Held(t)' = Range(private'[t])
  BY <1>2, HeldNext
<1>4. Held(t)' = {}
  BY <1>2, <1>3, RangeEmpty
<1>5. ASSUME NEW u \in Threads \ {t}
      PROVE  private'[u] = private[u] /\ Held(u)' = Held(u)
  BY <1>1, HeldUnchanged
<1>6. queue' \in Seq(Ops \cup {Task})
  BY TurnEnds
<1>7. QED
  BY <1>2, <1>4, <1>5, <1>6, QueuedRangeNext

LEMMA TurnKeepsTask ==
  ASSUME OrderInv, NEW t \in Threads, NEW q, NEW i, Turn(t, q, i)
  PROVE  TaskPlace'
<1>1. /\ pc \in [Threads -> {"out", "loop", "waiting", "woken", "task", "task done",
                             "handler", "last work", "no work", "returned"}]
      /\ pc[t] \in {"loop", "woken", "task done"}
      /\ Task \in Range(q) <=> Task \in Range(queue) \/ pc[t] = "task done"
      /\ TaskPlace
  BY DEF OrderInv, TypeOK, Turn
<1>2. Task \in Range(q) => \A u \in Threads \ {t} : ~AtTask(u)
  BY <1>1 DEF TaskPlace, AtTask
<1>3. Task \notin Range(q) => \E u \in Threads \ {t} : AtTask(u) /\ \A v \in Threads \ {u} : ~AtTask(v)
  BY <1>1 DEF TaskPlace, AtTask
<1>4. CASE Sleeps(t, q)
  <2>1. /\ \A u \in Threads \ {t} : pc'[u] = pc[u]
        /\ pc'[t] \in {"returned", "waiting"}
        /\ Range(queue') = Range(q)
    BY <1>1, <1>4 DEF Sleeps
  <2>2. QED
    BY <1>2, <1>3, <2>1 DEF TaskPlace, AtTask
<1>5. CASE TakesTask(t, q)
  <2>1. /\ \A u \in Threads \ {t} : pc'[u] = pc[u]
        /\ pc'[t] = "task"
        /\ Range(queue') = Range(q) \ {Task} /\ Task \in Range(q)
    BY <1>1, <1>5 DEF TakesTask
  <2>2. QED
    BY <1>2, <2>1 DEF TaskPlace, AtTask
<1>6. ASSUME NEW o \in Ops, TakesHandler(t, q, o) PROVE TaskPlace'
  <2>1. /\ \A u \in Threads \ {t} : pc'[u] = pc[u]
        /\ pc'[t] = "handler"
        /\ Range(queue') = Range(q) \ {o}
    BY <1>1, <1>6 DEF TakesHandler
  <2>2. o # Task
    BY SchedulerAssumption
  <2>3. QED
    BY <1>2, <1>3, <2>1, <2>2 DEF TaskPlace, AtTask
<1>7. QED
  BY <1>4, <1>5, <1>6, TurnEnds

LEMMA TurnKeepsThreads ==
  ASSUME OrderInv, NEW t \in Threads, NEW q, NEW i, Turn(t, q, i)
  PROVE  ThreadsInOrder'
<1>1. /\ pc \in [Threads -> {"out", "loop", "waiting", "woken", "task", "task done",
                             "handler", "last work", "no work", "returned"}]
      /\ running \in [Threads -> Ops \cup {None}]
      /\ pc[t] \in {"loop", "woken", "task done"}
      /\ privateWork' = privateWork
      /\ ThreadsInOrder
  BY DEF OrderInv, TypeOK, Turn
<1>2. /\ private'[t] = <<>> /\ Len(<<>>) = 0
      /\ \A u \in Threads \ {t} : private'[u] = private[u]
  BY TurnSets, EmptySeq
<1>3. running[t] = None /\ privateWork[t] = 0
  BY <1>1 DEF ThreadsInOrder
<1>4. CASE Sleeps(t, q) \/ TakesTask(t, q)
  <2>1. /\ \A u \in Threads \ {t} : pc'[u] = pc[u]
        /\ pc'[t] \in {"returned", "waiting", "task"}
        /\ running' = running
    BY <1>1, <1>4 DEF Sleeps, TakesTask
  <2>2. QED
    BY <1>1, <1>2, <1>3, <2>1 DEF ThreadsInOrder
<1>5. ASSUME NEW o \in Ops, TakesHandler(t, q, o) PROVE ThreadsInOrder'
  <2>1. /\ \A u \in Threads \ {t} : pc'[u] = pc[u] /\ running'[u] = running[u]
        /\ pc'[t] = "handler" /\ running'[t] = o /\ o # None
    BY <1>1, <1>5, SchedulerAssumption DEF TakesHandler
  <2>2. QED
    BY <1>1, <1>2, <1>3, <2>1 DEF ThreadsInOrder
<1>6. QED
  BY <1>4, <1>5, TurnEnds

(* A turn queues what the thread kept, and may take one operation out. *)
LEMMA TurnPending ==
  ASSUME OrderInv, NEW t \in Threads, NEW q, NEW i, Turn(t, q, i)
  PROVE  /\ Sleeps(t, q) \/ TakesTask(t, q) =>
              Queued' = Queued \cup Held(t) /\ Pending' = Pending
         /\ \A o \in Ops : TakesHandler(t, q, o) =>
              /\ Queued' = (Queued \cup Held(t)) \ {o}
              /\ o \in Pending /\ Pending' = Pending \ {o}
              /\ begun[o] = 0
              /\ \A c \in Callers : posting[c] # o
              /\ \A u \in Threads : running[u] # o
<1>1. /\ begun \in [Ops -> Nat] /\ running \in [Threads -> Ops \cup {None}]
      /\ Queued \subseteq Ops /\ OnePlace
  BY DEF OrderInv, TypeOK, Queued
<1>2. /\ \A o \in Ops : o \in Range(q) <=> o \in Queued \/ o \in Held(t)
      /\ UNCHANGED <<waiting, ready, posting>>
  BY DEF Turn
<1>3. /\ Queued' = Ops \cap Range(queue')
      /\ Held(t)' = {}
      /\ \A u \in Threads \ {t} : Held(u)' = Held(u)
  BY TurnSets
<1>4. ASSUME Sleeps(t, q) \/ TakesTask(t, q)
      PROVE  Queued' = Queued \cup Held(t) /\ Pending' = Pending
  <2>1. Range(queue') = Range(q) \/ Range(queue') = Range(q) \ {Task}
    BY <1>4 DEF Sleeps, TakesTask
  <2>2. Queued' = Queued \cup Held(t)
    BY <1>1, <1>2, <1>3, <2>1, SchedulerAssumption DEF Held
  <2>3. QED
    BY <1>2, <1>3, <2>2 DEF Pending, Private
<1>5. ASSUME NEW o \in Ops, TakesHandler(t, q, o)
      PROVE  /\ Queued' = (Queued \cup Held(t)) \ {o}
             /\ o \in Pending /\ Pending' = Pending \ {o}
             /\ begun[o] = 0
             /\ \A c \in Callers : posting[c] # o
             /\ \A u \in Threads : running[u] # o
  <2>1. Range(queue') = Range(q) \ {o} /\ o \in Range(q)
    BY <1>5 DEF TakesHandler
  <2>2. Queued' = (Queued \cup Held(t)) \ {o} /\ o \in Pending
    BY <1>1, <1>2, <1>3, <2>1 DEF Held, Pending, Private
  <2>3. o \notin waiting /\ o \notin ready /\ \A u \in Threads \ {t} : o \notin Held(u)
    BY <1>1, <1>2, <2>1 DEF OnePlace
  <2>4. Pending' = Pending \ {o}
    BY <1>2, <1>3, <2>2, <2>3 DEF Pending, Private
  <2>5. begun[o] = 0 /\ \A c \in Callers : posting[c] # o
    BY <1>1, <2>2, SchedulerAssumption DEF OnePlace
  <2>6. \A u \in Threads : running[u] # o
    BY <1>1, <2>5, SchedulerAssumption DEF OnePlace
  <2>7. QED
    BY <2>2, <2>4, <2>5, <2>6
<1>6. QED
  BY <1>4, <1>5

LEMMA TurnKeepsPlace ==
  ASSUME OrderInv, NEW t \in Threads, NEW q, NEW i, Turn(t, q, i)
  PROVE  OnePlace'
<1>1. /\ begun \in [Ops -> Nat] /\ running \in [Threads -> Ops \cup {None}]
      /\ posting \in [Callers -> Ops \cup {None}]
      /\ waiting \subseteq Ops /\ ready \subseteq Ops /\ Queued \subseteq Ops
      /\ OnePlace
  BY DEF OrderInv, TypeOK, Ops, Queued
<1>2. /\ \A o \in Ops : o \in Range(q) <=> o \in Queued \/ o \in Held(t)
      /\ UNCHANGED <<waiting, ready, posting>>
  BY DEF Turn
<1>3. /\ Queued' = Ops \cap Range(queue')
      /\ Held(t)' = {}
      /\ \A u \in Threads \ {t} : private'[u] = private[u] /\ Held(u)' = Held(u)
      /\ private'[t] = <<>>
  BY TurnSets
<1>4. IsInjective(queue') /\ \A u \in Threads : IsInjective(private'[u])
  <2>1. IsInjective(<<>>)
    BY DEF IsInjective
  <2>2. QED
    BY <1>1, <1>3, <2>1, TurnEnds DEF OnePlace
<1>5. CASE Sleeps(t, q) \/ TakesTask(t, q)
  <2>1. running' = running /\ begun' = begun
    BY <1>5 DEF Sleeps, TakesTask
  <2>2. Queued' = Queued \cup Held(t) /\ Pending' = Pending
    BY <1>5, TurnPending
  <2>3. QED
    BY <1>1, <1>2, <1>3, <1>4, <2>1, <2>2 DEF OnePlace
<1>6. ASSUME NEW o \in Ops, TakesHandler(t, q, o) PROVE OnePlace'
  <2>1. /\ running' = [running EXCEPT ![t] = o]
        /\ begun' = [begun EXCEPT ![o] = @ + 1]
    BY <1>6 DEF TakesHandler
  <2>2. /\ Queued' = (Queued \cup Held(t)) \ {o} /\ Pending' = Pending \ {o}
        /\ begun[o] = 0 /\ \A c \in Callers : posting[c] # o
        /\ \A u \in Threads : running[u] # o
    BY <1>6, TurnPending
  <2>3. /\ \A p \in Ops : begun'[p] = IF p = o THEN 1 ELSE begun[p]
        /\ \A u \in Threads : running'[u] = IF u = t THEN o ELSE running[u]
    BY <1>1, <2>1, <2>2
  <2>4. /\ Queued' \cap waiting' = {} /\ Queued' \cap ready' = {} /\ waiting' \cap ready' = {}
    BY <1>1, <1>2, <2>2 DEF OnePlace
  <2>5. ASSUME NEW u \in Threads
        PROVE  /\ Held(u)' \cap (Queued' \cup waiting' \cup ready') = {}
               /\ \A v \in Threads \ {u} : Held(u)' \cap Held(v)' = {}
               /\ running'[u] # None =>
                    /\ begun'[running'[u]] = 1
                    /\ \A v \in Threads \ {u} : running'[v] # running'[u]
    <3>1. /\ Held(u)' \cap (Queued' \cup waiting' \cup ready') = {}
          /\ \A v \in Threads \ {u} : Held(u)' \cap Held(v)' = {}
      BY <1>1, <1>2, <1>3, <2>2 DEF OnePlace
    <3>2. running'[u] # None =>
            /\ begun'[running'[u]] = 1
            /\ \A v \in Threads \ {u} : running'[v] # running'[u]
      BY <1>1, <2>2, <2>3 DEF OnePlace
    <3>3. QED
      BY <3>1, <3>2
  <2>6. ASSUME NEW c \in Callers, posting'[c] # None
         PROVE  /\ posting'[c] \notin Pending' /\ begun'[posting'[c]] = 0
                /\ \A d \in Callers \ {c} : posting'[d] # posting'[c]
    BY <1>1, <1>2, <2>2, <2>3, <2>6 DEF OnePlace
  <2>7. \A p \in Ops : begun'[p] # 0 => begun'[p] = 1 /\ p \notin Pending'
    BY <1>1, <2>2, <2>3 DEF OnePlace
  <2>8. QED
    BY <1>4, <2>4, <2>5, <2>6, <2>7 DEF OnePlace
<1>7. QED
  BY <1>5, <1>6, TurnEnds

------------------------------------------------------------------------------
(***************************************************************************)
(* Counting.  A set that gains or loses an element, and the finite sets    *)
(* that work is counted with.                                              *)
(***************************************************************************)
LEMMA CardinalityAdd ==
  ASSUME NEW S, NEW x, IsFiniteSet(S), x \notin S
  PROVE  Cardinality(S \cup {x}) = Cardinality(S) + 1
BY FS_AddElement

LEMMA CardinalityRemove ==
  ASSUME NEW S, NEW x, IsFiniteSet(S), x \in S
  PROVE  Cardinality(S \ {x}) = Cardinality(S) - 1 /\ Cardinality(S) \in Nat
BY FS_RemoveElement, FS_CardinalityType

LEMMA OpsFinite ==
  ASSUME NEW S, S \subseteq Ops
  PROVE  IsFiniteSet(S) /\ Cardinality(S) \in Nat
BY SchedulerAssumption, FS_Subset, FS_CardinalityType

LEMMA ThreadsFinite ==
  ASSUME NEW S, S \subseteq Threads
  PROVE  IsFiniteSet(S) /\ Cardinality(S) \in Nat
BY SchedulerAssumption, FS_Subset, FS_CardinalityType

LEMMA CallersFinite ==
  ASSUME NEW S, S \subseteq Callers
  PROVE  IsFiniteSet(S) /\ Cardinality(S) \in Nat
<1>1. IsFiniteSet(Callers)
  BY SchedulerAssumption, FS_Union DEF Callers
<1>2. QED
  BY <1>1, FS_Subset, FS_CardinalityType

LEMMA CountedSets ==
  ASSUME TypeOK
  PROVE  /\ IsFiniteSet(Outstanding) /\ Cardinality(Outstanding) \in Nat
         /\ IsFiniteSet(InHandler) /\ Cardinality(InHandler) \in Nat
         /\ IsFiniteSet(Posters) /\ Cardinality(Posters) \in Nat
         /\ work \in Nat
<1>1. Outstanding \subseteq Ops
  <2>1. waiting \subseteq Ops /\ ready \subseteq Ops
    BY DEF TypeOK, Ops
  <2>2. Queued \subseteq Ops /\ \A t \in Threads : Held(t) \subseteq Ops
    BY DEF Queued, Held
  <2>3. QED
    BY <2>1, <2>2 DEF Outstanding
<1>2. InHandler \subseteq Threads /\ Posters \subseteq Callers
  BY DEF InHandler, Posters
<1>3. QED
  BY <1>1, <1>2, OpsFinite, ThreadsFinite, CallersFinite DEF TypeOK

LEMMA TurnKeepsWork ==
  ASSUME OrderInv, NEW t \in Threads, NEW q, NEW i, Turn(t, q, i)
  PROVE  WorkCounted'
<1>1. /\ pc \in [Threads -> {"out", "loop", "waiting", "woken", "task", "task done",
                             "handler", "last work", "no work", "returned"}]
      /\ waiting \subseteq Ops /\ ready \subseteq Ops /\ Queued \subseteq Ops
      /\ OnePlace /\ WorkCounted /\ TypeOK
  BY DEF OrderInv, TypeOK, Ops, Queued
<1>2. /\ \A o \in Ops : o \in Range(q) <=> o \in Queued \/ o \in Held(t)
      /\ UNCHANGED <<waiting, ready, posting, work>>
      /\ t \notin InHandler
  BY DEF Turn, InHandler
<1>3. /\ Queued' = Ops \cap Range(queue')
      /\ Held(t)' = {}
      /\ \A u \in Threads \ {t} : Held(u)' = Held(u)
  BY TurnSets
<1>4. Posters' = Posters
  BY <1>2 DEF Posters
<1>5. CASE Sleeps(t, q) \/ TakesTask(t, q)
  <2>1. /\ Range(queue') = Range(q) \/ Range(queue') = Range(q) \ {Task}
        /\ \A u \in Threads \ {t} : pc'[u] = pc[u]
        /\ pc'[t] # "handler"
    BY <1>1, <1>5 DEF Sleeps, TakesTask
  <2>2. Queued' = Queued \cup Held(t)
    BY <1>1, <1>2, <1>3, <2>1, SchedulerAssumption DEF Held
  <2>3. InHandler' = InHandler
    BY <1>2, <2>1 DEF InHandler
  <2>4. Outstanding' = Outstanding
    BY <1>2, <1>3, <2>2, <2>3 DEF Outstanding
  <2>5. QED
    BY <1>1, <1>2, <1>4, <2>3, <2>4 DEF WorkCounted
<1>6. ASSUME NEW o \in Ops, TakesHandler(t, q, o) PROVE WorkCounted'
  <2>1. /\ Range(queue') = Range(q) \ {o} /\ o \in Range(q)
        /\ \A u \in Threads \ {t} : pc'[u] = pc[u]
        /\ pc'[t] = "handler"
    BY <1>1, <1>6 DEF TakesHandler
  <2>2. Queued' = (Queued \cup Held(t)) \ {o}
    BY <1>1, <1>2, <1>3, <2>1 DEF Held
  <2>3. o \notin waiting /\ o \notin ready /\ \A u \in Threads \ {t} : o \notin Held(u)
    BY <1>1, <1>2, <2>1 DEF OnePlace
  <2>4. InHandler' = InHandler \cup {t}
    BY <1>2, <2>1 DEF InHandler
  <2>5. Outstanding' = Outstanding \ {o} /\ o \in Outstanding
    BY <1>2, <1>3, <2>1, <2>2, <2>3, <2>4 DEF Outstanding
  <2>6. /\ Cardinality(Outstanding') = Cardinality(Outstanding) - 1
        /\ Cardinality(InHandler') = Cardinality(InHandler) + 1
    BY <1>1, <1>2, <2>4, <2>5, CountedSets, CardinalityAdd, CardinalityRemove
  <2>7. /\ Cardinality(Outstanding) \in Nat /\ Cardinality(InHandler) \in Nat
        /\ Cardinality(Posters) \in Nat
        /\ work = Cardinality(Outstanding) + Cardinality(InHandler) + Cardinality(Posters)
    BY <1>1, CountedSets DEF WorkCounted
  <2>8. work' = work /\ Cardinality(Posters') = Cardinality(Posters)
    BY <1>2, <1>4
  <2>9. work' = Cardinality(Outstanding') + Cardinality(InHandler') + Cardinality(Posters')
    BY <2>6, <2>7, <2>8
  <2>10. QED
    BY <2>9 DEF WorkCounted
<1>7. QED
  BY <1>5, <1>6, TurnEnds

LEMMA TurnKeepsOrder ==
  ASSUME OrderInv, NEW t \in Threads, TakesTurn(t)
  PROVE  OrderInv'
<1>1. PICK q, i : Turn(t, q, i)
  BY DEF TakesTurn
<1>2. /\ waiting \subseteq Io /\ ready \subseteq Io /\ stopped \in BOOLEAN /\ work \in Nat
      /\ privateWork \in [Threads -> Nat] /\ posting \in [Callers -> Ops \cup {None}]
      /\ pc \in [Threads -> {"out", "loop", "waiting", "woken", "task", "task done",
                             "handler", "last work", "no work", "returned"}]
      /\ running \in [Threads -> Ops \cup {None}] /\ begun \in [Ops -> Nat]
  BY DEF OrderInv, TypeOK
<1>3. UNCHANGED <<stopped, work, waiting, ready, privateWork, posting>>
  BY <1>1 DEF Turn
<1>4. /\ pc' \in [Threads -> {"out", "loop", "waiting", "woken", "task", "task done",
                             "handler", "last work", "no work", "returned"}]
      /\ running' \in [Threads -> Ops \cup {None}] /\ begun' \in [Ops -> Nat]
      /\ queue' \in Seq(Ops \cup {Task})
  <2>1. CASE Sleeps(t, q) \/ TakesTask(t, q)
    BY <1>1, <1>2, <2>1, TurnEnds DEF Sleeps, TakesTask
  <2>2. ASSUME NEW o \in Ops, TakesHandler(t, q, o)
        PROVE  /\ pc' \in [Threads -> {"out", "loop", "waiting", "woken", "task", "task done",
                                       "handler", "last work", "no work", "returned"}]
               /\ running' \in [Threads -> Ops \cup {None}] /\ begun' \in [Ops -> Nat]
    <3>1. /\ pc' = [pc EXCEPT ![t] = "handler"]
          /\ running' = [running EXCEPT ![t] = o]
          /\ begun' = [begun EXCEPT ![o] = @ + 1]
      BY <2>2 DEF TakesHandler
    <3>2. begun' \in [Ops -> Nat]
      <4>1. begun \in [Ops -> Nat]
        BY <1>2
      <4>2. begun[o] \in Nat
        BY <4>1
      <4>3. begun[o] + 1 \in Nat
        BY <4>2
      <4>4. QED
        BY <3>1, <4>1, <4>3
    <3>3. running' \in [Threads -> Ops \cup {None}]
      BY <1>2, <3>1
    <3>4. QED
      BY <1>2, <3>1, <3>2, <3>3
  <2>3. QED
    BY <1>1, <2>1, <2>2, TurnEnds
<1>5. private' \in [Threads -> Seq(Ops)]
  BY <1>1, TurnSets
<1>6. /\ signalled' \in BOOLEAN /\ interrupted' \in BOOLEAN /\ kick' \in BOOLEAN
      /\ signalling' \in [Callers -> BOOLEAN]
      /\ mayBlock' \in [Threads -> BOOLEAN]
  BY <1>1, TurnType
<1>7. TypeOK'
  BY <1>2, <1>3, <1>4, <1>5, <1>6 DEF TypeOK
<1>8. QED
  BY <1>1, <1>7, TurnKeepsTask, TurnKeepsThreads, TurnKeepsPlace, TurnKeepsWork DEF OrderInv

------------------------------------------------------------------------------
(***************************************************************************)
(* The steps other than turns.  First those that move threads about, but   *)
(* not to or from a handler or the reactor.                                *)
(***************************************************************************)
Places == {"out", "loop", "waiting", "woken", "task", "task done",
           "handler", "last work", "no work", "returned"}

MovesThreads ==
  /\ \A t \in Threads : pc'[t] # pc[t] =>
       /\ pc[t] \in {"out", "waiting", "woken", "no work", "last work"}
       /\ pc'[t] \in {"loop", "waiting", "woken", "no work", "returned"}
       /\ pc[t] = "last work" => pc'[t] = "loop"
  /\ pc' \in [Threads -> Places]
  /\ signalling' \in [Callers -> BOOLEAN]
  /\ stopped' \in BOOLEAN /\ signalled' \in BOOLEAN
  /\ interrupted' \in BOOLEAN /\ kick' \in BOOLEAN
  /\ UNCHANGED <<queue, work, waiting, ready, mayBlock, running, private>>
  /\ UNCHANGED <<privateWork, posting, begun>>

LEMMA MovesKeepOrder == ASSUME OrderInv, MovesThreads PROVE OrderInv'
<1>1. TypeOK'
  BY DEF OrderInv, TypeOK, MovesThreads, Places
<1>2. TaskPlace'
  BY DEF OrderInv, TaskPlace, AtTask, MovesThreads
<1>3. ThreadsInOrder'
  <2>1. /\ \A t \in Threads : pc'[t] = "handler" <=> pc[t] = "handler"
        /\ \A t \in Threads :
             pc[t] \in {"handler", "loop", "last work", "task done"} =>
               pc'[t] \in {"handler", "loop", "last work", "task done"}
        /\ UNCHANGED <<running, private, privateWork>>
    BY DEF MovesThreads
  <2>2. QED
    BY <2>1 DEF OrderInv, ThreadsInOrder
<1>4. /\ UNCHANGED <<Queued, waiting, ready, Private, Pending>>
      /\ \A t \in Threads : Held(t)' = Held(t)
  <2>1. UNCHANGED <<queue, private, waiting, ready>>
    BY DEF MovesThreads
  <2>2. Queued' = Queued /\ \A t \in Threads : Held(t)' = Held(t)
    BY <2>1 DEF Queued, Held
  <2>3. Private' = Private
    BY <2>2 DEF Private
  <2>4. QED
    BY <2>1, <2>2, <2>3 DEF Pending
<1>5. OnePlace'
  <2>1. OnePlace /\ UNCHANGED <<queue, private, running, posting, begun>>
    BY DEF OrderInv, MovesThreads
  <2>2. QED
    BY <1>4, <2>1 DEF OnePlace
<1>6. InHandler' = InHandler
  BY DEF InHandler, MovesThreads
<1>7. WorkCounted'
  BY <1>4, <1>6 DEF OrderInv, WorkCounted, Outstanding, Posters, MovesThreads
<1>8. QED
  BY <1>1, <1>2, <1>3, <1>5, <1>7 DEF OrderInv

LEMMA EnterMoves ==
  ASSUME OrderInv, NEW t \in Threads, Enter(t) PROVE MovesThreads
<1>1. TypeOK
  BY DEF OrderInv
<1>2. /\ pc[t] = "out"
      /\ pc' = [pc EXCEPT ![t] = IF work = 0 THEN "no work" ELSE "loop"]
      /\ UNCHANGED <<queueVars, reactorVars, begun, mayBlock, running, private>>
      /\ UNCHANGED <<privateWork, posting, signalling>>
  BY DEF Enter
<1>3. QED
  BY <1>1, <1>2 DEF MovesThreads, TypeOK, Places, queueVars, reactorVars

LEMMA SpuriousWakeupMoves ==
  ASSUME OrderInv, NEW t \in Threads, SpuriousWakeup(t) PROVE MovesThreads
BY DEF SpuriousWakeup, OrderInv, MovesThreads, TypeOK, Places, queueVars, reactorVars

LEMMA WokenInVainMoves ==
  ASSUME OrderInv, NEW t \in Threads, Woken(t), ~signalled PROVE MovesThreads
BY DEF Woken, OrderInv, MovesThreads, TypeOK, Places

LEMMA SignalMoves ==
  ASSUME OrderInv, NEW c \in Callers, Signal(c) PROVE MovesThreads
<1>1. /\ pc \in [Threads -> Places]
      /\ \/ \E t \in Threads : pc[t] = "waiting" /\ pc' = [pc EXCEPT ![t] = "woken"]
         \/ pc' = pc
  BY DEF Signal, OrderInv, TypeOK, Places
<1>2. /\ pc' \in [Threads -> Places]
      /\ \A t \in Threads : pc'[t] # pc[t] => pc[t] = "waiting" /\ pc'[t] = "woken"
  BY <1>1 DEF Places
<1>3. /\ signalling' \in [Callers -> BOOLEAN]
      /\ UNCHANGED <<queueVars, reactorVars, begun, mayBlock, running, private>>
      /\ UNCHANGED <<privateWork, posting>>
  BY DEF Signal, OrderInv, TypeOK
<1>4. QED
  BY <1>2, <1>3 DEF OrderInv, TypeOK, MovesThreads, queueVars, reactorVars

LEMMA BroadcastWakes ==
  ASSUME TypeOK
  PROVE  /\ Broadcast \in [Threads -> Places]
         /\ \A t \in Threads :
              Broadcast[t] = IF pc[t] = "waiting" THEN "woken" ELSE pc[t]
BY DEF TypeOK, Broadcast, Places

LEMMA StopAllType ==
  ASSUME TypeOK, StopAll
  PROVE  /\ stopped' = TRUE /\ signalled' = TRUE /\ interrupted' = TRUE
         /\ kick' \in BOOLEAN
BY Zenon DEF StopAll

LEMMA StopSelfMoves ==
  ASSUME OrderInv, NEW t \in Threads, StopSelf(t) PROVE MovesThreads
<1>1. TypeOK
  BY DEF OrderInv
<1>2. /\ pc[t] \in {"no work", "last work"}
      /\ pc' = [Broadcast EXCEPT ![t] = IF pc[t] = "no work" THEN "returned" ELSE "loop"]
      /\ StopAll
      /\ UNCHANGED <<queue, work, waiting, ready, begun>>
      /\ UNCHANGED <<mayBlock, running, private, privateWork, posting, signalling>>
  BY DEF StopSelf
<1>3. /\ pc' \in [Threads -> Places]
      /\ \A u \in Threads : pc'[u] =
           IF u = t THEN (IF pc[t] = "no work" THEN "returned" ELSE "loop")
           ELSE IF pc[u] = "waiting" THEN "woken" ELSE pc[u]
  BY <1>1, <1>2, BroadcastWakes DEF Places
<1>4. /\ stopped' \in BOOLEAN /\ signalled' \in BOOLEAN
      /\ interrupted' \in BOOLEAN /\ kick' \in BOOLEAN
  BY <1>1, <1>2, StopAllType
<1>5. signalling' \in [Callers -> BOOLEAN]
  BY <1>1, <1>2 DEF TypeOK
<1>6. QED
  BY <1>2, <1>3, <1>4, <1>5 DEF MovesThreads

LEMMA StopMoves ==
  ASSUME OrderInv, NEW c \in Callers, Stop(c) PROVE MovesThreads
<1>1. TypeOK
  BY DEF OrderInv
<1>2. /\ StopAll /\ pc' = Broadcast
      /\ UNCHANGED <<queue, work, waiting, ready, begun>>
      /\ UNCHANGED <<mayBlock, running, private, privateWork, posting, signalling>>
  BY DEF Stop
<1>3. /\ pc' \in [Threads -> Places]
      /\ \A u \in Threads : pc'[u] = IF pc[u] = "waiting" THEN "woken" ELSE pc[u]
  BY <1>1, <1>2, BroadcastWakes
<1>4. /\ stopped' \in BOOLEAN /\ signalled' \in BOOLEAN
      /\ interrupted' \in BOOLEAN /\ kick' \in BOOLEAN
  BY <1>1, <1>2, StopAllType
<1>5. signalling' \in [Callers -> BOOLEAN]
  BY <1>1, <1>2 DEF TypeOK
<1>6. QED
  BY <1>2, <1>3, <1>4, <1>5 DEF MovesThreads

LEMMA InjectiveLen ==
  ASSUME NEW S, NEW q \in Seq(S), IsInjective(q)
  PROVE  Cardinality(Range(q)) = Len(q) /\ Len(q) \in Nat
<1>1. DOMAIN q = 1..Len(q) /\ Len(q) \in Nat /\ q \in [1..Len(q) -> S]
  BY LenProperties
<1>2. q \in [1..Len(q) -> Range(q)]
  BY <1>1 DEF Range
<1>3. q \in Injection(1..Len(q), Range(q))
  BY <1>2 DEF Injection
<1>4. q \in Surjection(1..Len(q), Range(q))
  BY <1>1, <1>2 DEF Surjection, Range
<1>5. ExistsBijection(1..Len(q), Range(q))
  BY <1>3, <1>4 DEF ExistsBijection, Bijection
<1>6. QED
  BY <1>1, <1>5, FS_CountingElements

(***************************************************************************)
(* The reactor's turn moves what is ready to its thread.                   *)
(***************************************************************************)
LEMMA RunTaskKeepsOrder ==
  ASSUME OrderInv, NEW t \in Threads, RunTask(t)
  PROVE  OrderInv'
<1>1. /\ TypeOK /\ TaskPlace /\ ThreadsInOrder /\ OnePlace /\ WorkCounted
      /\ pc \in [Threads -> Places] /\ private \in [Threads -> Seq(Ops)]
      /\ ready \subseteq Ops /\ waiting \subseteq Ops /\ Queued \subseteq Ops
  BY DEF OrderInv, TypeOK, Places, Ops, Queued
<1>2. PICK found \in SetToSeqs(ready) : private' = [private EXCEPT ![t] = found]
  BY DEF RunTask
<1>3. found \in Seq(ready) /\ IsInjective(found) /\ Range(found) = ready
  BY <1>1, OpsFinite, SetToSeqsOnce
<1>4. found \in Seq(Ops)
  BY <1>1, <1>3, SeqMonotonic
<1>5. /\ pc[t] = "task" /\ pc' = [pc EXCEPT ![t] = "task done"]
      /\ ready' = {} /\ kick' = FALSE
      /\ UNCHANGED <<queue, stopped, work, interrupted, signalled>>
      /\ UNCHANGED <<waiting, begun, mayBlock, running, privateWork, posting, signalling>>
  BY DEF RunTask, queueVars
<1>6. /\ private' \in [Threads -> Seq(Ops)] /\ private'[t] = found
      /\ \A u \in Threads \ {t} : private'[u] = private[u] /\ Held(u)' = Held(u)
  BY <1>1, <1>2, <1>4, HeldUnchanged
<1>7. /\ pc' \in [Threads -> Places] /\ pc'[t] = "task done"
      /\ \A u \in Threads \ {t} : pc'[u] = pc[u]
  BY <1>1, <1>5 DEF Places
<1>8. Held(t)' = ready
  BY <1>3, <1>6, HeldNext
<1>9. private[t] = <<>> /\ Held(t) = {}
  BY <1>1, <1>5, QueuedRange DEF ThreadsInOrder
<1>10. Queued' = Queued
  BY <1>5 DEF Queued
<1>11. Pending' = Pending
  BY <1>5, <1>6, <1>8, <1>9, <1>10 DEF Pending, Private
<1>12. TypeOK'
  BY <1>1, <1>5, <1>6, <1>7 DEF TypeOK, Places
<1>13. TaskPlace'
  BY <1>1, <1>5, <1>7 DEF TaskPlace, AtTask
<1>14. ThreadsInOrder'
  BY <1>1, <1>5, <1>6, <1>7 DEF ThreadsInOrder
<1>15. OnePlace'
  <2>1. /\ Queued' \cap waiting' = {} /\ Queued' \cap ready' = {} /\ waiting' \cap ready' = {}
    BY <1>1, <1>5, <1>10 DEF OnePlace
  <2>2. ASSUME NEW u \in Threads
        PROVE  /\ IsInjective(private'[u])
               /\ Held(u)' \cap (Queued' \cup waiting' \cup ready') = {}
               /\ \A v \in Threads \ {u} : Held(u)' \cap Held(v)' = {}
    <3>1. IsInjective(private'[u])
      BY <1>1, <1>3, <1>6 DEF OnePlace
    <3>2. /\ \A v \in Threads : Held(v) \cap (Queued \cup waiting \cup ready) = {}
          /\ \A v, w \in Threads : v # w => Held(v) \cap Held(w) = {}
          /\ Queued \cap ready = {} /\ waiting \cap ready = {}
      BY <1>1 DEF OnePlace
    <3>3. Held(u)' \cap (Queued' \cup waiting' \cup ready') = {}
      <4>1. Held(u)' \cap Queued' = {}
        BY <1>5, <1>6, <1>8, <1>10, <3>2
      <4>2. Held(u)' \cap waiting' = {}
        BY <1>5, <1>6, <1>8, <1>10, <3>2
      <4>3. Held(u)' \cap ready' = {}
        BY <1>5, <1>6, <1>8, <1>10, <3>2
      <4>4. QED
        BY <4>1, <4>2, <4>3
    <3>4. \A v \in Threads \ {u} : Held(u)' \cap Held(v)' = {}
      BY <1>6, <1>8, <3>2
    <3>5. QED
      BY <3>1, <3>3, <3>4
  <2>3. QED
    BY <1>1, <1>5, <1>11, <2>1, <2>2 DEF OnePlace
<1>16. WorkCounted'
  <2>1. InHandler' = InHandler /\ Posters' = Posters /\ t \notin InHandler
    BY <1>5, <1>7 DEF InHandler, Posters
  <2>2. Outstanding' = Outstanding
    BY <1>5, <1>6, <1>8, <1>9, <1>10, <2>1 DEF Outstanding
  <2>3. QED
    BY <1>1, <1>5, <2>1, <2>2 DEF WorkCounted
<1>17. QED
  BY <1>12, <1>13, <1>14, <1>15, <1>16 DEF OrderInv

(***************************************************************************)
(* When a handler returns, its own work goes and that of its continuations *)
(* comes: there are as many as private work says.                          *)
(***************************************************************************)
LEMMA FinishHandlerKeepsOrder ==
  ASSUME OrderInv, NEW t \in Threads, FinishHandler(t)
  PROVE  OrderInv'
<1>1. /\ TypeOK /\ TaskPlace /\ ThreadsInOrder /\ OnePlace /\ WorkCounted
      /\ pc \in [Threads -> Places] /\ private \in [Threads -> Seq(Ops)]
      /\ running \in [Threads -> Ops \cup {None}] /\ privateWork \in [Threads -> Nat]
  BY DEF OrderInv, TypeOK, Places
<1>2. /\ pc[t] = "handler"
      /\ running' = [running EXCEPT ![t] = None]
      /\ privateWork' = [privateWork EXCEPT ![t] = 0]
      /\ work' = (work + privateWork[t]) - 1
      /\ pc' = [pc EXCEPT ![t] = IF work' = 0 THEN "last work" ELSE "loop"]
      /\ UNCHANGED <<queue, stopped, interrupted, signalled, kick, waiting, ready, begun>>
      /\ UNCHANGED <<mayBlock, private, posting, signalling>>
  <2>1. work \in Nat /\ privateWork[t] \in Nat
    BY <1>1 DEF TypeOK
  <2>2. work' = work + (privateWork[t] - 1)
    BY DEF FinishHandler
  <2>3. work' = (work + privateWork[t]) - 1
    BY <2>1, <2>2
  <2>4. QED
    BY <2>3 DEF FinishHandler, reactorVars
<1>3. /\ pc' \in [Threads -> Places] /\ pc'[t] \in {"last work", "loop"}
      /\ \A u \in Threads \ {t} : pc'[u] = pc[u]
  BY <1>1, <1>2 DEF Places
<1>4. /\ running' \in [Threads -> Ops \cup {None}] /\ running'[t] = None
      /\ \A u \in Threads \ {t} : running'[u] = running[u]
      /\ privateWork' \in [Threads -> Nat] /\ privateWork'[t] = 0
      /\ \A u \in Threads \ {t} : privateWork'[u] = privateWork[u]
  BY <1>1, <1>2
<1>5. /\ Queued' = Queued /\ Private' = Private /\ Pending' = Pending
      /\ \A u \in Threads : Held(u)' = Held(u)
  <2>1. Queued' = Queued /\ \A u \in Threads : Held(u)' = Held(u)
    BY <1>2 DEF Queued, Held
  <2>2. Private' = Private
    BY <2>1 DEF Private
  <2>3. QED
    BY <1>2, <2>1, <2>2 DEF Pending
<1>6. InHandler' = InHandler \ {t} /\ t \in InHandler /\ Posters' = Posters
  BY <1>2, <1>3 DEF InHandler, Posters
<1>7. Outstanding' = Outstanding \cup Held(t) /\ Outstanding \cap Held(t) = {}
  <2>1. Outstanding' = Outstanding \cup Held(t)
    BY <1>2, <1>5, <1>6 DEF Outstanding
  <2>2. Outstanding \cap Held(t) = {}
    <3>1. /\ Held(t) \cap (Queued \cup waiting \cup ready) = {}
          /\ \A u \in Threads \ {t} : Held(t) \cap Held(u) = {}
      BY <1>1 DEF OnePlace
    <3>2. QED
      BY <1>6, <3>1 DEF Outstanding
  <2>3. QED
    BY <2>1, <2>2
<1>8. Cardinality(Held(t)) = privateWork[t] /\ privateWork[t] \in Nat /\ IsFiniteSet(Held(t))
  <2>1. Held(t) = Range(private[t]) /\ IsInjective(private[t]) /\ private[t] \in Seq(Ops)
    BY <1>1, QueuedRange DEF OnePlace
  <2>2. Cardinality(Held(t)) = Len(private[t])
    BY <2>1, InjectiveLen
  <2>3. IsFiniteSet(Held(t))
    BY OpsFinite DEF Held
  <2>4. QED
    BY <1>1, <1>2, <2>2, <2>3 DEF ThreadsInOrder
<1>9. Cardinality(Outstanding') = Cardinality(Outstanding) + privateWork[t]
  <2>1. /\ IsFiniteSet(Outstanding) /\ Cardinality(Outstanding) \in Nat
    BY <1>1, CountedSets
  <2>2. Cardinality(Outstanding \cup Held(t)) =
          Cardinality(Outstanding) + Cardinality(Held(t)) - Cardinality(Outstanding \cap Held(t))
    BY <1>8, <2>1, FS_Union
  <2>3. Cardinality(Outstanding \cap Held(t)) = 0
    BY <1>7, FS_EmptySet
  <2>4. QED
    BY <1>7, <1>8, <2>1, <2>2, <2>3
<1>10. /\ Cardinality(InHandler') = Cardinality(InHandler) - 1
       /\ Cardinality(InHandler) \in Nat /\ Cardinality(InHandler') \in Nat
  <2>1. IsFiniteSet(InHandler)
    BY <1>1, CountedSets
  <2>2. InHandler' \subseteq Threads
    BY <1>6 DEF InHandler
  <2>3. QED
    BY <1>6, <2>1, <2>2, CardinalityRemove, ThreadsFinite
<1>11. /\ WorkCounted' /\ work' \in Nat
  <2>1. /\ Cardinality(Outstanding) \in Nat /\ Cardinality(Posters) \in Nat
        /\ work = Cardinality(Outstanding) + Cardinality(InHandler) + Cardinality(Posters)
    BY <1>1, CountedSets DEF WorkCounted
  <2>2. Cardinality(Posters') = Cardinality(Posters)
    BY <1>6
  <2>3. work' = (work + privateWork[t]) - 1
    BY <1>2
  <2>4. work' = Cardinality(Outstanding') + Cardinality(InHandler') + Cardinality(Posters')
    BY <1>8, <1>9, <1>10, <2>1, <2>2, <2>3
  <2>5. work' \in Nat
    BY <1>8, <1>9, <1>10, <2>1, <2>2, <2>4
  <2>6. QED
    BY <2>4, <2>5 DEF WorkCounted
<1>12. TypeOK'
  BY <1>1, <1>2, <1>3, <1>4, <1>11 DEF TypeOK, Places
<1>13. TaskPlace'
  BY <1>1, <1>2, <1>3 DEF TaskPlace, AtTask
<1>14. ThreadsInOrder'
  BY <1>1, <1>2, <1>3, <1>4 DEF ThreadsInOrder
<1>15. OnePlace'
  <2>1. ASSUME NEW u \in Threads
        PROVE  running'[u] # None =>
                 /\ begun'[running'[u]] = 1
                 /\ \A v \in Threads \ {u} : running'[v] # running'[u]
    BY <1>1, <1>2, <1>4 DEF OnePlace
  <2>2. OnePlace /\ UNCHANGED <<queue, waiting, ready, private, posting, begun>>
    BY <1>1, <1>2
  <2>3. QED
    BY <1>5, <2>1, <2>2 DEF OnePlace
<1>16. QED
  BY <1>11, <1>12, <1>13, <1>14, <1>15 DEF OrderInv

(***************************************************************************)
(* What callers do with an operation: pc, running and begun stay.          *)
(***************************************************************************)
LEMMA Fresh ==
  ASSUME NEW o \in Ops, o \notin Started, TypeOK
  PROVE  /\ begun[o] = 0
         /\ o \notin Pending
         /\ \A c \in Callers : posting[c] # o
<1>1. begun[o] \in Nat
  BY DEF TypeOK
<1>2. ~(begun[o] > 0)
  BY DEF Started
<1>3. begun[o] = 0
  BY <1>1, <1>2
<1>4. o \notin Pending
  BY DEF Started, Pending
<1>5. \A c \in Callers : posting[c] # o
  BY DEF Started
<1>6. QED
  BY <1>3, <1>4, <1>5

LEMMA PostKeepsOrder ==
  ASSUME OrderInv, NEW c \in Callers, NEW o \in Posted, Post(c, o)
  PROVE  OrderInv'
<1>1. /\ TypeOK /\ TaskPlace /\ ThreadsInOrder /\ OnePlace /\ WorkCounted
      /\ posting \in [Callers -> Ops \cup {None}] /\ o \in Ops /\ o # None
      /\ work \in Nat /\ begun \in [Ops -> Nat]
  BY SchedulerAssumption DEF OrderInv, TypeOK, Ops
<1>2. /\ posting[c] = None /\ o \notin Started
      /\ work' = work + 1
      /\ posting' = [posting EXCEPT ![c] = o]
      /\ UNCHANGED <<queue, stopped, interrupted, signalled, kick, waiting, ready, begun>>
      /\ UNCHANGED <<pc, mayBlock, running, private, privateWork, signalling>>
  BY DEF Post, Free, reactorVars
<1>3. /\ posting' \in [Callers -> Ops \cup {None}] /\ posting'[c] = o
      /\ \A d \in Callers \ {c} : posting'[d] = posting[d]
  BY <1>1, <1>2
<1>4. TypeOK'
  <2>1. work' \in Nat
    BY <1>1, <1>2
  <2>2. QED
    BY <1>1, <1>2, <1>3, <2>1 DEF TypeOK
<1>5. TaskPlace' /\ ThreadsInOrder' /\ InHandler' = InHandler
  BY <1>1, <1>2 DEF TaskPlace, AtTask, ThreadsInOrder, InHandler
<1>6. /\ Queued' = Queued /\ Private' = Private /\ Pending' = Pending
      /\ \A u \in Threads : Held(u)' = Held(u)
  <2>1. Queued' = Queued /\ \A u \in Threads : Held(u)' = Held(u)
    BY <1>2 DEF Queued, Held
  <2>2. Private' = Private
    BY <2>1 DEF Private
  <2>3. QED
    BY <1>2, <2>1, <2>2 DEF Pending
<1>7. OnePlace'
  <2>1. begun[o] = 0 /\ o \notin Pending /\ \A d \in Callers : posting[d] # o
    BY <1>1, <1>2, Fresh
  <2>2. ASSUME NEW d \in Callers, posting'[d] # None
        PROVE  /\ posting'[d] \notin Pending' /\ begun'[posting'[d]] = 0
               /\ \A e \in Callers \ {d} : posting'[e] # posting'[d]
    BY <1>1, <1>2, <1>3, <1>6, <2>1, <2>2 DEF OnePlace
  <2>3. OnePlace /\ UNCHANGED <<queue, waiting, ready, private, running, begun>>
    BY <1>1, <1>2
  <2>4. QED
    BY <1>6, <2>2, <2>3 DEF OnePlace
<1>8. WorkCounted'
  <2>1. Outstanding' = Outstanding
    BY <1>2, <1>5, <1>6 DEF Outstanding
  <2>2. Posters' = Posters \cup {c} /\ c \notin Posters
    BY <1>1, <1>2, <1>3 DEF Posters
  <2>3. /\ Cardinality(Outstanding) \in Nat /\ Cardinality(InHandler) \in Nat
        /\ Cardinality(Posters) \in Nat /\ IsFiniteSet(Posters)
        /\ work = Cardinality(Outstanding) + Cardinality(InHandler) + Cardinality(Posters)
    BY <1>1, CountedSets DEF WorkCounted
  <2>4. Cardinality(Posters') = Cardinality(Posters) + 1
    BY <2>2, <2>3, CardinalityAdd
  <2>5. work' = work + 1
    BY <1>2
  <2>6. work' = Cardinality(Outstanding') + Cardinality(InHandler') + Cardinality(Posters')
    BY <1>5, <2>1, <2>3, <2>4, <2>5
  <2>7. QED
    BY <2>6 DEF WorkCounted
<1>9. QED
  BY <1>4, <1>5, <1>7, <1>8 DEF OrderInv

(* An operation that was not queued goes to the end of the queue. *)
LEMMA QueueGains ==
  ASSUME OrderInv, NEW o \in Ops, o \notin Queued, queue' = Append(queue, o)
  PROVE  /\ queue' \in Seq(Ops \cup {Task}) /\ IsInjective(queue')
         /\ Range(queue') = Range(queue) \cup {o}
         /\ Queued' = Queued \cup {o}
<1>1. TypeOK /\ queue \in Seq(Ops \cup {Task}) /\ IsInjective(queue)
  BY DEF OrderInv, TypeOK, OnePlace
<1>2. o \notin Range(queue) /\ o \in Ops \cup {Task}
  BY <1>1, QueuedRange
<1>3. /\ queue' \in Seq(Ops \cup {Task}) /\ IsInjective(queue')
      /\ Range(queue') = Range(queue) \cup {o}
  BY <1>1, <1>2, AppendOnce
<1>4. Queued' = Ops \cap Range(queue')
  BY <1>3, QueuedRangeNext
<1>5. Queued = Ops \cap Range(queue)
  BY <1>1, QueuedRange DEF Queued
<1>6. QED
  BY <1>3, <1>4, <1>5

LEMMA PushKeepsOrder ==
  ASSUME OrderInv, NEW c \in Callers, Push(c)
  PROVE  OrderInv'
<1>1. /\ TypeOK /\ TaskPlace /\ ThreadsInOrder /\ OnePlace /\ WorkCounted
      /\ posting \in [Callers -> Ops \cup {None}]
      /\ work \in Nat /\ begun \in [Ops -> Nat] /\ interrupted \in BOOLEAN
      /\ queue \in Seq(Ops \cup {Task}) /\ waiting \subseteq Ops /\ ready \subseteq Ops
  BY DEF OrderInv, TypeOK, Ops
<1>2. PICK o \in Ops : posting[c] = o
  BY <1>1 DEF Push
<1>3. /\ queue' = Append(queue, o) /\ o # None
      /\ posting' = [posting EXCEPT ![c] = None]
      /\ WakeOne(c, interrupted)
      /\ UNCHANGED <<stopped, work, waiting, ready, begun>>
      /\ UNCHANGED <<pc, mayBlock, running, private, privateWork>>
  BY <1>2 DEF Push
<1>4. /\ posting' \in [Callers -> Ops \cup {None}] /\ posting'[c] = None
      /\ \A d \in Callers \ {c} : posting'[d] = posting[d]
  BY <1>1, <1>3
<1>5. o \notin Pending /\ begun[o] = 0 /\ \A d \in Callers \ {c} : posting[d] # o
  BY <1>1, <1>2, <1>3 DEF OnePlace
<1>6. o # Task /\ o \notin Queued
  BY <1>5, SchedulerAssumption DEF Pending
<1>7. /\ queue' \in Seq(Ops \cup {Task}) /\ IsInjective(queue')
      /\ Range(queue') = Range(queue) \cup {o}
  BY <1>3, <1>6, QueueGains
<1>8. /\ Queued' = Queued \cup {o}
      /\ \A u \in Threads : Held(u)' = Held(u)
      /\ Private' = Private /\ Pending' = Pending \cup {o}
  <2>1. Queued' = Queued \cup {o}
    BY <1>3, <1>6, QueueGains
  <2>2. \A u \in Threads : Held(u)' = Held(u)
    BY <1>3 DEF Held
  <2>3. Private' = Private
    BY <2>2 DEF Private
  <2>4. QED
    BY <1>3, <2>1, <2>2, <2>3 DEF Pending
<1>9. TypeOK'
  <2>1. /\ signalled' \in BOOLEAN /\ interrupted' \in BOOLEAN /\ kick' \in BOOLEAN
        /\ signalling' \in [Callers -> BOOLEAN]
    BY <1>1, <1>3, WakeOneType
  <2>2. QED
    BY <1>1, <1>3, <1>4, <1>7, <2>1 DEF TypeOK
<1>10. TaskPlace' /\ ThreadsInOrder' /\ InHandler' = InHandler
  BY <1>1, <1>3, <1>6, <1>7 DEF TaskPlace, AtTask, ThreadsInOrder, InHandler
<1>11. OnePlace'
  <2>1. /\ o \notin waiting /\ o \notin ready /\ \A u \in Threads : o \notin Held(u)
    BY <1>5 DEF Pending, Private
  <2>2. /\ Queued' \cap waiting' = {} /\ Queued' \cap ready' = {} /\ waiting' \cap ready' = {}
        /\ \A u \in Threads : Held(u)' \cap (Queued' \cup waiting' \cup ready') = {}
    BY <1>1, <1>3, <1>8, <2>1 DEF OnePlace
  <2>3. ASSUME NEW d \in Callers, posting'[d] # None
        PROVE  /\ posting'[d] \notin Pending' /\ begun'[posting'[d]] = 0
               /\ \A e \in Callers \ {d} : posting'[e] # posting'[d]
    BY <1>1, <1>3, <1>4, <1>5, <1>8, <2>3 DEF OnePlace
  <2>4. \A p \in Ops : begun'[p] # 0 => begun'[p] = 1 /\ p \notin Pending'
    BY <1>1, <1>3, <1>5, <1>8 DEF OnePlace
  <2>5. OnePlace /\ UNCHANGED <<private, running, begun>>
    BY <1>1, <1>3
  <2>6. QED
    BY <1>7, <1>8, <2>2, <2>3, <2>4, <2>5 DEF OnePlace
<1>12. WorkCounted'
  <2>1. Outstanding' = Outstanding \cup {o} /\ o \notin Outstanding
    BY <1>3, <1>5, <1>8, <1>10 DEF Outstanding, Pending, Private
  <2>2. Posters' = Posters \ {c} /\ c \in Posters
    BY <1>1, <1>2, <1>3, <1>4 DEF Posters
  <2>3. /\ Cardinality(Outstanding) \in Nat /\ Cardinality(InHandler) \in Nat
        /\ Cardinality(Posters) \in Nat /\ IsFiniteSet(Posters) /\ IsFiniteSet(Outstanding)
        /\ work = Cardinality(Outstanding) + Cardinality(InHandler) + Cardinality(Posters)
    BY <1>1, CountedSets DEF WorkCounted
  <2>4. /\ Cardinality(Posters') = Cardinality(Posters) - 1
        /\ Cardinality(Outstanding') = Cardinality(Outstanding) + 1
    BY <2>1, <2>2, <2>3, CardinalityAdd, CardinalityRemove
  <2>5. work' = work
    BY <1>3
  <2>6. work' = Cardinality(Outstanding') + Cardinality(InHandler') + Cardinality(Posters')
    BY <1>10, <2>3, <2>4, <2>5
  <2>7. QED
    BY <2>6 DEF WorkCounted
<1>13. QED
  BY <1>9, <1>10, <1>11, <1>12 DEF OrderInv

LEMMA PostContinuationKeepsOrder ==
  ASSUME OrderInv, NEW t \in Threads, NEW o \in Posted, PostContinuation(t, o)
  PROVE  OrderInv'
<1>1. /\ TypeOK /\ TaskPlace /\ ThreadsInOrder /\ OnePlace /\ WorkCounted
      /\ private \in [Threads -> Seq(Ops)] /\ privateWork \in [Threads -> Nat]
      /\ o \in Ops /\ t \in Callers
  BY DEF OrderInv, TypeOK, Ops, Callers
<1>2. /\ pc[t] = "handler" /\ o \notin Started
      /\ privateWork' = [privateWork EXCEPT ![t] = @ + 1]
      /\ private' = [private EXCEPT ![t] = Append(@, o)]
      /\ UNCHANGED <<queue, stopped, work, interrupted, signalled, kick, waiting, ready>>
      /\ UNCHANGED <<begun, pc, mayBlock, running, posting, signalling>>
  BY DEF PostContinuation, Free, queueVars, reactorVars
<1>3. begun[o] = 0 /\ o \notin Pending /\ \A d \in Callers : posting[d] # o
  BY <1>1, <1>2, Fresh
<1>4. o \notin Held(t) /\ Held(t) = Range(private[t]) /\ IsInjective(private[t])
  BY <1>1, <1>3, QueuedRange DEF Pending, Private, OnePlace
<1>5. /\ Append(private[t], o) \in Seq(Ops) /\ IsInjective(Append(private[t], o))
      /\ Range(Append(private[t], o)) = Held(t) \cup {o}
  BY <1>1, <1>4, AppendOnce
<1>6. Len(Append(private[t], o)) = Len(private[t]) + 1
  BY <1>1, AppendProperties
<1>7. /\ private' \in [Threads -> Seq(Ops)] /\ private'[t] = Append(private[t], o)
      /\ \A u \in Threads \ {t} : private'[u] = private[u]
  BY <1>1, <1>2, <1>5
<1>8. /\ privateWork' \in [Threads -> Nat] /\ privateWork'[t] = privateWork[t] + 1
      /\ \A u \in Threads \ {t} : privateWork'[u] = privateWork[u]
  BY <1>1, <1>2
<1>9. /\ Held(t)' = Held(t) \cup {o}
      /\ \A u \in Threads \ {t} : Held(u)' = Held(u)
  BY <1>5, <1>7, HeldNext, HeldUnchanged
<1>10. Queued' = Queued /\ Pending' = Pending \cup {o}
  <2>1. Queued' = Queued
    BY <1>2 DEF Queued
  <2>2. Private' = Private \cup {o}
    BY <1>9 DEF Private
  <2>3. QED
    BY <1>2, <2>1, <2>2 DEF Pending
<1>11. TypeOK'
  BY <1>1, <1>2, <1>7, <1>8 DEF TypeOK
<1>12. TaskPlace' /\ InHandler' = InHandler
  BY <1>1, <1>2 DEF TaskPlace, AtTask, InHandler
<1>13. ThreadsInOrder'
  <2>1. privateWork[t] = Len(private[t])
    BY <1>1, <1>2 DEF ThreadsInOrder
  <2>2. privateWork'[t] = Len(private'[t])
    BY <1>6, <1>7, <1>8, <2>1
  <2>3. QED
    BY <1>1, <1>2, <1>7, <1>8, <2>2 DEF ThreadsInOrder
<1>14. OnePlace'
  <2>1. /\ o \notin Queued /\ o \notin waiting /\ o \notin ready
        /\ \A u \in Threads : o \notin Held(u)
    BY <1>3 DEF Pending, Private
  <2>2. ASSUME NEW u \in Threads
        PROVE  /\ IsInjective(private'[u])
               /\ Held(u)' \cap (Queued' \cup waiting' \cup ready') = {}
               /\ \A v \in Threads \ {u} : Held(u)' \cap Held(v)' = {}
    <3>1. IsInjective(private'[u])
      BY <1>1, <1>5, <1>7 DEF OnePlace
    <3>2. Held(u)' \cap (Queued' \cup waiting' \cup ready') = {}
      BY <1>1, <1>2, <1>9, <1>10, <2>1 DEF OnePlace
    <3>3. \A v, w \in Threads : v # w => Held(v) \cap Held(w) = {}
      BY <1>1 DEF OnePlace
    <3>4. \A v \in Threads \ {u} : Held(u)' \cap Held(v)' = {}
      BY <1>9, <2>1, <3>3
    <3>5. QED
      BY <3>1, <3>2, <3>4
  <2>3. ASSUME NEW d \in Callers, posting'[d] # None
        PROVE  /\ posting'[d] \notin Pending' /\ begun'[posting'[d]] = 0
               /\ \A e \in Callers \ {d} : posting'[e] # posting'[d]
    BY <1>1, <1>2, <1>3, <1>10, <2>3 DEF OnePlace
  <2>4. \A p \in Ops : begun'[p] # 0 => begun'[p] = 1 /\ p \notin Pending'
    BY <1>1, <1>2, <1>3, <1>10 DEF OnePlace
  <2>5. OnePlace /\ UNCHANGED <<queue, waiting, ready, running, begun>>
    BY <1>1, <1>2
  <2>6. QED
    BY <1>10, <2>2, <2>3, <2>4, <2>5 DEF OnePlace
<1>15. WorkCounted'
  <2>1. t \in InHandler
    BY <1>2 DEF InHandler
  <2>2. Outstanding' = Outstanding /\ Posters' = Posters
    BY <1>2, <1>9, <1>10, <1>12, <2>1 DEF Outstanding, Posters
  <2>3. QED
    BY <1>1, <1>2, <1>12, <2>2 DEF WorkCounted
<1>16. QED
  BY <1>11, <1>12, <1>13, <1>14, <1>15 DEF OrderInv

LEMMA StartIoKeepsOrder ==
  ASSUME OrderInv, NEW c \in Callers, NEW o \in Io, StartIo(c, o)
  PROVE  OrderInv'
<1>1. /\ TypeOK /\ TaskPlace /\ ThreadsInOrder /\ OnePlace /\ WorkCounted
      /\ o \in Ops /\ work \in Nat
  BY DEF OrderInv, TypeOK, Ops
<1>2. /\ o \notin Started
      /\ work' = work + 1 /\ waiting' = waiting \cup {o}
      /\ UNCHANGED <<queue, stopped, interrupted, signalled, kick, ready, begun>>
      /\ UNCHANGED <<pc, mayBlock, running, private, privateWork, posting, signalling>>
  BY DEF StartIo, threadVars
<1>3. begun[o] = 0 /\ o \notin Pending /\ \A d \in Callers : posting[d] # o
  BY <1>1, <1>2, Fresh
<1>4. /\ Queued' = Queued /\ Private' = Private /\ Pending' = Pending \cup {o}
      /\ \A u \in Threads : Held(u)' = Held(u)
  <2>1. Queued' = Queued /\ \A u \in Threads : Held(u)' = Held(u)
    BY <1>2 DEF Queued, Held
  <2>2. Private' = Private
    BY <2>1 DEF Private
  <2>3. QED
    BY <1>2, <2>1, <2>2 DEF Pending
<1>5. TypeOK'
  <2>1. work' \in Nat
    BY <1>1, <1>2
  <2>2. QED
    BY <1>1, <1>2, <2>1 DEF TypeOK
<1>6. TaskPlace' /\ ThreadsInOrder' /\ InHandler' = InHandler
  BY <1>1, <1>2 DEF TaskPlace, AtTask, ThreadsInOrder, InHandler
<1>7. OnePlace'
  <2>1. /\ o \notin Queued /\ o \notin ready /\ \A u \in Threads : o \notin Held(u)
    BY <1>3 DEF Pending, Private
  <2>2. /\ Queued' \cap waiting' = {} /\ Queued' \cap ready' = {} /\ waiting' \cap ready' = {}
        /\ \A u \in Threads : Held(u)' \cap (Queued' \cup waiting' \cup ready') = {}
    BY <1>1, <1>2, <1>4, <2>1 DEF OnePlace
  <2>3. ASSUME NEW d \in Callers, posting'[d] # None
        PROVE  /\ posting'[d] \notin Pending' /\ begun'[posting'[d]] = 0
               /\ \A e \in Callers \ {d} : posting'[e] # posting'[d]
    BY <1>1, <1>2, <1>3, <1>4, <2>3 DEF OnePlace
  <2>4. \A p \in Ops : begun'[p] # 0 => begun'[p] = 1 /\ p \notin Pending'
    BY <1>1, <1>2, <1>3, <1>4 DEF OnePlace
  <2>5. OnePlace /\ UNCHANGED <<queue, private, running, begun>>
    BY <1>1, <1>2
  <2>6. QED
    BY <1>4, <2>2, <2>3, <2>4, <2>5 DEF OnePlace
<1>8. WorkCounted'
  <2>1. Outstanding' = Outstanding \cup {o} /\ o \notin Outstanding
    BY <1>2, <1>3, <1>4, <1>6 DEF Outstanding, Pending, Private
  <2>2. Posters' = Posters
    BY <1>2 DEF Posters
  <2>3. /\ Cardinality(Outstanding) \in Nat /\ Cardinality(InHandler) \in Nat
        /\ Cardinality(Posters) \in Nat /\ IsFiniteSet(Outstanding)
        /\ work = Cardinality(Outstanding) + Cardinality(InHandler) + Cardinality(Posters)
    BY <1>1, CountedSets DEF WorkCounted
  <2>4. Cardinality(Outstanding') = Cardinality(Outstanding) + 1
    BY <2>1, <2>3, CardinalityAdd
  <2>5. work' = work + 1
    BY <1>2
  <2>6. work' = Cardinality(Outstanding') + Cardinality(InHandler') + Cardinality(Posters')
    BY <1>6, <2>2, <2>3, <2>4, <2>5
  <2>7. QED
    BY <2>6 DEF WorkCounted
<1>9. QED
  BY <1>5, <1>6, <1>7, <1>8 DEF OrderInv

LEMMA CancelKeepsOrder ==
  ASSUME OrderInv, NEW c \in Callers, NEW o \in Io, Cancel(c, o)
  PROVE  OrderInv'
<1>1. /\ TypeOK /\ TaskPlace /\ ThreadsInOrder /\ OnePlace /\ WorkCounted
      /\ o \in Ops /\ interrupted \in BOOLEAN
      /\ queue \in Seq(Ops \cup {Task}) /\ waiting \subseteq Ops /\ ready \subseteq Ops
  BY DEF OrderInv, TypeOK, Ops
<1>2. /\ o \in waiting /\ waiting' = waiting \ {o}
      /\ queue' = Append(queue, o)
      /\ WakeOne(c, interrupted)
      /\ UNCHANGED <<stopped, work, ready, begun>>
      /\ UNCHANGED <<pc, mayBlock, running, private, privateWork, posting>>
  BY DEF Cancel
<1>3. /\ o \notin Queued /\ o \notin ready /\ \A u \in Threads : o \notin Held(u)
  BY <1>1, <1>2 DEF OnePlace
<1>4. o # Task
  BY <1>1, SchedulerAssumption
<1>5. /\ queue' \in Seq(Ops \cup {Task}) /\ IsInjective(queue')
      /\ Range(queue') = Range(queue) \cup {o}
  BY <1>1, <1>2, <1>3, QueueGains
<1>6. /\ Queued' = Queued \cup {o}
      /\ \A u \in Threads : Held(u)' = Held(u)
      /\ Private' = Private /\ Pending' = Pending
  <2>1. Queued' = Queued \cup {o}
    BY <1>1, <1>2, <1>3, QueueGains
  <2>2. \A u \in Threads : Held(u)' = Held(u)
    BY <1>2 DEF Held
  <2>3. Private' = Private
    BY <2>2 DEF Private
  <2>4. QED
    BY <1>2, <2>1, <2>2, <2>3 DEF Pending
<1>7. TypeOK'
  <2>1. /\ signalled' \in BOOLEAN /\ interrupted' \in BOOLEAN /\ kick' \in BOOLEAN
        /\ signalling' \in [Callers -> BOOLEAN]
    BY <1>1, <1>2, WakeOneType
  <2>2. QED
    BY <1>1, <1>2, <1>5, <2>1 DEF TypeOK
<1>8. TaskPlace' /\ ThreadsInOrder' /\ InHandler' = InHandler
  BY <1>1, <1>2, <1>4, <1>5 DEF TaskPlace, AtTask, ThreadsInOrder, InHandler
<1>9. OnePlace'
  <2>1. /\ Queued' \cap waiting' = {} /\ Queued' \cap ready' = {} /\ waiting' \cap ready' = {}
        /\ \A u \in Threads : Held(u)' \cap (Queued' \cup waiting' \cup ready') = {}
    BY <1>1, <1>2, <1>3, <1>6 DEF OnePlace
  <2>2. OnePlace /\ UNCHANGED <<private, running, begun, posting>>
    BY <1>1, <1>2
  <2>3. QED
    BY <1>5, <1>6, <2>1, <2>2 DEF OnePlace
<1>10. WorkCounted'
  <2>1. Outstanding' = Outstanding /\ Posters' = Posters
    BY <1>2, <1>6, <1>8 DEF Outstanding, Posters
  <2>2. QED
    BY <1>1, <1>2, <1>8, <2>1 DEF WorkCounted
<1>11. QED
  BY <1>7, <1>8, <1>9, <1>10 DEF OrderInv

LEMMA BecomesReadyKeepsOrder ==
  ASSUME OrderInv, NEW o \in Io, BecomesReady(o)
  PROVE  OrderInv'
<1>1. /\ TypeOK /\ TaskPlace /\ ThreadsInOrder /\ OnePlace /\ WorkCounted
  BY DEF OrderInv
<1>2. /\ o \in waiting /\ waiting' = waiting \ {o} /\ ready' = ready \cup {o}
      /\ UNCHANGED <<queue, stopped, work, interrupted, signalled, kick, begun>>
      /\ UNCHANGED <<pc, mayBlock, running, private, privateWork, posting, signalling>>
  BY DEF BecomesReady, queueVars, threadVars
<1>3. /\ Queued' = Queued /\ Private' = Private /\ Pending' = Pending
      /\ \A u \in Threads : Held(u)' = Held(u)
  <2>1. Queued' = Queued /\ \A u \in Threads : Held(u)' = Held(u)
    BY <1>2 DEF Queued, Held
  <2>2. Private' = Private
    BY <2>1 DEF Private
  <2>3. QED
    BY <1>2, <2>1, <2>2 DEF Pending
<1>4. TypeOK'
  BY <1>1, <1>2 DEF TypeOK
<1>5. TaskPlace' /\ ThreadsInOrder' /\ InHandler' = InHandler
  BY <1>1, <1>2 DEF TaskPlace, AtTask, ThreadsInOrder, InHandler
<1>6. OnePlace'
  <2>1. /\ Queued' \cap waiting' = {} /\ Queued' \cap ready' = {} /\ waiting' \cap ready' = {}
        /\ \A u \in Threads : Held(u)' \cap (Queued' \cup waiting' \cup ready') = {}
    BY <1>1, <1>2, <1>3 DEF OnePlace
  <2>2. OnePlace /\ UNCHANGED <<queue, private, running, begun, posting>>
    BY <1>1, <1>2
  <2>3. QED
    BY <1>3, <2>1, <2>2 DEF OnePlace
<1>7. WorkCounted'
  <2>1. Outstanding' = Outstanding /\ Posters' = Posters
    BY <1>2, <1>3, <1>5 DEF Outstanding, Posters
  <2>2. QED
    BY <1>1, <1>2, <1>5, <2>1 DEF WorkCounted
<1>8. QED
  BY <1>4, <1>5, <1>6, <1>7 DEF OrderInv

------------------------------------------------------------------------------
LEMMA InitOrder == Init => OrderInv
<1> SUFFICES ASSUME Init PROVE OrderInv
  OBVIOUS
<1>1. /\ queue = <<Task>> /\ work = 0 /\ waiting = {} /\ ready = {}
      /\ pc = [t \in Threads |-> "out"]
      /\ running = [t \in Threads |-> None]
      /\ private = [t \in Threads |-> <<>>]
      /\ privateWork = [t \in Threads |-> 0]
      /\ posting = [c \in Callers |-> None]
      /\ begun = [o \in Ops |-> 0]
  BY DEF Init
<1>2. Task \in Ops \cup {Task} /\ <<>> \in Seq(Ops) /\ Len(<<>>) = 0
  BY EmptySeq
<1>3. queue \in Seq(Ops \cup {Task}) /\ IsInjective(queue) /\ Range(queue) = {Task}
  BY <1>1, <1>2, SingleOnce
<1>4. TypeOK
  <2>1. /\ private \in [Threads -> Seq(Ops)] /\ privateWork \in [Threads -> Nat]
        /\ posting \in [Callers -> Ops \cup {None}] /\ begun \in [Ops -> Nat]
        /\ running \in [Threads -> Ops \cup {None}] /\ work \in Nat
    BY <1>1, <1>2
  <2>2. QED
    BY <1>3, <2>1 DEF Init, TypeOK
<1>5. Queued = {} /\ Private = {} /\ \A t \in Threads : Held(t) = {}
  BY <1>1, <1>3, <1>4, QueuedRange, SchedulerAssumption DEF Queued, Private
<1>6. TaskPlace
  BY <1>1, <1>3 DEF TaskPlace, AtTask
<1>7. ThreadsInOrder
  BY <1>1, <1>2 DEF ThreadsInOrder
<1>8. OnePlace
  <2>1. \A t \in Threads : IsInjective(private[t])
    BY <1>1 DEF IsInjective
  <2>2. QED
    BY <1>1, <1>3, <1>5, <2>1 DEF OnePlace
<1>9. WorkCounted
  <2>1. Outstanding = {} /\ InHandler = {} /\ Posters = {}
    BY <1>1, <1>5 DEF Outstanding, InHandler, Posters
  <2>2. QED
    BY <1>1, <2>1, FS_EmptySet DEF WorkCounted
<1>10. QED
  BY <1>4, <1>6, <1>7, <1>8, <1>9 DEF OrderInv

LEMMA StutterMoves == ASSUME OrderInv, UNCHANGED vars PROVE MovesThreads
BY DEF OrderInv, TypeOK, MovesThreads, Places, vars, queueVars, reactorVars, threadVars

LEMMA NextKeepsOrder == ASSUME OrderInv, [Next]_vars PROVE OrderInv'
<1>1. ASSUME NEW t \in Threads, Proceed(t) PROVE OrderInv'
  <2>1. CASE Enter(t)
    BY <2>1, EnterMoves, MovesKeepOrder
  <2>2. CASE Loop(t)
    BY <2>2, LoopTurn, TurnKeepsOrder
  <2>3. CASE Woken(t)
    BY <2>3, WokenTurn, TurnKeepsOrder, WokenInVainMoves, MovesKeepOrder
  <2>4. CASE RunTask(t)
    BY <2>4, RunTaskKeepsOrder
  <2>5. CASE TaskCleanup(t)
    BY <2>5, TaskCleanupTurn, TurnKeepsOrder
  <2>6. CASE FinishHandler(t)
    BY <2>6, FinishHandlerKeepsOrder
  <2>7. CASE StopSelf(t)
    BY <2>7, StopSelfMoves, MovesKeepOrder
  <2>8. QED
    BY <1>1, <2>1, <2>2, <2>3, <2>4, <2>5, <2>6, <2>7 DEF Proceed
<1>2. ASSUME NEW t \in Threads,
             SpuriousWakeup(t) \/ \E o \in Posted : PostContinuation(t, o)
      PROVE  OrderInv'
  BY <1>2, SpuriousWakeupMoves, MovesKeepOrder, PostContinuationKeepsOrder
<1>3. ASSUME NEW c \in Callers, Signal(c) \/ Push(c) PROVE OrderInv'
  BY <1>3, SignalMoves, MovesKeepOrder, PushKeepsOrder
<1>4. ASSUME NEW c \in Callers,
             \/ \E o \in Posted : Post(c, o)
             \/ \E o \in Io : StartIo(c, o) \/ Cancel(c, o)
      PROVE  OrderInv'
  BY <1>4, PostKeepsOrder, StartIoKeepsOrder, CancelKeepsOrder
<1>5. ASSUME NEW c \in Outsiders, Stop(c) PROVE OrderInv'
  BY <1>5, StopMoves, MovesKeepOrder DEF Callers
<1>6. ASSUME NEW o \in Io, BecomesReady(o) PROVE OrderInv'
  BY <1>6, BecomesReadyKeepsOrder
<1>7. CASE UNCHANGED vars
  BY <1>7, StutterMoves, MovesKeepOrder
<1>8. QED
  BY <1>1, <1>2, <1>3, <1>4, <1>5, <1>6, <1>7 DEF Next

THEOREM OrderKept == Spec => []OrderInv
<1>1. Init => OrderInv
  BY InitOrder
<1>2. OrderInv /\ [Next]_vars => OrderInv'
  BY NextKeepsOrder
<1>3. QED
  BY <1>1, <1>2, PTL DEF Spec

(* The cardinalities of the runs' statements, from the sets of the proof. *)
LEMMA TaskPlaceIsOneTask == ASSUME OrderInv PROVE OneTask
<1> DEFINE places == {i \in DOMAIN queue : queue[i] = Task}
           at == {t \in Threads : pc[t] \in {"task", "task done"}}
<1>1. /\ queue \in Seq(Ops \cup {Task}) /\ IsInjective(queue) /\ TaskPlace
  BY DEF OrderInv, TypeOK, OnePlace
<1>2. CASE Task \in Range(queue) /\ \A t \in Threads : ~AtTask(t)
  <2>1. PICK i \in DOMAIN queue : queue[i] = Task
    BY <1>2 DEF Range
  <2>2. places = {i}
    BY <1>1, <2>1 DEF IsInjective
  <2>3. at = {}
    BY <1>2 DEF AtTask
  <2>4. Cardinality(places) = 1 /\ Cardinality(at) = 0
    BY <2>2, <2>3, FS_Singleton, FS_EmptySet
  <2> HIDE DEF places, at
  <2>5. Cardinality(places) + Cardinality(at) = 1
    BY <2>4
  <2>6. QED
    BY <2>5, Zenon DEF OneTask, places, at
<1>3. CASE /\ Task \notin Range(queue)
           /\ \E t \in Threads : AtTask(t) /\ \A u \in Threads \ {t} : ~AtTask(u)
  <2>1. PICK t \in Threads : AtTask(t) /\ \A u \in Threads \ {t} : ~AtTask(u)
    BY <1>3
  <2>2. places = {}
    BY <1>3 DEF Range
  <2>3. at = {t}
    BY <2>1 DEF AtTask
  <2>4. Cardinality(places) = 0 /\ Cardinality(at) = 1
    BY <2>2, <2>3, FS_Singleton, FS_EmptySet
  <2> HIDE DEF places, at
  <2>5. Cardinality(places) + Cardinality(at) = 1
    BY <2>4
  <2>6. QED
    BY <2>5, Zenon DEF OneTask, places, at
<1>4. QED
  BY <1>1, <1>2, <1>3 DEF TaskPlace

(***************************************************************************)
(* scheduler.ipp:56-104, 325-366, 447-505: the reactor has one place, what *)
(* a thread keeps is in order, and every operation is in one place.        *)
(***************************************************************************)
THEOREM SchedulerInvariant == Spec => []SchedulerInv
<1>1. OrderInv => SchedulerInv
  BY TaskPlaceIsOneTask DEF OrderInv, SchedulerInv
<1>2. QED
  BY <1>1, OrderKept, PTL

(***************************************************************************)
(* scheduler.ipp:81-104, 345-366: the count of outstanding work is exact.  *)
(***************************************************************************)
THEOREM WorkExact == Spec => []WorkIsExact
<1>1. ASSUME OrderInv PROVE WorkIsExact
  <2> DEFINE shared == Queued \cup waiting \cup ready
             kept == UNION {Held(t) : t \in Threads \ InHandler}
  <2>1. shared \subseteq Ops /\ kept \subseteq Ops /\ Outstanding = shared \cup kept
    BY <1>1 DEF OrderInv, TypeOK, Ops, Queued, Held, Outstanding
  <2>2. shared \cap kept = {}
    BY <1>1 DEF OrderInv, OnePlace
  <2>3. /\ IsFiniteSet(shared) /\ IsFiniteSet(kept)
        /\ Cardinality(shared) \in Nat /\ Cardinality(kept) \in Nat
    BY <2>1, OpsFinite
  <2> HIDE DEF shared, kept
  <2>4. Cardinality(shared \cap kept) = 0
    BY <2>2, FS_EmptySet
  <2>5. Cardinality(Outstanding) = Cardinality(shared) + Cardinality(kept)
    <3>1. Cardinality(shared \cup kept) =
            Cardinality(shared) + Cardinality(kept) - Cardinality(shared \cap kept)
      BY <2>3, FS_Union
    <3>2. QED
      BY <2>1, <2>3, <2>4, <3>1
  <2>6. work = Cardinality(Outstanding) + Cardinality(InHandler) + Cardinality(Posters)
    BY <1>1 DEF OrderInv, WorkCounted
  <2>7. QED
    BY <2>5, <2>6 DEF WorkIsExact, Posters, shared, kept
<1>2. QED
  BY <1>1, OrderKept, PTL

------------------------------------------------------------------------------
(***************************************************************************)
(* Waking.  A caller that is about to push is outside the scheduler or in  *)
(* a handler, so it is not itself the thread that has to be woken.         *)
(***************************************************************************)
PushersBusy == \A t \in Threads : posting[t] # None => pc[t] = "handler"

WakeInv == PushersBusy /\ NoIdleThreadMissesWork /\ StopReachesAll

(* Every place a thread can be in, told by whether it looks at the queue. *)
LEMMA ThreadsAreSomewhere ==
  ASSUME TypeOK, NEW t \in Threads
  PROVE  \/ pc[t] \in {"out", "no work", "handler", "returned"}
         \/ pc[t] \in {"loop", "last work", "task done"}
         \/ pc[t] \in {"waiting", "woken", "task"}
BY DEF TypeOK

(***************************************************************************)
(* wake_one_thread_and_unlock does what its name says: c queues something  *)
(* and is not at the queue itself; whoever is blocked at the task has the  *)
(* value i for task_interrupted_.                                          *)
(***************************************************************************)
LEMMA WakeOneWakes ==
  ASSUME TypeOK, WakeInv, NEW c \in Callers, NEW i \in BOOLEAN, WakeOne(c, i),
         \A u \in Threads \ {c} : pc'[u] = pc[u],
         \A u \in Threads \ {c} : pc[u] = "task" => i = interrupted,
         c \in Threads => pc'[c] = "handler",
         UNCHANGED <<mayBlock, ready, stopped>>
  PROVE  NoIdleThreadMissesWork' /\ StopReachesAll'
<1> DEFINE idle == WaitersBut(c) # {}
<1>1. /\ signalled' = TRUE
      /\ signalling \in [Callers -> BOOLEAN]
      /\ signalling' = [signalling EXCEPT ![c] = idle]
  BY DEF TypeOK, WakeOne
<1>2. /\ interrupted' <=> i \/ ~idle
      /\ kick' <=> kick \/ (~idle /\ ~i)
  BY Zenon DEF WakeOne
<1>3. idle <=> \E u \in Threads \ {c} : pc[u] \in {"waiting", "woken"}
  BY DEF WaitersBut
<1>4. idle => signalling'[c]
  BY <1>1
<1> HIDE DEF idle
<1>5. ASSUME NEW u \in Threads, pc'[u] = "task", mayBlock'[u], ~kick'
      PROVE  /\ u \in Threads \ {c} /\ pc[u] = "task" /\ mayBlock[u] /\ ~kick
             /\ ~interrupted /\ ~i /\ idle
  <2>1. u \in Threads \ {c} /\ pc[u] = "task" /\ mayBlock[u] /\ ~kick
    BY <1>2, <1>5
  <2>2. ~interrupted
    BY <2>1 DEF WakeInv, NoIdleThreadMissesWork, Wakeful
  <2>3. ~i
    BY <2>1, <2>2
  <2>4. idle
    BY <1>2, <1>5, <2>3
  <2>5. QED
    BY <2>1, <2>2, <2>3, <2>4
<1>6. idle => \E u \in Threads : pc'[u] \in {"waiting", "woken"}
  BY <1>3
<1>7. Wakeful'
  <2>1. stopped' \/ Queued' # {} => signalled'
    BY <1>1
  <2>2. ASSUME NEW u \in Threads, pc'[u] = "task", mayBlock'[u], ~kick'
        PROVE  /\ ~interrupted'
               /\ \E v \in Threads :
                    pc'[v] \in {"waiting", "woken", "loop", "last work", "task done"}
    BY <1>2, <1>5, <1>6, <2>2
  <2>3. QED
    BY <2>1, <2>2 DEF Wakeful
<1>8. Coming' \/ \A u \in Threads : pc'[u] \in {"out", "no work", "handler", "returned"}
  <2>1. CASE idle
    BY <1>4, <2>1 DEF Coming
  <2>2. CASE ~idle
    <3>1. SUFFICES ASSUME NEW u \in Threads,
                          pc'[u] \notin {"out", "no work", "handler", "returned"}
                   PROVE  Coming'
      OBVIOUS
    <3>2. u \in Threads \ {c} /\ pc'[u] = pc[u]
      BY <3>1
    <3>3. pc'[u] \in {"loop", "last work", "task done"} \/ pc'[u] = "task"
      BY <1>3, <2>2, <3>1, <3>2, ThreadsAreSomewhere
    <3>4. pc'[u] = "task" => ~mayBlock'[u] \/ kick'
      BY <1>5, <2>2
    <3>5. QED
      BY <3>3, <3>4 DEF Coming
  <2>3. QED
    BY <2>1, <2>2
<1>9. StopReachesAll'
  <2>1. ASSUME stopped', NEW u \in Threads
        PROVE  /\ pc'[u] # "waiting"
               /\ pc'[u] = "woken" => signalled'
               /\ pc'[u] = "task" => ~mayBlock'[u] \/ kick' \/ ready' # {}
    <3>1. stopped /\ pc[u] # "waiting" /\
            (pc[u] = "task" => ~mayBlock[u] \/ kick \/ ready # {})
      BY <2>1 DEF WakeInv, StopReachesAll
    <3>2. pc'[u] = pc[u] \/ pc'[u] = "handler"
      BY <2>1
    <3>3. kick => kick'
      BY <1>2
    <3>4. QED
      BY <1>1, <3>1, <3>2, <3>3
  <2>2. QED
    BY <2>1 DEF StopReachesAll
<1>10. QED
  BY <1>7, <1>8, <1>9 DEF NoIdleThreadMissesWork

LEMMA LastOfQueue ==
  ASSUME NEW S, NEW q \in Seq(S), q # <<>>, ~(Len(q) > 1)
  PROVE  Tail(q) = <<>>
<1>1. PICK n \in Nat \ {0} : n = Len(q)
  BY EmptySeq
<1>2. Len(q) = 1
  <2>1. ~(n > 1)
    BY <1>1
  <2>2. n = 1
    BY <2>1
  <2>3. QED
    BY <1>1, <2>2
<1>3. Tail(q) \in Seq(S) /\ Len(Tail(q)) = Len(q) - 1
  BY HeadTailProperties
<1>4. Len(Tail(q)) = 0
  BY <1>2, <1>3
<1>5. QED
  BY <1>3, <1>4, EmptySeq

(* A thread in its turn is the only one that can be at the task afterwards. *)
LEMMA TurnKeepsWaking ==
  ASSUME OrderInv, WakeInv, NEW t \in Threads, NEW q, NEW i, Turn(t, q, i)
  PROVE  WakeInv'
<1>1. /\ TypeOK /\ TaskPlace /\ t \in Callers
      /\ pc \in [Threads -> Places] /\ mayBlock \in [Threads -> BOOLEAN]
      /\ posting \in [Callers -> Ops \cup {None}]
  BY DEF OrderInv, TypeOK, Callers, Places
<1>2. /\ pc[t] \in {"loop", "woken", "task done"}
      /\ q \in Seq(Ops \cup {Task}) /\ i \in BOOLEAN
      /\ Task \in Range(q) <=> Task \in Range(queue) \/ pc[t] = "task done"
      /\ pc[t] = "task done" \/ i = interrupted
      /\ Continue(t, q, i)
      /\ UNCHANGED <<stopped, work, waiting, ready, privateWork, posting>>
  BY DEF Turn
<1>3. Queued' = Ops \cap Range(queue') /\ queue' \in Seq(Ops \cup {Task})
  BY TurnSets, TurnEnds
<1>4. \A u \in Threads \ {t} : pc[u] = "task" => i = interrupted
  BY <1>1, <1>2 DEF TaskPlace, AtTask
<1>5. posting[t] = None
  BY <1>2 DEF WakeInv, PushersBusy
<1>6. ASSUME \A u \in Threads \ {t} : pc'[u] = pc[u] PROVE PushersBusy'
  BY <1>2, <1>5, <1>6 DEF WakeInv, PushersBusy
<1>7. CASE stopped
  <2>1. /\ \A u \in Threads \ {t} : pc'[u] = pc[u]
        /\ pc'[t] = "returned"
        /\ signalled' = (signalled /\ stopped) /\ interrupted' = i
        /\ UNCHANGED <<signalling, kick, mayBlock>>
    BY <1>1, <1>2, <1>7 DEF Continue
  <2>2. signalled'
    <3>1. signalled
      BY <1>7 DEF WakeInv, NoIdleThreadMissesWork, Wakeful
    <3>2. QED
      BY <1>7, <2>1, <3>1, Zenon
  <2>3. Wakeful'
    BY <1>2, <1>4, <1>7, <2>1, <2>2 DEF WakeInv, NoIdleThreadMissesWork, Wakeful
  <2>4. StopReachesAll'
    BY <1>2, <2>1, <2>2 DEF WakeInv, StopReachesAll
  <2>5. QED
    BY <1>2, <1>6, <1>7, <2>1, <2>3, <2>4 DEF WakeInv, NoIdleThreadMissesWork
<1>8. CASE ~stopped /\ q = <<>>
  <2>1. /\ \A u \in Threads \ {t} : pc'[u] = pc[u]
        /\ pc'[t] = "waiting"
        /\ queue' = q /\ interrupted' = i
        /\ UNCHANGED <<signalling, kick, mayBlock>>
    BY <1>1, <1>2, <1>8 DEF Continue
  <2>2. Queued' = {} /\ ~stopped'
    BY <1>2, <1>3, <1>8, <2>1, RangeEmpty
  <2>3. Wakeful'
    BY <1>4, <2>1, <2>2 DEF WakeInv, NoIdleThreadMissesWork, Wakeful
  <2>4. QED
    BY <1>6, <2>1, <2>2, <2>3 DEF WakeInv, NoIdleThreadMissesWork, StopReachesAll
<1>9. CASE ~stopped /\ q # <<>> /\ Head(q) = Task
  <2> DEFINE more == Len(q) > 1
  <2>1. /\ pc' = [pc EXCEPT ![t] = "task"]
        /\ mayBlock' = [mayBlock EXCEPT ![t] = ~more]
        /\ interrupted' = more /\ kick' = kick
        /\ queue' = Tail(q)
        /\ signalled' = (signalled \/ more)
    BY <1>2, <1>9 DEF Continue, BeginTask
  <2>2. Task \in Range(q)
    BY <1>2, <1>9, TailOnce DEF Turn
  <2>3. \A u \in Threads \ {t} : pc'[u] # "task"
    BY <1>1, <1>2, <2>1, <2>2 DEF TaskPlace, AtTask
  <2>4. (\A u \in Threads \ {t} : pc'[u] = pc[u]) /\ pc'[t] = "task" /\ ~stopped'
    BY <1>1, <1>2, <1>9, <2>1
  <2>5. mayBlock'[t] <=> ~more
    BY <1>1, <2>1
  <2>6. ~more => Queued' = {}
    <3>1. ASSUME ~more PROVE queue' = <<>>
      BY <1>2, <1>9, <2>1, <3>1, LastOfQueue
    <3>2. QED
      BY <1>3, <3>1, RangeEmpty
  <2> HIDE DEF more
  <2>7. more => signalled'
    BY <2>1, Zenon
  <2>8. interrupted' <=> more
    BY <2>1
  <2>9. Wakeful'
    BY <2>3, <2>4, <2>5, <2>6, <2>7, <2>8 DEF Wakeful
  <2>10. Queued' # {} => Coming'
    BY <2>4, <2>5, <2>6 DEF Coming
  <2>11. QED
    BY <1>6, <2>4, <2>9, <2>10 DEF WakeInv, NoIdleThreadMissesWork, StopReachesAll
<1>10. CASE ~stopped /\ q # <<>> /\ Head(q) # Task
  <2>1. BeginHandler(t, q, i)
    BY <1>2, <1>10 DEF Continue
  <2>2. /\ pc' = [pc EXCEPT ![t] = "handler"]
        /\ mayBlock' = mayBlock /\ queue' = Tail(q)
    BY <2>1 DEF BeginHandler
  <2>3. (\A u \in Threads \ {t} : pc'[u] = pc[u]) /\ pc'[t] = "handler" /\ ~stopped'
    BY <1>1, <1>2, <1>10, <2>2
  <2>4. CASE Len(q) > 1
    <3>1. WakeOne(t, i)
      BY <2>1, <2>4 DEF BeginHandler
    <3>2. NoIdleThreadMissesWork' /\ StopReachesAll'
      BY <1>1, <1>2, <1>4, <2>2, <2>3, <3>1, WakeOneWakes
    <3>3. QED
      BY <1>6, <2>3, <3>2 DEF WakeInv
  <2>5. CASE ~(Len(q) > 1)
    <3>1. Tail(q) = <<>>
      BY <1>2, <1>10, <2>5, LastOfQueue
    <3>2. Queued' = {}
      BY <1>3, <2>2, <3>1, RangeEmpty
    <3>3. interrupted' = i /\ kick' = kick
      BY <2>1, <2>5 DEF BeginHandler
    <3>4. Wakeful'
      BY <1>4, <2>2, <2>3, <3>2, <3>3 DEF WakeInv, NoIdleThreadMissesWork, Wakeful
    <3>5. QED
      BY <1>6, <2>3, <3>2, <3>4 DEF WakeInv, NoIdleThreadMissesWork, StopReachesAll
  <2>6. QED
    BY <2>4, <2>5
<1>11. QED
  BY <1>7, <1>8, <1>9, <1>10

(***************************************************************************)
(* The other steps.  First the threads: one that enters, one that wakes    *)
(* without a reason, one that leaves the reactor or a handler.             *)
(***************************************************************************)
LEMMA EnterKeepsWaking ==
  ASSUME OrderInv, WakeInv, NEW t \in Threads, Enter(t) PROVE WakeInv'
<1>1. /\ pc \in [Threads -> Places] /\ pc[t] = "out"
      /\ pc' = [pc EXCEPT ![t] = IF work = 0 THEN "no work" ELSE "loop"]
      /\ UNCHANGED <<queue, stopped, interrupted, signalled, kick, ready>>
      /\ UNCHANGED <<mayBlock, posting, signalling>>
  BY DEF Enter, OrderInv, TypeOK, Places, queueVars, reactorVars
<1>2. /\ \A u \in Threads \ {t} : pc'[u] = pc[u]
      /\ pc'[t] \in {"no work", "loop"}
  BY <1>1
<1>3. Queued' = Queued
  BY <1>1 DEF Queued
<1>4. PushersBusy'
  BY <1>1, <1>2 DEF WakeInv, PushersBusy
<1>5. Wakeful'
  BY <1>1, <1>2, <1>3 DEF WakeInv, NoIdleThreadMissesWork, Wakeful
<1>6. Coming => Coming'
  BY <1>1, <1>2 DEF Coming
<1>7. NoIdleThreadMissesWork'
  BY <1>1, <1>2, <1>3, <1>5, <1>6 DEF WakeInv, NoIdleThreadMissesWork, Coming
<1>8. StopReachesAll'
  BY <1>1, <1>2 DEF WakeInv, StopReachesAll
<1>9. QED
  BY <1>4, <1>7, <1>8 DEF WakeInv

(* A thread that waits is woken, by a signal or without one. *)
LEMMA AwakeningKeepsWaking ==
  ASSUME OrderInv, WakeInv, NEW t \in Threads,
         pc[t] = "waiting", pc' = [pc EXCEPT ![t] = "woken"],
         UNCHANGED <<queue, stopped, interrupted, signalled, kick, ready>>,
         UNCHANGED <<mayBlock, posting>>
  PROVE  WakeInv'
<1>1. pc \in [Threads -> Places]
  BY DEF OrderInv, TypeOK, Places
<1>2. (\A u \in Threads \ {t} : pc'[u] = pc[u]) /\ pc'[t] = "woken"
  BY <1>1
<1>3. Queued' = Queued
  BY DEF Queued
<1>4. PushersBusy'
  BY <1>2 DEF WakeInv, PushersBusy
<1>5. Wakeful'
  BY <1>2, <1>3 DEF WakeInv, NoIdleThreadMissesWork, Wakeful
<1>6. Queued' # {} => Coming'
  BY <1>2, <1>5 DEF Wakeful, Coming
<1>7. ~stopped'
  BY DEF WakeInv, StopReachesAll
<1>8. QED
  BY <1>4, <1>5, <1>6, <1>7 DEF WakeInv, NoIdleThreadMissesWork, StopReachesAll

LEMMA SpuriousKeepsWaking ==
  ASSUME OrderInv, WakeInv, NEW t \in Threads, SpuriousWakeup(t) PROVE WakeInv'
<1>1. /\ pc[t] = "waiting" /\ pc' = [pc EXCEPT ![t] = "woken"]
      /\ UNCHANGED <<queue, stopped, interrupted, signalled, kick, ready>>
      /\ UNCHANGED <<mayBlock, posting>>
  BY DEF SpuriousWakeup, queueVars, reactorVars
<1>2. QED
  BY <1>1, AwakeningKeepsWaking

(* The event was not set, so nothing is queued for the woken thread. *)
LEMMA WokenInVainKeepsWaking ==
  ASSUME OrderInv, WakeInv, NEW t \in Threads, Woken(t), ~signalled PROVE WakeInv'
<1>1. /\ pc \in [Threads -> Places] /\ pc[t] = "woken"
      /\ pc' = [pc EXCEPT ![t] = "waiting"]
      /\ UNCHANGED <<queue, stopped, interrupted, signalled, kick, ready>>
      /\ UNCHANGED <<mayBlock, posting, signalling>>
  BY DEF Woken, OrderInv, TypeOK, Places
<1>2. (\A u \in Threads \ {t} : pc'[u] = pc[u]) /\ pc'[t] = "waiting"
  BY <1>1
<1>3. Queued' = {} /\ ~stopped'
  BY <1>1 DEF Queued, WakeInv, NoIdleThreadMissesWork, Wakeful
<1>4. Wakeful'
  BY <1>1, <1>2, <1>3 DEF WakeInv, NoIdleThreadMissesWork, Wakeful
<1>5. PushersBusy'
  BY <1>1, <1>2 DEF WakeInv, PushersBusy
<1>6. QED
  BY <1>3, <1>4, <1>5 DEF WakeInv, NoIdleThreadMissesWork, StopReachesAll

LEMMA RunTaskKeepsWaking ==
  ASSUME OrderInv, WakeInv, NEW t \in Threads, RunTask(t) PROVE WakeInv'
<1>1. /\ pc \in [Threads -> Places] /\ pc[t] = "task" /\ TaskPlace
      /\ pc' = [pc EXCEPT ![t] = "task done"]
      /\ UNCHANGED <<queue, stopped, interrupted, signalled, mayBlock, posting>>
  BY DEF RunTask, OrderInv, TypeOK, Places, queueVars
<1>2. (\A u \in Threads \ {t} : pc'[u] = pc[u]) /\ pc'[t] = "task done"
  BY <1>1
<1>3. \A u \in Threads : pc'[u] # "task"
  BY <1>1, <1>2 DEF TaskPlace, AtTask
<1>4. Queued' = Queued
  BY <1>1 DEF Queued
<1>5. PushersBusy'
  BY <1>1, <1>2 DEF WakeInv, PushersBusy
<1>6. Wakeful'
  BY <1>1, <1>3, <1>4 DEF WakeInv, NoIdleThreadMissesWork, Wakeful
<1>7. Coming'
  BY <1>2 DEF Coming
<1>8. StopReachesAll'
  BY <1>1, <1>2, <1>3 DEF WakeInv, StopReachesAll
<1>9. QED
  BY <1>5, <1>6, <1>7, <1>8 DEF WakeInv, NoIdleThreadMissesWork

LEMMA FinishHandlerKeepsWaking ==
  ASSUME OrderInv, WakeInv, NEW t \in Threads, FinishHandler(t) PROVE WakeInv'
<1>1. /\ pc \in [Threads -> Places] /\ pc[t] = "handler" /\ posting[t] = None
      /\ pc' = [pc EXCEPT ![t] = IF work' = 0 THEN "last work" ELSE "loop"]
      /\ UNCHANGED <<queue, stopped, interrupted, signalled, kick, ready>>
      /\ UNCHANGED <<mayBlock, posting, signalling>>
  BY DEF FinishHandler, OrderInv, TypeOK, Places, reactorVars
<1>2. (\A u \in Threads \ {t} : pc'[u] = pc[u]) /\ pc'[t] \in {"last work", "loop"}
  BY <1>1
<1>3. Queued' = Queued
  BY <1>1 DEF Queued
<1>4. PushersBusy'
  BY <1>1, <1>2 DEF WakeInv, PushersBusy
<1>5. Wakeful'
  BY <1>1, <1>2, <1>3 DEF WakeInv, NoIdleThreadMissesWork, Wakeful
<1>6. Coming'
  BY <1>2 DEF Coming
<1>7. StopReachesAll'
  BY <1>1, <1>2 DEF WakeInv, StopReachesAll
<1>8. QED
  BY <1>4, <1>5, <1>6, <1>7 DEF WakeInv, NoIdleThreadMissesWork

(***************************************************************************)
(* A signal that finds nobody waiting is not missed: whoever was counted   *)
(* as a waiter has been woken meanwhile, and the event is set.             *)
(***************************************************************************)
LEMMA SignalKeepsWaking ==
  ASSUME OrderInv, WakeInv, NEW c \in Callers, Signal(c) PROVE WakeInv'
<1>1. UNCHANGED <<queue, stopped, interrupted, signalled, kick, ready, mayBlock, posting>>
  BY DEF Signal, queueVars, reactorVars
<1>2. CASE \E t \in Threads : pc[t] = "waiting" /\ pc' = [pc EXCEPT ![t] = "woken"]
  BY <1>1, <1>2, AwakeningKeepsWaking
<1>3. CASE (\A t \in Threads : pc[t] # "waiting") /\ UNCHANGED pc
  <2>1. Queued' = Queued
    BY <1>1 DEF Queued
  <2>2. Wakeful'
    BY <1>1, <1>3, <2>1 DEF WakeInv, NoIdleThreadMissesWork, Wakeful
  <2>3. ASSUME ~stopped', Queued' # {}, NEW t \in Threads,
               pc'[t] \notin {"out", "no work", "handler", "returned"}
        PROVE  Coming'
    <3>1. signalled'
      BY <2>2, <2>3 DEF Wakeful
    <3>2. TypeOK
      BY DEF OrderInv
    <3>3. CASE pc'[t] \in {"loop", "last work", "task done", "woken"}
      BY <3>1, <3>3 DEF Coming
    <3>4. CASE pc'[t] = "task"
      <4>1. CASE ~mayBlock'[t] \/ kick' \/ ready' # {}
        BY <3>4, <4>1 DEF Coming
      <4>2. CASE mayBlock'[t] /\ ~kick'
        <5>1. PICK u \in Threads :
                pc'[u] \in {"waiting", "woken", "loop", "last work", "task done"}
          BY <2>2, <2>3, <3>4, <4>2 DEF Wakeful
        <5>2. pc'[u] \in {"woken", "loop", "last work", "task done"}
          BY <1>3, <5>1
        <5>3. QED
          BY <3>1, <5>2 DEF Coming
      <4>3. QED
        BY <4>1, <4>2
    <3>5. QED
      BY <1>3, <2>3, <3>2, <3>3, <3>4, ThreadsAreSomewhere
  <2>4. NoIdleThreadMissesWork'
    BY <2>2, <2>3 DEF NoIdleThreadMissesWork
  <2>5. QED
    BY <1>1, <1>3, <2>4 DEF WakeInv, PushersBusy, StopReachesAll
<1>4. QED
  BY <1>2, <1>3 DEF Signal

(***************************************************************************)
(* stop_all_threads: the broadcast gets those that wait for the event, the *)
(* interrupter the one at the task.                                        *)
(***************************************************************************)
LEMMA StopAllKeepsWaking ==
  ASSUME OrderInv, WakeInv, StopAll,
         \A u \in Threads : pc'[u] # "waiting" /\ (pc'[u] = "task" => pc[u] = "task"),
         \A u \in Threads : pc[u] = "handler" => pc'[u] = "handler",
         UNCHANGED <<ready, mayBlock, posting>>
  PROVE  WakeInv'
<1>1. /\ stopped' /\ signalled'
      /\ kick' <=> kick \/ ~interrupted
  BY Zenon DEF StopAll
<1>2. \A u \in Threads : pc'[u] = "task" => ~mayBlock'[u] \/ kick'
  BY <1>1 DEF WakeInv, NoIdleThreadMissesWork, Wakeful
<1>3. Wakeful'
  BY <1>1, <1>2 DEF Wakeful
<1>4. StopReachesAll'
  BY <1>1, <1>2 DEF StopReachesAll
<1>5. PushersBusy'
  BY DEF WakeInv, PushersBusy
<1>6. QED
  BY <1>1, <1>3, <1>4, <1>5 DEF WakeInv, NoIdleThreadMissesWork

LEMMA StopSelfKeepsWaking ==
  ASSUME OrderInv, WakeInv, NEW t \in Threads, StopSelf(t) PROVE WakeInv'
<1>1. TypeOK /\ pc[t] \in {"no work", "last work"} /\ StopAll
      /\ pc' = [Broadcast EXCEPT ![t] = IF pc[t] = "no work" THEN "returned" ELSE "loop"]
      /\ UNCHANGED <<ready, mayBlock, posting>>
  BY DEF StopSelf, OrderInv
<1>2. \A u \in Threads : pc'[u] =
        IF u = t THEN (IF pc[t] = "no work" THEN "returned" ELSE "loop")
        ELSE IF pc[u] = "waiting" THEN "woken" ELSE pc[u]
  BY <1>1, BroadcastWakes
<1>3. /\ \A u \in Threads : pc'[u] # "waiting" /\ (pc'[u] = "task" => pc[u] = "task")
      /\ \A u \in Threads : pc[u] = "handler" => pc'[u] = "handler"
  <2>1. pc[t] \in {"no work", "last work"} /\ pc'[t] \in {"returned", "loop"}
    BY <1>1, <1>2
  <2>2. \A u \in Threads \ {t} :
          \/ pc[u] = "waiting" /\ pc'[u] = "woken"
          \/ pc[u] # "waiting" /\ pc'[u] = pc[u]
    BY <1>2
  <2>3. QED
    BY <2>1, <2>2
<1>4. QED
  BY <1>1, <1>3, StopAllKeepsWaking

LEMMA StopKeepsWaking ==
  ASSUME OrderInv, WakeInv, NEW c \in Outsiders, Stop(c) PROVE WakeInv'
<1>1. TypeOK /\ StopAll /\ pc' = Broadcast /\ UNCHANGED <<ready, mayBlock, posting>>
  BY DEF Stop, OrderInv
<1>2. \A u \in Threads : pc'[u] = IF pc[u] = "waiting" THEN "woken" ELSE pc[u]
  BY <1>1, BroadcastWakes
<1>3. QED
  BY <1>1, <1>2, StopAllKeepsWaking

(***************************************************************************)
(* What callers do.  Those who queue something wake someone for it.        *)
(***************************************************************************)
LEMMA PushKeepsWaking ==
  ASSUME OrderInv, WakeInv, NEW c \in Callers, Push(c) PROVE WakeInv'
<1>1. TypeOK /\ interrupted \in BOOLEAN /\ posting \in [Callers -> Ops \cup {None}]
  BY DEF OrderInv, TypeOK
<1>2. /\ posting[c] # None /\ WakeOne(c, interrupted)
      /\ posting' = [posting EXCEPT ![c] = None]
      /\ UNCHANGED <<pc, mayBlock, ready, stopped>>
  BY DEF Push
<1>3. c \in Threads => pc'[c] = "handler"
  BY <1>2 DEF WakeInv, PushersBusy
<1>4. NoIdleThreadMissesWork' /\ StopReachesAll'
  BY <1>1, <1>2, <1>3, WakeOneWakes
<1>5. PushersBusy'
  BY <1>1, <1>2 DEF WakeInv, PushersBusy, Callers
<1>6. QED
  BY <1>4, <1>5 DEF WakeInv

LEMMA CancelKeepsWaking ==
  ASSUME OrderInv, WakeInv, NEW c \in Callers, NEW o \in Io, Cancel(c, o)
  PROVE  WakeInv'
<1>1. TypeOK /\ interrupted \in BOOLEAN
  BY DEF OrderInv, TypeOK
<1>2. /\ WakeOne(c, interrupted)
      /\ UNCHANGED <<pc, mayBlock, ready, stopped, posting>>
      /\ c \in Threads => pc'[c] = "handler"
  BY DEF Cancel, Free
<1>3. NoIdleThreadMissesWork' /\ StopReachesAll'
  BY <1>1, <1>2, WakeOneWakes
<1>4. QED
  BY <1>2, <1>3 DEF WakeInv, PushersBusy

(* A caller that only counts an operation, or keeps it, changes nothing here. *)
LEMMA NothingQueuedKeepsWaking ==
  ASSUME WakeInv, ready \subseteq ready', PushersBusy',
         UNCHANGED <<queue, stopped, interrupted, signalled, kick, pc, mayBlock, signalling>>
  PROVE  WakeInv'
<1>1. Queued' = Queued
  BY DEF Queued
<1>2. Coming => Coming'
  BY DEF Coming
<1>3. Wakeful'
  BY <1>1 DEF WakeInv, NoIdleThreadMissesWork, Wakeful
<1>4. NoIdleThreadMissesWork'
  BY <1>1, <1>2, <1>3 DEF WakeInv, NoIdleThreadMissesWork
<1>5. StopReachesAll'
  BY DEF WakeInv, StopReachesAll
<1>6. QED
  BY <1>4, <1>5 DEF WakeInv

LEMMA PostKeepsWaking ==
  ASSUME OrderInv, WakeInv, NEW c \in Callers, NEW o \in Posted, Post(c, o)
  PROVE  WakeInv'
<1>1. posting \in [Callers -> Ops \cup {None}]
  BY DEF OrderInv, TypeOK
<1>2. /\ posting' = [posting EXCEPT ![c] = o]
      /\ c \in Threads => pc[c] = "handler"
      /\ UNCHANGED <<queue, stopped, interrupted, signalled, kick, pc, mayBlock, signalling>>
      /\ UNCHANGED ready
  BY DEF Post, Free, reactorVars
<1>3. PushersBusy'
  BY <1>1, <1>2 DEF WakeInv, PushersBusy, Callers
<1>4. QED
  BY <1>2, <1>3, NothingQueuedKeepsWaking

LEMMA KeepingKeepsWaking ==
  ASSUME OrderInv, WakeInv,
         \/ \E t \in Threads, o \in Posted : PostContinuation(t, o)
         \/ \E c \in Callers, o \in Io : StartIo(c, o)
         \/ \E o \in Io : BecomesReady(o)
         \/ UNCHANGED vars
  PROVE  WakeInv'
<1>1. /\ UNCHANGED <<queue, stopped, interrupted, signalled, kick, pc, mayBlock, signalling>>
      /\ UNCHANGED posting /\ ready \subseteq ready'
  <2>1. ASSUME NEW t \in Threads, NEW o \in Posted, PostContinuation(t, o) PROVE <1>1!:
    BY <2>1 DEF PostContinuation, queueVars, reactorVars
  <2>2. ASSUME NEW c \in Callers, NEW o \in Io, StartIo(c, o) PROVE <1>1!:
    BY <2>2 DEF StartIo, threadVars
  <2>3. ASSUME NEW o \in Io, BecomesReady(o) PROVE <1>1!:
    BY <2>3 DEF BecomesReady, queueVars, threadVars
  <2>4. CASE UNCHANGED vars
    BY <2>4 DEF vars, queueVars, reactorVars, threadVars
  <2>5. QED
    BY <2>1, <2>2, <2>3, <2>4
<1>2. PushersBusy'
  BY <1>1 DEF WakeInv, PushersBusy
<1>3. QED
  BY <1>1, <1>2, NothingQueuedKeepsWaking

LEMMA NextKeepsWaking == ASSUME OrderInv, WakeInv, [Next]_vars PROVE WakeInv'
<1>1. ASSUME NEW t \in Threads, TakesTurn(t) PROVE WakeInv'
  BY <1>1, TurnKeepsWaking DEF TakesTurn
<1>2. ASSUME NEW t \in Threads, Proceed(t) PROVE WakeInv'
  <2>1. CASE Enter(t)
    BY <2>1, EnterKeepsWaking
  <2>2. CASE Loop(t)
    BY <1>1, <2>2, LoopTurn
  <2>3. CASE Woken(t)
    BY <1>1, <2>3, WokenTurn, WokenInVainKeepsWaking
  <2>4. CASE RunTask(t)
    BY <2>4, RunTaskKeepsWaking
  <2>5. CASE TaskCleanup(t)
    BY <1>1, <2>5, TaskCleanupTurn
  <2>6. CASE FinishHandler(t)
    BY <2>6, FinishHandlerKeepsWaking
  <2>7. CASE StopSelf(t)
    BY <2>7, StopSelfKeepsWaking
  <2>8. QED
    BY <1>2, <2>1, <2>2, <2>3, <2>4, <2>5, <2>6, <2>7 DEF Proceed
<1>3. ASSUME NEW t \in Threads, SpuriousWakeup(t) PROVE WakeInv'
  BY <1>3, SpuriousKeepsWaking
<1>4. ASSUME NEW c \in Callers,
             \/ Signal(c) \/ Push(c)
             \/ \E o \in Posted : Post(c, o)
             \/ \E o \in Io : Cancel(c, o)
      PROVE  WakeInv'
  BY <1>4, SignalKeepsWaking, PushKeepsWaking, PostKeepsWaking, CancelKeepsWaking
<1>5. ASSUME NEW c \in Outsiders, Stop(c) PROVE WakeInv'
  BY <1>5, StopKeepsWaking
<1>6. QED
  BY <1>2, <1>3, <1>4, <1>5, KeepingKeepsWaking DEF Next

LEMMA InitWakes == Init => WakeInv
<1> SUFFICES ASSUME Init PROVE WakeInv
  OBVIOUS
<1>1. OrderInv
  BY InitOrder
<1>2. /\ queue = <<Task>> /\ ~stopped
      /\ \A t \in Threads : pc[t] = "out"
      /\ \A t \in Threads : posting[t] = None
  BY DEF Init, Callers
<1>3. Queued = {}
  BY <1>1, <1>2, SingleOnce, QueuedRange, SchedulerAssumption DEF OrderInv, Queued
<1>4. QED
  BY <1>2, <1>3 DEF WakeInv, PushersBusy, NoIdleThreadMissesWork, Wakeful, StopReachesAll

THEOREM WakingKept == Spec => [](OrderInv /\ WakeInv)
<1>1. Init => OrderInv /\ WakeInv
  BY InitOrder, InitWakes
<1>2. OrderInv /\ WakeInv /\ [Next]_vars => (OrderInv /\ WakeInv)'
  BY NextKeepsOrder, NextKeepsWaking
<1>3. QED
  BY <1>1, <1>2, PTL DEF Spec

(***************************************************************************)
(* scheduler.ipp:447-505, 647-658, posix_event.hpp:63-121: no handler is   *)
(* left lying while a thread sleeps.                                       *)
(***************************************************************************)
THEOREM NobodySleepsOverWork == Spec => []NoIdleThreadMissesWork
BY WakingKept, PTL DEF WakeInv

(***************************************************************************)
(* scheduler.ipp:309-313, 634-645: stop() reaches every thread.            *)
(***************************************************************************)
THEOREM StopReaches == Spec => []StopReachesAll
BY WakingKept, PTL DEF WakeInv

------------------------------------------------------------------------------
(***************************************************************************)
(* The promise.  Where an operation is in its life is told by who runs it, *)
(* whether its handler has begun, and whether it waits somewhere.          *)
(***************************************************************************)
Runs(o) == \E t \in Threads : running[t] = o
Waits(o) == o \in Pending \/ \E c \in Callers : posting[c] = o

Stage(r, b, w) ==
  IF r THEN "running" ELSE IF b THEN "done" ELSE IF w THEN "submitted" ELSE "new"

LEMMA LifeIs ==
  /\ DOMAIN Life = Ops
  /\ \A o \in Ops : Life[o] = Stage(Runs(o), begun[o] > 0, Waits(o))
<1>1. \A o \in Ops : ~(begun[o] > 0) /\ ~Runs(o) => (o \in Started <=> Waits(o))
  BY DEF Started, Runs, Waits, Pending
<1>2. QED
  BY <1>1 DEF Life, Stage, Runs

LEMMA LifeIsNext ==
  /\ DOMAIN Life' = Ops
  /\ \A o \in Ops : Life'[o] = Stage(Runs(o)', begun'[o] > 0, Waits(o)')
<1>1. \A o \in Ops : ~(begun'[o] > 0) /\ ~Runs(o)' => (o \in Started' <=> Waits(o)')
  BY DEF Started, Runs, Waits, Pending
<1>2. QED
  BY <1>1 DEF Life, Stage, Runs

LEMMA LifeFunction == Life = [o \in Ops |-> Life[o]] /\ Life' = [o \in Ops |-> Life'[o]]
BY DEF Life

LEMMA SameLife ==
  ASSUME UNCHANGED <<running, begun>>,
         \A o \in Ops : Waits(o)' <=> Waits(o)
  PROVE  Life' = Life
<1>1. \A o \in Ops : Runs(o)' <=> Runs(o)
  BY DEF Runs
<1>2. \A o \in Ops : Life'[o] = Life[o]
  BY <1>1, LifeIs, LifeIsNext DEF Stage
<1>3. QED
  BY <1>2, LifeFunction

(* A step that starts o and does nothing else to any operation. *)
LEMMA Submits ==
  ASSUME NEW o \in Ops, OrderInv, o \notin Started,
         UNCHANGED <<running, begun, stopped>>,
         Waits(o)', \A p \in Ops \ {o} : Waits(p)' <=> Waits(p)
  PROVE  Promise!Next
<1>1. begun[o] = 0 /\ ~Waits(o) /\ ~Runs(o)
  <2>1. begun[o] = 0 /\ ~Waits(o)
    BY Fresh DEF OrderInv, Waits
  <2>2. ~Runs(o)
    BY DEF Runs, Started
  <2>3. QED
    BY <2>1, <2>2
<1>2. \A p \in Ops : Runs(p)' <=> Runs(p)
  BY DEF Runs
<1>3. Life[o] = "new" /\ Life'[o] = "submitted"
  BY <1>1, <1>2, LifeIs, LifeIsNext DEF Stage
<1>4. \A p \in Ops \ {o} : Life'[p] = Life[p]
  BY <1>2, LifeIs, LifeIsNext DEF Stage
<1>5. Life' = [Life EXCEPT ![o] = "submitted"]
  BY <1>3, <1>4, LifeFunction
<1>6. Promise!Submit(o)
  BY <1>3, <1>5 DEF Promise!Submit
<1>7. QED
  BY <1>6 DEF Promise!Next

(* The promise counts with its own instance of FiniteSets. *)
LEMMA SameCardinality ==
  ASSUME NEW S PROVE Promise!Cardinality(S) = Cardinality(S)
BY DEF Promise!Cardinality, Cardinality

(* A thread outside a handler takes one in: there is a thread left for it. *)
LEMMA RoomForOne ==
  ASSUME OrderInv, NEW t \in Threads, running[t] = None
  PROVE  Promise!Cardinality(Promise!Running) < Cardinality(Threads)
<1> DEFINE busy == {u \in Threads : running[u] # None}
<1>1. running \in [Threads -> Ops \cup {None}] /\ None \notin Ops
  BY SchedulerAssumption DEF OrderInv, TypeOK
<1>2. Promise!Running = {o \in Ops : Runs(o)}
  BY LifeIs DEF Promise!Running, Stage
<1>3. busy \subseteq Threads \ {t}
  OBVIOUS
<1>4. /\ IsFiniteSet(Threads) /\ Cardinality(Threads) \in Nat
      /\ IsFiniteSet(Threads \ {t}) /\ IsFiniteSet(busy) /\ Cardinality(busy) \in Nat
      /\ Cardinality(Threads \ {t}) \in Nat
  BY ThreadsFinite
<1>5. Cardinality(busy) <= Cardinality(Threads) - 1
  <2>1. Cardinality(Threads \ {t}) = Cardinality(Threads) - 1
    BY <1>4, CardinalityRemove
  <2>2. Cardinality(busy) <= Cardinality(Threads \ {t})
    BY <1>3, <1>4, FS_Subset
  <2>3. QED
    BY <2>1, <2>2
<1>6. /\ IsFiniteSet(Promise!Running)
      /\ Cardinality(Promise!Running) <= Cardinality(busy)
      /\ Cardinality(Promise!Running) \in Nat
  <2> DEFINE run == [u \in busy |-> running[u]]
  <2>1. run \in Surjection(busy, {o \in Ops : Runs(o)})
    <3>1. run \in [busy -> {o \in Ops : Runs(o)}]
      BY <1>1 DEF Runs
    <3>2. ASSUME NEW o \in {p \in Ops : Runs(p)} PROVE \E u \in busy : run[u] = o
      BY <1>1, <3>2 DEF Runs
    <3>3. QED
      BY <3>1, <3>2 DEF Surjection
  <2> HIDE DEF run, busy
  <2>2. /\ IsFiniteSet({o \in Ops : Runs(o)})
        /\ Cardinality({o \in Ops : Runs(o)}) <= Cardinality(busy)
    BY <1>4, <2>1, FS_Surjection
  <2>3. QED
    BY <1>2, <2>2, FS_CardinalityType
<1>7. Promise!Cardinality(Promise!Running) = Cardinality(Promise!Running)
  BY SameCardinality
<1>8. QED
  BY <1>4, <1>5, <1>6, <1>7

(* A step that only moves threads stops the context at most. *)
LEMMA MovesPromise ==
  ASSUME OrderInv, MovesThreads, stopped' = stopped \/ stopped' = TRUE
  PROVE  Promise!Next \/ UNCHANGED Promise!vars
<1>1. UNCHANGED <<queue, waiting, ready, running, private, posting, begun>>
  BY DEF MovesThreads
<1>2. Queued' = Queued /\ \A u \in Threads : Held(u)' = Held(u)
  BY <1>1 DEF Queued, Held
<1>3. Private' = Private
  BY <1>2 DEF Private
<1>4. Pending' = Pending
  BY <1>1, <1>2, <1>3 DEF Pending
<1>5. Life' = Life
  BY <1>1, <1>4, SameLife DEF Waits
<1>6. CASE stopped' = stopped
  BY <1>5, <1>6 DEF Promise!vars
<1>7. CASE stopped' = TRUE
  <2>1. Promise!Halt
    BY <1>5, <1>7 DEF Promise!Halt
  <2>2. QED
    BY <2>1 DEF Promise!Next
<1>8. QED
  BY <1>6, <1>7

LEMMA TurnPromise ==
  ASSUME OrderInv, NEW t \in Threads, NEW q, NEW i, Turn(t, q, i)
  PROVE  Promise!Next \/ UNCHANGED Promise!vars
<1>1. /\ running \in [Threads -> Ops \cup {None}] /\ begun \in [Ops -> Nat]
      /\ pc[t] \in {"loop", "woken", "task done"} /\ running[t] = None
      /\ UNCHANGED <<stopped, posting>>
  BY DEF Turn, OrderInv, TypeOK, ThreadsInOrder
<1>2. CASE Sleeps(t, q) \/ TakesTask(t, q)
  <2>1. UNCHANGED <<running, begun>> /\ Pending' = Pending
    BY <1>2, TurnPending DEF Sleeps, TakesTask
  <2>2. Life' = Life
    BY <1>1, <2>1, SameLife DEF Waits
  <2>3. QED
    BY <1>1, <2>2 DEF Promise!vars
<1>3. ASSUME NEW o \in Ops, TakesHandler(t, q, o) PROVE Promise!Next
  <2>1. /\ ~stopped
        /\ running' = [running EXCEPT ![t] = o]
        /\ begun' = [begun EXCEPT ![o] = @ + 1]
    BY <1>3 DEF TakesHandler
  <2>2. /\ o \in Pending /\ Pending' = Pending \ {o} /\ begun[o] = 0
        /\ \A c \in Callers : posting[c] # o
        /\ \A u \in Threads : running[u] # o
    BY <1>3, TurnPending
  <2>3. /\ running'[t] = o /\ \A u \in Threads \ {t} : running'[u] = running[u]
        /\ \A p \in Ops \ {o} : begun'[p] = begun[p]
    BY <1>1, <2>1
  <2>4. Waits(o) /\ ~Runs(o) /\ Runs(o)' /\ ~(begun[o] > 0)
    BY <2>2, <2>3 DEF Waits, Runs
  <2>5. ASSUME NEW p \in Ops \ {o}
        PROVE  (Runs(p)' <=> Runs(p)) /\ (Waits(p)' <=> Waits(p))
    <3>1. p # None
      BY SchedulerAssumption
    <3>2. Runs(p)' <=> Runs(p)
      BY <1>1, <2>3, <3>1 DEF Runs
    <3>3. Waits(p)' <=> Waits(p)
      BY <1>1, <2>2 DEF Waits
    <3>4. QED
      BY <3>2, <3>3
  <2>6. Life[o] = "submitted" /\ Life'[o] = "running"
    BY <2>4, LifeIs, LifeIsNext DEF Stage
  <2>7. \A p \in Ops \ {o} : Life'[p] = Life[p]
    BY <2>3, <2>5, LifeIs, LifeIsNext DEF Stage
  <2>8. Life' = [Life EXCEPT ![o] = "running"]
    BY <2>6, <2>7, LifeFunction
  <2>9. Promise!Begin(o)
    BY <1>1, <2>1, <2>6, <2>8, RoomForOne DEF Promise!Begin
  <2>10. QED
    BY <2>9 DEF Promise!Next
<1>4. QED
  BY <1>2, <1>3, TurnEnds

LEMMA RunTaskPromise ==
  ASSUME OrderInv, NEW t \in Threads, RunTask(t)
  PROVE  UNCHANGED Promise!vars
<1>1. TypeOK /\ ThreadsInOrder /\ private \in [Threads -> Seq(Ops)] /\ ready \subseteq Ops
  BY DEF OrderInv, TypeOK, Ops
<1>2. PICK found \in SetToSeqs(ready) : private' = [private EXCEPT ![t] = found]
  BY DEF RunTask
<1>3. found \in Seq(ready) /\ Range(found) = ready
  BY <1>1, OpsFinite, SetToSeqsOnce
<1>4. found \in Seq(Ops)
  BY <1>1, <1>3, SeqMonotonic
<1>5. /\ pc[t] = "task" /\ ready' = {}
      /\ UNCHANGED <<queue, stopped, waiting, begun, running, posting>>
  BY DEF RunTask, queueVars
<1>6. private'[t] = found /\ \A u \in Threads \ {t} : Held(u)' = Held(u)
  BY <1>1, <1>2, HeldUnchanged
<1>7. Held(t)' = ready
  BY <1>3, <1>4, <1>6, HeldNext
<1>8. Held(t) = {}
  BY <1>1, <1>5, QueuedRange DEF ThreadsInOrder
<1>9. Queued' = Queued
  BY <1>5 DEF Queued
<1>10. Pending' = Pending
  BY <1>5, <1>6, <1>7, <1>8, <1>9 DEF Pending, Private
<1>11. Life' = Life
  BY <1>5, <1>10, SameLife DEF Waits
<1>12. QED
  BY <1>5, <1>11 DEF Promise!vars

LEMMA FinishHandlerPromise ==
  ASSUME OrderInv, NEW t \in Threads, FinishHandler(t)
  PROVE  Promise!Next
<1>1. /\ running \in [Threads -> Ops \cup {None}] /\ begun \in [Ops -> Nat]
      /\ ThreadsInOrder /\ OnePlace
  BY DEF OrderInv, TypeOK
<1>2. /\ pc[t] = "handler" /\ running' = [running EXCEPT ![t] = None]
      /\ UNCHANGED <<queue, stopped, waiting, ready, begun, private, posting>>
  BY DEF FinishHandler, reactorVars
<1>3. PICK o \in Ops : running[t] = o
  BY <1>1, <1>2 DEF ThreadsInOrder
<1>4. begun[o] = 1 /\ \A u \in Threads \ {t} : running[u] # o
  BY <1>1, <1>3, SchedulerAssumption DEF OnePlace
<1>5. /\ running'[t] = None /\ \A u \in Threads \ {t} : running'[u] = running[u]
      /\ None \notin Ops
  BY <1>1, <1>2, SchedulerAssumption
<1>6. Runs(o) /\ ~Runs(o)' /\ begun'[o] > 0
  BY <1>2, <1>3, <1>4, <1>5 DEF Runs
<1>7. \A p \in Ops \ {o} : Runs(p)' <=> Runs(p)
  BY <1>3, <1>5 DEF Runs
<1>8. Queued' = Queued /\ \A u \in Threads : Held(u)' = Held(u)
  BY <1>2 DEF Queued, Held
<1>9. Private' = Private
  BY <1>8 DEF Private
<1>10. \A p \in Ops : Waits(p)' <=> Waits(p)
  BY <1>2, <1>8, <1>9 DEF Waits, Pending
<1>11. Life[o] = "running" /\ Life'[o] = "done"
  BY <1>6, LifeIs, LifeIsNext DEF Stage
<1>12. \A p \in Ops \ {o} : Life'[p] = Life[p]
  BY <1>2, <1>7, <1>10, LifeIs, LifeIsNext DEF Stage
<1>13. Life' = [Life EXCEPT ![o] = "done"]
  BY <1>11, <1>12, LifeFunction
<1>14. Promise!End(o)
  BY <1>2, <1>11, <1>13 DEF Promise!End
<1>15. QED
  BY <1>14 DEF Promise!Next

(* What callers do: an operation is started, or one that was goes elsewhere. *)
LEMMA PostPromise ==
  ASSUME OrderInv, NEW c \in Callers, NEW o \in Posted, Post(c, o)
  PROVE  Promise!Next
<1>1. posting \in [Callers -> Ops \cup {None}] /\ o \in Ops /\ None \notin Ops
  BY SchedulerAssumption DEF OrderInv, TypeOK, Ops
<1>2. /\ posting[c] = None /\ o \notin Started
      /\ posting' = [posting EXCEPT ![c] = o]
      /\ UNCHANGED <<queue, stopped, waiting, ready, begun, running, private>>
  BY DEF Post, Free, reactorVars
<1>3. posting'[c] = o /\ \A d \in Callers \ {c} : posting'[d] = posting[d]
  BY <1>1, <1>2
<1>4. Pending' = Pending
  BY <1>2 DEF Pending, Queued, Private, Held
<1>5. Waits(o)'
  BY <1>3 DEF Waits
<1>6. \A p \in Ops \ {o} : Waits(p)' <=> Waits(p)
  BY <1>1, <1>2, <1>3, <1>4 DEF Waits
<1>7. QED
  BY <1>1, <1>2, <1>5, <1>6, Submits

LEMMA PushPromise ==
  ASSUME OrderInv, NEW c \in Callers, Push(c)
  PROVE  UNCHANGED Promise!vars
<1>1. /\ posting \in [Callers -> Ops \cup {None}] /\ None \notin Ops /\ OnePlace
  BY SchedulerAssumption DEF OrderInv, TypeOK
<1>2. PICK o \in Ops : posting[c] = o
  BY <1>1 DEF Push
<1>3. /\ queue' = Append(queue, o) /\ posting' = [posting EXCEPT ![c] = None]
      /\ UNCHANGED <<stopped, waiting, ready, begun, running, private>>
  BY <1>2 DEF Push
<1>4. posting'[c] = None /\ \A d \in Callers \ {c} : posting'[d] = posting[d]
  BY <1>1, <1>3
<1>5. o \notin Queued
  BY <1>1, <1>2 DEF OnePlace, Pending
<1>6. Queued' = Queued \cup {o}
  BY <1>3, <1>5, QueueGains
<1>7. Private' = Private
  BY <1>3 DEF Private, Held
<1>8. Pending' = Pending \cup {o}
  BY <1>3, <1>6, <1>7 DEF Pending
<1>9. \A p \in Ops : Waits(p)' <=> Waits(p)
  BY <1>1, <1>2, <1>4, <1>8 DEF Waits
<1>10. QED
  BY <1>3, <1>9, SameLife DEF Promise!vars

LEMMA PostContinuationPromise ==
  ASSUME OrderInv, NEW t \in Threads, NEW o \in Posted, PostContinuation(t, o)
  PROVE  Promise!Next
<1>1. TypeOK /\ private \in [Threads -> Seq(Ops)] /\ o \in Ops /\ OnePlace
  BY DEF OrderInv, TypeOK, Ops
<1>2. /\ o \notin Started
      /\ private' = [private EXCEPT ![t] = Append(@, o)]
      /\ UNCHANGED <<queue, stopped, waiting, ready, begun, running, posting>>
  BY DEF PostContinuation, queueVars, reactorVars
<1>3. o \notin Held(t)
  BY <1>1, <1>2, Fresh DEF Pending, Private
<1>4. /\ Append(private[t], o) \in Seq(Ops)
      /\ Range(Append(private[t], o)) = Held(t) \cup {o}
  BY <1>1, <1>3, QueuedRange, AppendOnce DEF OnePlace
<1>5. /\ private'[t] = Append(private[t], o)
      /\ \A u \in Threads \ {t} : Held(u)' = Held(u)
  BY <1>1, <1>2, HeldUnchanged
<1>6. Held(t)' = Held(t) \cup {o}
  BY <1>4, <1>5, HeldNext
<1>7. Queued' = Queued /\ Private' = Private \cup {o}
  BY <1>2, <1>5, <1>6 DEF Queued, Private
<1>8. Pending' = Pending \cup {o}
  BY <1>2, <1>7 DEF Pending
<1>9. Waits(o)' /\ \A p \in Ops \ {o} : Waits(p)' <=> Waits(p)
  BY <1>2, <1>8 DEF Waits
<1>10. QED
  BY <1>1, <1>2, <1>9, Submits

LEMMA StartIoPromise ==
  ASSUME OrderInv, NEW c \in Callers, NEW o \in Io, StartIo(c, o)
  PROVE  Promise!Next
<1>1. /\ o \in Ops /\ o \notin Started /\ waiting' = waiting \cup {o}
      /\ UNCHANGED <<queue, stopped, ready, begun, running, private, posting>>
  BY DEF StartIo, threadVars, Ops
<1>2. Queued' = Queued /\ Private' = Private
  BY <1>1 DEF Queued, Private, Held
<1>3. Pending' = Pending \cup {o}
  BY <1>1, <1>2 DEF Pending
<1>4. Waits(o)' /\ \A p \in Ops \ {o} : Waits(p)' <=> Waits(p)
  BY <1>1, <1>3 DEF Waits
<1>5. QED
  BY <1>1, <1>4, Submits

LEMMA CancelPromise ==
  ASSUME OrderInv, NEW c \in Callers, NEW o \in Io, Cancel(c, o)
  PROVE  UNCHANGED Promise!vars
<1>1. /\ o \in Ops /\ o \in waiting /\ waiting' = waiting \ {o}
      /\ queue' = Append(queue, o)
      /\ UNCHANGED <<stopped, ready, begun, running, private, posting>>
  BY DEF Cancel, Ops
<1>2. o \notin Queued
  BY <1>1 DEF OrderInv, OnePlace
<1>3. Queued' = Queued \cup {o}
  BY <1>1, <1>2, QueueGains
<1>4. Private' = Private
  BY <1>1 DEF Private, Held
<1>5. Pending' = Pending
  BY <1>1, <1>3, <1>4 DEF Pending
<1>6. QED
  BY <1>1, <1>5, SameLife DEF Promise!vars, Waits

LEMMA BecomesReadyPromise ==
  ASSUME NEW o \in Io, BecomesReady(o)
  PROVE  UNCHANGED Promise!vars
<1>1. /\ o \in waiting /\ waiting' = waiting \ {o} /\ ready' = ready \cup {o}
      /\ UNCHANGED <<queue, stopped, begun, running, private, posting>>
  BY DEF BecomesReady, queueVars, threadVars
<1>2. Queued' = Queued /\ Private' = Private
  BY <1>1 DEF Queued, Private, Held
<1>3. Pending' = Pending
  BY <1>1, <1>2 DEF Pending
<1>4. QED
  BY <1>1, <1>3, SameLife DEF Promise!vars, Waits

LEMMA InitKeepsPromise == Init => Promise!Init
<1> SUFFICES ASSUME Init PROVE Promise!Init
  OBVIOUS
<1>1. TypeOK
  BY InitOrder DEF OrderInv
<1>2. /\ queue = <<Task>> /\ waiting = {} /\ ready = {} /\ stopped = FALSE
      /\ \A t \in Threads : running[t] = None /\ private[t] = <<>>
      /\ \A c \in Callers : posting[c] = None
      /\ \A o \in Ops : begun[o] = 0
  BY DEF Init
<1>3. Queued = {} /\ Private = {}
  BY <1>1, <1>2, SingleOnce, QueuedRange, SchedulerAssumption DEF Queued, Private
<1>4. \A o \in Ops : ~Runs(o) /\ ~(begun[o] > 0) /\ ~Waits(o)
  BY <1>2, <1>3, SchedulerAssumption DEF Runs, Waits, Pending
<1>5. \A o \in Ops : Life[o] = "new"
  BY <1>4, LifeIs DEF Stage
<1>6. Life = [o \in Ops |-> "new"]
  BY <1>5, LifeFunction
<1>7. QED
  BY <1>2, <1>6 DEF Promise!Init

LEMMA NextKeepsPromise == OrderInv /\ [Next]_vars => [Promise!Next]_(Promise!vars)
<1> SUFFICES ASSUME OrderInv, [Next]_vars
             PROVE  Promise!Next \/ UNCHANGED Promise!vars
  OBVIOUS
<1>1. ASSUME NEW t \in Threads, TakesTurn(t)
      PROVE  Promise!Next \/ UNCHANGED Promise!vars
  BY <1>1, TurnPromise DEF TakesTurn
<1>2. ASSUME NEW t \in Threads, Proceed(t) \/ SpuriousWakeup(t)
      PROVE  Promise!Next \/ UNCHANGED Promise!vars
  <2>1. CASE Enter(t) \/ SpuriousWakeup(t)
    <3>1. stopped' = stopped
      BY <2>1 DEF Enter, SpuriousWakeup, queueVars
    <3>2. QED
      BY <2>1, <3>1, EnterMoves, SpuriousWakeupMoves, MovesPromise
  <2>2. CASE Loop(t) \/ TaskCleanup(t)
    BY <1>1, <2>2, LoopTurn, TaskCleanupTurn
  <2>3. CASE Woken(t)
    <3>1. CASE signalled
      BY <1>1, <2>3, <3>1, WokenTurn
    <3>2. CASE ~signalled
      <4>1. stopped' = stopped
        BY <2>3 DEF Woken
      <4>2. QED
        BY <2>3, <3>2, <4>1, WokenInVainMoves, MovesPromise
    <3>3. QED
      BY <3>1, <3>2
  <2>4. CASE RunTask(t) \/ FinishHandler(t)
    BY <2>4, RunTaskPromise, FinishHandlerPromise
  <2>5. CASE StopSelf(t)
    <3>1. stopped' = TRUE
      BY <2>5 DEF StopSelf, StopAll
    <3>2. QED
      BY <2>5, <3>1, StopSelfMoves, MovesPromise
  <2>6. QED
    BY <1>2, <2>1, <2>2, <2>3, <2>4, <2>5 DEF Proceed
<1>3. ASSUME NEW t \in Threads, NEW o \in Posted, PostContinuation(t, o)
      PROVE  Promise!Next \/ UNCHANGED Promise!vars
  BY <1>3, PostContinuationPromise
<1>4. ASSUME NEW c \in Callers, Signal(c)
      PROVE  Promise!Next \/ UNCHANGED Promise!vars
  <2>1. stopped' = stopped
    BY <1>4 DEF Signal, queueVars
  <2>2. QED
    BY <1>4, <2>1, SignalMoves, MovesPromise
<1>5. ASSUME NEW c \in Callers,
             \/ Push(c)
             \/ \E o \in Posted : Post(c, o)
             \/ \E o \in Io : StartIo(c, o) \/ Cancel(c, o)
      PROVE  Promise!Next \/ UNCHANGED Promise!vars
  BY <1>5, PushPromise, PostPromise, StartIoPromise, CancelPromise
<1>6. ASSUME NEW c \in Outsiders, Stop(c)
      PROVE  Promise!Next \/ UNCHANGED Promise!vars
  <2>1. stopped' = TRUE /\ c \in Callers
    BY <1>6 DEF Stop, StopAll, Callers
  <2>2. QED
    BY <1>6, <2>1, StopMoves, MovesPromise
<1>7. ASSUME NEW o \in Io, BecomesReady(o)
      PROVE  Promise!Next \/ UNCHANGED Promise!vars
  BY <1>7, BecomesReadyPromise
<1>8. CASE UNCHANGED vars
  <2>1. stopped' = stopped
    BY <1>8 DEF vars, queueVars
  <2>2. QED
    BY <1>8, <2>1, StutterMoves, MovesPromise
<1>9. QED
  BY <1>2, <1>3, <1>4, <1>5, <1>6, <1>7, <1>8 DEF Next

(***************************************************************************)
(* scheduler.ipp: run() keeps the promise of Executor: each started        *)
(* operation has its handler run once, never more at a time than there are *)
(* threads, and none begins after stop().                                  *)
(***************************************************************************)
THEOREM SchedulerKeepsPromise == Spec => KeepsPromise
<1>1. Init => Promise!Init
  BY InitKeepsPromise
<1>2. OrderInv /\ [Next]_vars => [Promise!Next]_(Promise!vars)
  BY NextKeepsPromise
<1>3. QED
  BY <1>1, <1>2, OrderKept, PTL DEF Spec, KeepsPromise, Promise!Spec
==============================================================================
