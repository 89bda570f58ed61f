---------------------------- MODULE UdpProxyProofs ----------------------------
(***************************************************************************)
(* Proofs about UdpProxy, for any number of ports, any clients, sizes,     *)
(* limits and failures.  What is shown of AsioUdp and IpLimiter is used    *)
(* here through instances of the modules with their proofs; the first two  *)
(* lemmas say that these instances are the ones the proxy is made of.      *)
(***************************************************************************)
EXTENDS UdpProxy, Functions, SequenceTheorems, FiniteSetTheorems, TLAPS

Asio == INSTANCE AsioUdpProofs WITH
          Handlers <- {"outer", "inner", "sent"},
          MaxSends <- PortCount * MaxArrivals
Lim == INSTANCE IpLimiterProofs WITH Ips <- Senders, NoPacket <- None

LEMMA SameAsio ==
  /\ Io!vars = Asio!vars /\ Io!vars' = Asio!vars'
  /\ Io!TypeOK <=> Asio!TypeOK
  /\ Io!TypeOK' <=> Asio!TypeOK'
  /\ Io!Init <=> Asio!Init
  /\ \A p, src, size : Io!Deliver(p, src, size) <=> Asio!Deliver(p, src, size)
  /\ \A p : Io!Block(p) <=> Asio!Block(p)
  /\ \A p : Io!Drain(p) <=> Asio!Drain(p)
  /\ \A p : Io!OpenSocket(p) <=> Asio!OpenSocket(p)
  /\ \A p, h : Io!AsyncReceive(p, h) <=> Asio!AsyncReceive(p, h)
  /\ \A p, h, i, n : Io!AsyncSend(p, h, i, n) <=> Asio!AsyncSend(p, h, i, n)
  /\ Io!StartRun <=> Asio!StartRun
  /\ Io!RunTask <=> Asio!RunTask
  /\ \A p : Io!RunDescriptor(p) <=> Asio!RunDescriptor(p)
  /\ Io!RunCompletion <=> Asio!RunCompletion
  /\ Io!FinishHandler <=> Asio!FinishHandler
  /\ Io!Next <=> Asio!Next
<1> USE DEF
      Io!ReceiveError, Asio!ReceiveError, Io!Datagram, Asio!Datagram,
      Io!Receive, Asio!Receive, Io!Send, Asio!Send, Io!Completion,
      Asio!Completion, Io!kernelVars, Asio!kernelVars, Io!reactorVars,
      Asio!reactorVars, Io!schedulerVars, Asio!schedulerVars,
      Io!memoryVars, Asio!memoryVars, Io!vars, Asio!vars, Io!Task,
      Asio!Task, Io!Descriptor, Asio!Descriptor, Io!Completed,
      Asio!Completed, Io!QueueItems, Asio!QueueItems, Io!TypeOK,
      Asio!TypeOK, Io!Init, Asio!Init, Io!Readable, Asio!Readable,
      Io!Writable, Asio!Writable, Io!Ready, Asio!Ready, Io!Deliver,
      Asio!Deliver, Io!Block, Asio!Block, Io!Drain, Asio!Drain,
      Io!OpenSocket, Asio!OpenSocket, Io!Head1, Asio!Head1, Io!Failed,
      Asio!Failed, Io!BytesOf, Asio!BytesOf, Io!ReceiveDone,
      Asio!ReceiveDone, Io!PerformReceive, Asio!PerformReceive,
      Io!SendDone, Asio!SendDone, Io!Rejected, Asio!Rejected,
      Io!Packet, Asio!Packet, Io!CallerRuns, Asio!CallerRuns,
      Io!AsyncReceive, Asio!AsyncReceive, Io!SendNow, Asio!SendNow,
      Io!Reregistered, Asio!Reregistered, Io!SendLater,
      Asio!SendLater, Io!AsyncSend, Asio!AsyncSend, Io!StartRun,
      Asio!StartRun, Io!Dispatches, Asio!Dispatches, Io!Requeue,
      Asio!Requeue, Io!Reports, Asio!Reports, Io!RunTask,
      Asio!RunTask, Io!Flushable, Asio!Flushable, Io!Receives,
      Asio!Receives, Io!Done, Asio!Done, Io!Packets, Asio!Packets,
      Io!RunDescriptor, Asio!RunDescriptor, Io!RunCompletion,
      Asio!RunCompletion, Io!FinishHandler, Asio!FinishHandler,
      Io!Cardinality, Asio!Cardinality, Io!SetToSeqs, Asio!SetToSeqs,
      Io!FlattenSeq, Asio!FlattenSeq
<1>1. Io!vars = Asio!vars /\ Io!vars' = Asio!vars'
  OBVIOUS
<1>2. Io!TypeOK <=> Asio!TypeOK
  OBVIOUS
<1>3. Io!TypeOK' <=> Asio!TypeOK'
  OBVIOUS
<1>4. Io!Init <=> Asio!Init
  OBVIOUS
<1>5. \A p, src, size : Io!Deliver(p, src, size) <=> Asio!Deliver(p, src, size)
  OBVIOUS
<1>6. \A p : Io!Block(p) <=> Asio!Block(p)
  OBVIOUS
<1>7. \A p : Io!Drain(p) <=> Asio!Drain(p)
  OBVIOUS
<1>8. \A p : Io!OpenSocket(p) <=> Asio!OpenSocket(p)
  OBVIOUS
<1>9. \A p, h : Io!AsyncReceive(p, h) <=> Asio!AsyncReceive(p, h)
  OBVIOUS
<1>10. \A p, h, i, n : Io!AsyncSend(p, h, i, n) <=> Asio!AsyncSend(p, h, i, n)
  OBVIOUS
<1>11. Io!StartRun <=> Asio!StartRun
  OBVIOUS
<1>12. Io!RunTask <=> Asio!RunTask
  OBVIOUS
<1>13. \A p : Io!RunDescriptor(p) <=> Asio!RunDescriptor(p)
  OBVIOUS
<1>14. Io!RunCompletion <=> Asio!RunCompletion
  OBVIOUS
<1>15. Io!FinishHandler <=> Asio!FinishHandler
  OBVIOUS
<1> HIDE DEF
      Io!ReceiveError, Asio!ReceiveError, Io!Datagram, Asio!Datagram,
      Io!Receive, Asio!Receive, Io!Send, Asio!Send, Io!Completion,
      Asio!Completion, Io!kernelVars, Asio!kernelVars, Io!reactorVars,
      Asio!reactorVars, Io!schedulerVars, Asio!schedulerVars,
      Io!memoryVars, Asio!memoryVars, Io!vars, Asio!vars, Io!Task,
      Asio!Task, Io!Descriptor, Asio!Descriptor, Io!Completed,
      Asio!Completed, Io!QueueItems, Asio!QueueItems, Io!TypeOK,
      Asio!TypeOK, Io!Init, Asio!Init, Io!Readable, Asio!Readable,
      Io!Writable, Asio!Writable, Io!Ready, Asio!Ready, Io!Deliver,
      Asio!Deliver, Io!Block, Asio!Block, Io!Drain, Asio!Drain,
      Io!OpenSocket, Asio!OpenSocket, Io!Head1, Asio!Head1, Io!Failed,
      Asio!Failed, Io!BytesOf, Asio!BytesOf, Io!ReceiveDone,
      Asio!ReceiveDone, Io!PerformReceive, Asio!PerformReceive,
      Io!SendDone, Asio!SendDone, Io!Rejected, Asio!Rejected,
      Io!Packet, Asio!Packet, Io!CallerRuns, Asio!CallerRuns,
      Io!AsyncReceive, Asio!AsyncReceive, Io!SendNow, Asio!SendNow,
      Io!Reregistered, Asio!Reregistered, Io!SendLater,
      Asio!SendLater, Io!AsyncSend, Asio!AsyncSend, Io!StartRun,
      Asio!StartRun, Io!Dispatches, Asio!Dispatches, Io!Requeue,
      Asio!Requeue, Io!Reports, Asio!Reports, Io!RunTask,
      Asio!RunTask, Io!Flushable, Asio!Flushable, Io!Receives,
      Asio!Receives, Io!Done, Asio!Done, Io!Packets, Asio!Packets,
      Io!RunDescriptor, Asio!RunDescriptor, Io!RunCompletion,
      Asio!RunCompletion, Io!FinishHandler, Asio!FinishHandler,
      Io!Cardinality, Asio!Cardinality, Io!SetToSeqs, Asio!SetToSeqs,
      Io!FlattenSeq, Asio!FlattenSeq
<1>16. Io!Kernel <=> Asio!Kernel
  BY <1>5, <1>6, <1>7 DEF Io!Kernel, Asio!Kernel
<1>17. Io!Program <=> Asio!Program
  BY <1>8, <1>9, <1>10 DEF Io!Program, Asio!Program
<1>18. Io!Run <=> Asio!Run
  BY <1>11, <1>12, <1>13, <1>14, <1>15 DEF Io!Run, Asio!Run
<1>19. Io!Next <=> Asio!Next
  BY <1>16, <1>17, <1>18 DEF Io!Next, Asio!Next
<1>20. QED
  BY <1>1, <1>2, <1>3, <1>4, <1>5, <1>6, <1>7, <1>8, <1>9, <1>10, <1>11, <1>12,
     <1>13, <1>14, <1>15, <1>19

LEMMA SameLimiter ==
  /\ Limiter!vars = Lim!vars /\ Limiter!vars' = Lim!vars'
  /\ Limiter!TypeOK <=> Lim!TypeOK
  /\ Limiter!TypeOK' <=> Lim!TypeOK'
  /\ Limiter!Init <=> Lim!Init
  /\ Limiter!Tick <=> Lim!Tick
  /\ \A ip : Limiter!CheckExcluded(ip) <=> Lim!CheckExcluded(ip)
  /\ \A ip : Limiter!CheckAdmits(ip) <=> Lim!CheckAdmits(ip)
  /\ \A ip : Limiter!CheckRefuses(ip) <=> Lim!CheckRefuses(ip)
  /\ Limiter!AddIpConnection <=> Lim!AddIpConnection
  /\ Limiter!Next <=> Lim!Next
<1> USE DEF
      Limiter!vars, Lim!vars, Limiter!Entry, Lim!Entry, Limiter!Check,
      Lim!Check, Limiter!Charge, Lim!Charge, Limiter!TypeOK,
      Lim!TypeOK, Limiter!Expired, Lim!Expired, Limiter!Purge,
      Lim!Purge, Limiter!Blocked, Lim!Blocked, Limiter!Counts,
      Lim!Counts, Limiter!Count, Lim!Count, Limiter!Init, Lim!Init,
      Limiter!Tick, Lim!Tick, Limiter!CheckExcluded,
      Lim!CheckExcluded, Limiter!CheckAdmits, Lim!CheckAdmits,
      Limiter!CheckRefuses, Lim!CheckRefuses, Limiter!AddIpConnection,
      Lim!AddIpConnection, Limiter!Next, Lim!Next, Limiter!Restrict,
      Lim!Restrict
<1>1. Limiter!vars = Lim!vars /\ Limiter!vars' = Lim!vars'
  OBVIOUS
<1>2. Limiter!TypeOK <=> Lim!TypeOK
  OBVIOUS
<1>3. Limiter!TypeOK' <=> Lim!TypeOK'
  OBVIOUS
<1>4. Limiter!Init <=> Lim!Init
  OBVIOUS
<1>5. Limiter!Tick <=> Lim!Tick
  OBVIOUS
<1>6. \A ip : Limiter!CheckExcluded(ip) <=> Lim!CheckExcluded(ip)
  OBVIOUS
<1>7. \A ip : Limiter!CheckAdmits(ip) <=> Lim!CheckAdmits(ip)
  OBVIOUS
<1>8. \A ip : Limiter!CheckRefuses(ip) <=> Lim!CheckRefuses(ip)
  OBVIOUS
<1>9. Limiter!AddIpConnection <=> Lim!AddIpConnection
  OBVIOUS
<1>10. Limiter!Next <=> Lim!Next
  OBVIOUS
<1> HIDE DEF
      Limiter!vars, Lim!vars, Limiter!Entry, Lim!Entry, Limiter!Check,
      Lim!Check, Limiter!Charge, Lim!Charge, Limiter!TypeOK,
      Lim!TypeOK, Limiter!Expired, Lim!Expired, Limiter!Purge,
      Lim!Purge, Limiter!Blocked, Lim!Blocked, Limiter!Counts,
      Lim!Counts, Limiter!Count, Lim!Count, Limiter!Init, Lim!Init,
      Limiter!Tick, Lim!Tick, Limiter!CheckExcluded,
      Lim!CheckExcluded, Limiter!CheckAdmits, Lim!CheckAdmits,
      Limiter!CheckRefuses, Lim!CheckRefuses, Limiter!AddIpConnection,
      Lim!AddIpConnection, Limiter!Next, Lim!Next, Limiter!Restrict,
      Lim!Restrict
<1>11. QED
  BY <1>1, <1>2, <1>3, <1>4, <1>5, <1>6, <1>7, <1>8, <1>9, <1>10

------------------------------------------------------------------------------
(* What is assumed of the constants of asio and of the limiter holds here. *)
LEMMA PortsFinite ==
  /\ IsFiniteSet(Ports) /\ Cardinality(Ports) = PortCount
  /\ PortCount \in Nat
<1>1. PortCount \in Nat
  BY UdpProxyAssumption
<1>2. IsFiniteSet(1..PortCount) /\ Cardinality(1..PortCount) = PortCount
  BY <1>1, FS_Interval
<1>3. QED
  BY <1>1, <1>2 DEF Ports

LEMMA AsioAssumed ==
  /\ Asio!IsFiniteSet(Ports)
  /\ Sizes \subseteq Nat \cup {Asio!ReceiveError}
  /\ BufferSize \in Nat \ {0}
  /\ SendsMayFail \in BOOLEAN
  /\ EventsPerWait \in Nat \ {0}
  /\ MaxArrivals \in Nat
  /\ MaxBlocks \in Nat
  /\ PortCount * MaxArrivals \in Nat
  /\ None \notin Ports \cup Senders
  /\ None \notin Asio!Receive
  /\ None \notin Asio!Completion
<1>1. Asio!IsFiniteSet(Ports)
  BY PortsFinite DEF IsFiniteSet, Asio!IsFiniteSet
<1>2. PortCount * MaxArrivals \in Nat
  BY UdpProxyAssumption
<1>3. Sizes \subseteq Nat \cup {Asio!ReceiveError}
  BY UdpProxyAssumption DEF Io!ReceiveError, Asio!ReceiveError
<1>4. None \notin Asio!Receive /\ None \notin Asio!Completion
  BY UdpProxyAssumption DEF Io!Receive, Asio!Receive, Io!Completion, Asio!Completion
<1>5. QED
  BY <1>1, <1>2, <1>3, <1>4, UdpProxyAssumption

LEMMA LimiterAssumed ==
  /\ ExcludedIps \subseteq Senders
  /\ MaxConnections \in Int
  /\ BlockDurationSeconds \in Nat
  /\ TicksPerSecond \in Nat \ {0}
  /\ MaxTime \in Nat
  /\ None \notin [ip : Senders, seen : Nat]
BY UdpProxyAssumption DEF Limiter!Check

LEMMA EventStep ==
  ASSUME Asio!EventInv, [Asio!Next]_(Asio!vars) PROVE Asio!EventInv'
BY AsioAssumed, Asio!EventStep

LEMMA LimiterStep ==
  ASSUME Lim!LimiterInv, [Lim!Next]_(Lim!vars) PROVE Lim!LimiterInv'
BY LimiterAssumed, Lim!NextKeepsInv

------------------------------------------------------------------------------
(***************************************************************************)
(* Completions of receives in a queue that is cut at its head and to which *)
(* others are appended.                                                    *)
(***************************************************************************)
LEMMA ReceiveTail ==
  ASSUME NEW S, NEW q \in Seq(S), q # <<>>, NEW p
  PROVE  /\ NoReceive(q, p) => ~Receives(Head(q), p) /\ NoReceive(Tail(q), p)
         /\ \A k : OneReceive(q, p, k) =>
              IF Receives(Head(q), p)
              THEN Head(q).op.index = k /\ NoReceive(Tail(q), p)
              ELSE OneReceive(Tail(q), p, k)
<1>1. PICK t : t = Tail(q)
  OBVIOUS
<1>2. /\ Head(q) = q[1] /\ Len(q) \in Nat \ {0} /\ DOMAIN q = 1..Len(q)
      /\ t \in Seq(S) /\ Len(t) = Len(q) - 1
      /\ \A i \in 1..Len(t) : t[i] = q[i + 1]
  BY <1>1, LenProperties, EmptySeq, HeadTailProperties
<1>3. /\ DOMAIN t = 1..(Len(q) - 1) /\ 1 \in DOMAIN q
      /\ \A i \in DOMAIN t : i + 1 \in DOMAIN q /\ i + 1 # 1 /\ t[i] = q[i + 1]
      /\ \A i \in DOMAIN q : i # 1 => i - 1 \in DOMAIN t /\ t[i - 1] = q[i]
  <2>1. DOMAIN t = 1..(Len(q) - 1) /\ Len(q) - 1 \in Nat
    BY <1>2, LenProperties
  <2>2. \A i \in DOMAIN t : i + 1 \in DOMAIN q /\ i + 1 # 1 /\ t[i] = q[i + 1]
    BY <1>2, <2>1
  <2>3. ASSUME NEW i \in DOMAIN q, i # 1 PROVE i - 1 \in DOMAIN t /\ t[i - 1] = q[i]
    <3>1. i - 1 \in DOMAIN t /\ (i - 1) + 1 = i
      BY <1>2, <2>1, <2>3
    <3>2. QED
      BY <2>2, <3>1
  <2>4. QED
    BY <1>2, <2>1, <2>2, <2>3
<1>4. NoReceive(q, p) => ~Receives(Head(q), p) /\ NoReceive(t, p)
  BY <1>2, <1>3 DEF NoReceive
<1>5. ASSUME NEW k, OneReceive(q, p, k)
      PROVE  IF Receives(Head(q), p)
             THEN Head(q).op.index = k /\ NoReceive(t, p)
             ELSE OneReceive(t, p, k)
  <2>1. PICK i \in DOMAIN q : /\ Receives(q[i], p) /\ q[i].op.index = k
                              /\ \A j \in DOMAIN q : Receives(q[j], p) => j = i
    BY <1>5 DEF OneReceive
  <2>2. CASE i = 1
    <3>1. Receives(Head(q), p) /\ Head(q).op.index = k
      BY <1>2, <2>1, <2>2
    <3>2. \A j \in DOMAIN t : ~Receives(t[j], p)
      BY <1>3, <2>1, <2>2
    <3>3. QED
      BY <3>1, <3>2 DEF NoReceive
  <2>3. CASE i # 1
    <3>1. ~Receives(Head(q), p)
      BY <1>2, <1>3, <2>1, <2>3
    <3>2. i - 1 \in DOMAIN t /\ Receives(t[i - 1], p) /\ t[i - 1].op.index = k
      BY <1>3, <2>1, <2>3
    <3>3. ASSUME NEW j \in DOMAIN t, Receives(t[j], p) PROVE j = i - 1
      <4>1. j + 1 \in DOMAIN q /\ Receives(q[j + 1], p)
        BY <1>3, <3>3
      <4>2. j + 1 = i /\ j \in Int
        BY <1>2, <1>3, <2>1, <4>1
      <4>3. QED
        BY <4>2
    <3>4. QED
      BY <3>1, <3>2, <3>3 DEF OneReceive
  <2>4. QED
    BY <2>2, <2>3
<1>6. QED
  BY <1>1, <1>4, <1>5

LEMMA ReceiveConcat ==
  ASSUME NEW S, NEW q \in Seq(S), NEW r \in Seq(S), NEW p
  PROVE  /\ NoReceive(q, p) /\ NoReceive(r, p) => NoReceive(q \o r, p)
         /\ \A k : OneReceive(q, p, k) /\ NoReceive(r, p) => OneReceive(q \o r, p, k)
         /\ \A k : NoReceive(q, p) /\ OneReceive(r, p, k) => OneReceive(q \o r, p, k)
<1>1. PICK c : c = q \o r
  OBVIOUS
<1>2. PICK m \in Nat, n \in Nat : m = Len(q) /\ n = Len(r)
  BY LenProperties
<1>3. /\ DOMAIN q = 1..m /\ DOMAIN r = 1..n /\ DOMAIN c = 1..(m + n)
      /\ \A i \in 1..(m + n) : c[i] = IF i <= m THEN q[i] ELSE r[i - m]
  <2>1. /\ q \o r \in Seq(S) /\ Len(q \o r) = Len(q) + Len(r)
        /\ \A i \in 1..(Len(q) + Len(r)) :
             (q \o r)[i] = IF i <= Len(q) THEN q[i] ELSE r[i - Len(q)]
    BY ConcatProperties
  <2>2. DOMAIN q = 1..Len(q) /\ DOMAIN r = 1..Len(r) /\ DOMAIN c = 1..Len(c)
    BY <1>1, <2>1, LenProperties
  <2>3. QED
    BY <1>1, <1>2, <2>1, <2>2
<1>4. /\ \A i \in DOMAIN q : i \in DOMAIN c /\ c[i] = q[i]
      /\ \A i \in DOMAIN r : i + m \in DOMAIN c /\ c[i + m] = r[i]
  <2>1. \A i \in DOMAIN r : i + m \in 1..(m + n) /\ ~(i + m <= m) /\ (i + m) - m = i
    BY <1>3
  <2>2. QED
    BY <1>3, <2>1
<1>5. \A i \in DOMAIN c : \/ i \in DOMAIN q /\ c[i] = q[i]
                          \/ i - m \in DOMAIN r /\ c[i] = r[i - m]
  BY <1>3
<1>6. NoReceive(q, p) /\ NoReceive(r, p) => NoReceive(c, p)
  BY <1>5 DEF NoReceive
<1>7. ASSUME NEW k, OneReceive(q, p, k), NoReceive(r, p) PROVE OneReceive(c, p, k)
  <2>1. PICK i \in DOMAIN q : /\ Receives(q[i], p) /\ q[i].op.index = k
                              /\ \A j \in DOMAIN q : Receives(q[j], p) => j = i
    BY <1>7 DEF OneReceive
  <2>2. i \in DOMAIN c /\ Receives(c[i], p) /\ c[i].op.index = k
    BY <1>4, <2>1
  <2>3. \A j \in DOMAIN c : Receives(c[j], p) => j = i
    BY <1>5, <1>7, <2>1 DEF NoReceive
  <2>4. QED
    BY <2>2, <2>3 DEF OneReceive
<1>8. ASSUME NEW k, NoReceive(q, p), OneReceive(r, p, k) PROVE OneReceive(c, p, k)
  <2>1. PICK i \in DOMAIN r : /\ Receives(r[i], p) /\ r[i].op.index = k
                              /\ \A j \in DOMAIN r : Receives(r[j], p) => j = i
    BY <1>8 DEF OneReceive
  <2>2. i + m \in DOMAIN c /\ Receives(c[i + m], p) /\ c[i + m].op.index = k
    BY <1>4, <2>1
  <2>3. ASSUME NEW j \in DOMAIN c, Receives(c[j], p) PROVE j = i + m
    <3>1. j - m \in DOMAIN r /\ c[j] = r[j - m]
      BY <1>5, <1>8, <2>3 DEF NoReceive
    <3>2. j - m = i /\ j \in Int
      BY <1>3, <2>1, <2>3, <3>1
    <3>3. QED
      BY <3>2
  <2>4. QED
    BY <2>2, <2>3 DEF OneReceive
<1>9. QED
  BY <1>1, <1>6, <1>7, <1>8

LEMMA ReceiveAppend ==
  ASSUME NEW S, NEW q \in Seq(S), NEW x \in S, NEW p
  PROVE  /\ Append(q, x) \in Seq(S)
         /\ ~Receives(x, p) =>
              /\ NoReceive(q, p) => NoReceive(Append(q, x), p)
              /\ \A k : OneReceive(q, p, k) => OneReceive(Append(q, x), p, k)
         /\ Receives(x, p) /\ NoReceive(q, p) => OneReceive(Append(q, x), p, x.op.index)
<1>1. PICK r : r = <<x>>
  OBVIOUS
<1>2. r \in Seq(S) /\ DOMAIN r = {1} /\ r[1] = x
  <2>1. r \in Seq(S) /\ Len(r) = 1 /\ r[1] = x
    BY <1>1
  <2>2. DOMAIN r = 1..1
    BY <2>1, LenProperties
  <2>3. QED
    BY <2>1, <2>2
<1>3. Append(q, x) = q \o r /\ q \o r \in Seq(S)
  BY <1>1, <1>2, AppendIsConcat, ConcatProperties
<1>4. ~Receives(x, p) => NoReceive(r, p)
  BY <1>2 DEF NoReceive
<1>5. Receives(x, p) => OneReceive(r, p, x.op.index)
  BY <1>2 DEF OneReceive
<1>6. QED
  BY <1>2, <1>3, <1>4, <1>5, ReceiveConcat

------------------------------------------------------------------------------
(***************************************************************************)
(* The inductive invariant: those of asio and of the limiter, and the      *)
(* proxy's own.                                                            *)
(***************************************************************************)
OwnTypes ==
  /\ main \in {"opening", "arming", "joined", "returned", "failed"}
  /\ next \in 1..(PortCount + 1)
  /\ step \in {"none", "check", "charge", "send", "rearm", "return"}
  /\ handled \in [Ports -> Seq(Nat)]
  /\ attributed \subseteq Attribution

OwnInv ==
  /\ OwnTypes
  /\ PhasesInOrder
  /\ StepsAgree
  /\ OwnHandlers
  /\ EndpointKnown
  /\ OneReceiveEach
  /\ SendsBounded
  /\ HandledInOrderOnce

AllInv == Asio!EventInv /\ Lim!LimiterInv /\ OwnInv

(* The variables of asio this module reasons about, with their types. *)
IoTypes ==
  /\ open \subseteq Ports
  /\ arrivals \in [Ports -> Seq([src : Senders, size : Sizes])]
  /\ taken \in [Ports -> Nat]
  /\ readOp \in [Ports -> Asio!Receive \cup {None}]
  /\ writeOps \in [Ports -> Seq(Asio!Send)]
  /\ ioq \in Seq(Asio!QueueItems)
  /\ ioState \in {"idle", "running", "stopped"}
  /\ running \in Asio!Completion \cup {None}
  /\ endpoint \in Senders \cup {None}
  /\ sends \in Nat

LEMMA IoTyped == AllInv => IoTypes /\ ioq # <<>>
<1>1. AllInv => IoTypes /\ Asio!InTurn(ioq)
  BY DEF AllInv, Asio!EventInv, Asio!AsioInv, Asio!TypeOK, IoTypes
<1>2. AllInv => ioq \in Seq(Asio!QueueItems)
  BY <1>1 DEF IoTypes
<1>3. AllInv => ioq # <<>>
  BY <1>1, <1>2, AsioAssumed, Asio!TurnNotEmpty
<1>4. QED
  BY <1>1, <1>3

LEMMA RunningTyped ==
  ASSUME AllInv, running # None
  PROVE  /\ running \in Asio!Completion
         /\ running.port \in Ports /\ running.handler \in {"outer", "inner", "sent"}
         /\ running.index \in Nat /\ running.bytes \in 0..BufferSize
         /\ running.failed \in BOOLEAN
BY IoTyped DEF IoTypes, Asio!Completion

(***************************************************************************)
(* Counting what was handled.                                              *)
(***************************************************************************)
LEMMA SameSets ==
  \A S : (Asio!IsFiniteSet(S) <=> IsFiniteSet(S)) /\ Asio!Cardinality(S) = Cardinality(S)
BY DEF IsFiniteSet, Asio!IsFiniteSet, Cardinality, Asio!Cardinality

LEMMA SlotsAreRows == \A w : Asio!Waiting(w) = UNION {{p} \X DOMAIN w[p] : p \in Ports}
BY DEF Asio!Waiting

LEMMA SlotsFinite ==
  ASSUME NEW w \in [Ports -> Seq(Nat)]
  PROVE  IsFiniteSet(Asio!Waiting(w)) /\ Cardinality(Asio!Waiting(w)) \in Nat
<1>1. ASSUME NEW p \in Ports PROVE Asio!IsFiniteSet(DOMAIN w[p])
  <2>1. DOMAIN w[p] = 1..Len(w[p]) /\ Len(w[p]) \in Nat
    BY LenProperties
  <2>2. IsFiniteSet(DOMAIN w[p])
    BY <2>1, FS_Interval
  <2>3. QED
    BY <2>2, SameSets
<1>2. Asio!IsFiniteSet(Asio!Waiting(w)) /\ Asio!Cardinality(Asio!Waiting(w)) \in Nat
  BY <1>1, AsioAssumed, Asio!RowsFinite
<1>3. QED
  BY <1>2, SameSets

LEMMA SlotsGrow ==
  ASSUME NEW w \in [Ports -> Seq(Nat)], NEW p \in Ports, NEW x \in Nat
  PROVE  Cardinality(Asio!Waiting([w EXCEPT ![p] = Append(@, x)]))
           = Cardinality(Asio!Waiting(w)) + 1
<1>1. PICK v : v = [w EXCEPT ![p] = Append(@, x)]
  OBVIOUS
<1>2. Len(w[p]) \in Nat /\ DOMAIN w[p] = 1..Len(w[p])
  BY LenProperties
<1>3. DOMAIN v[p] = 1..(Len(w[p]) + 1)
  <2>1. v[p] = Append(w[p], x)
    BY <1>1
  <2>2. QED
    BY <2>1, AppendProperties
<1>4. \A q \in Ports : q # p => DOMAIN v[q] = DOMAIN w[q]
  BY <1>1
<1>5. Asio!IsFiniteSet(Asio!Waiting(w))
  BY SlotsFinite, SameSets
<1>6. Asio!Cardinality(Asio!Waiting(v)) = Asio!Cardinality(Asio!Waiting(w)) + 1
  BY <1>2, <1>3, <1>4, <1>5, AsioAssumed, Asio!RowGrows
<1>7. QED
  BY <1>1, <1>6, SameSets

(* No more is handled than arrives. *)
LEMMA SlotsBounded ==
  ASSUME NEW w \in [Ports -> Seq(Nat)], \A p \in Ports : Len(w[p]) <= MaxArrivals
  PROVE  Cardinality(Asio!Waiting(w)) <= PortCount * MaxArrivals
<1> DEFINE all == Ports \X (1..MaxArrivals)
<1>1. MaxArrivals \in Nat
  BY UdpProxyAssumption
<1>2. IsFiniteSet(1..MaxArrivals) /\ Cardinality(1..MaxArrivals) = MaxArrivals
  BY <1>1, FS_Interval
<1>3. IsFiniteSet(all) /\ Cardinality(all) = PortCount * MaxArrivals
  BY <1>2, PortsFinite, FS_Product
<1>4. ASSUME NEW y \in Asio!Waiting(w) PROVE y \in all
  <2>1. PICK p \in Ports : y \in {p} \X DOMAIN w[p]
    BY <1>4, SlotsAreRows
  <2>2. DOMAIN w[p] = 1..Len(w[p]) /\ Len(w[p]) \in Nat /\ Len(w[p]) <= MaxArrivals
    BY LenProperties
  <2>3. QED
    BY <1>1, <2>1, <2>2
<1>5. Asio!Waiting(w) \subseteq all
  BY <1>4
<1>6. Cardinality(Asio!Waiting(w)) <= Cardinality(all)
  BY <1>3, <1>5, FS_Subset
<1>7. QED
  BY <1>3, <1>6

(***************************************************************************)
(* Steps that leave the queue, the receives and the sends alone: those of  *)
(* the kernel, of the clock, most of a handler's and of startProxy's.      *)
(***************************************************************************)
LEMMA CalmKeeps ==
  ASSUME AllInv, OwnTypes', PhasesInOrder', StepsAgree',
         UNCHANGED <<taken, readOp, writeOps, ioq, endpoint, sends, handled>>,
         running' = running \/ running' = None,
         step' = "rearm" => step \in {"check", "charge", "send", "rearm"},
         step' \in {"check", "charge", "send"} => step \in {"check", "charge", "send"},
         main' \in {"opening", "arming"} =>
            main \in {"opening", "arming"} /\ next' = next,
         \A p \in Ports : Len(arrivals[p]) <= Len(arrivals'[p])
                          /\ Len(arrivals'[p]) <= MaxArrivals,
         arrivals' \in [Ports -> Seq([src : Senders, size : Sizes])]
  PROVE  OwnInv'
<1>1. OwnInv /\ IoTypes
  BY IoTyped DEF AllInv
<1>2. OwnHandlers'
  BY <1>1 DEF OwnInv, OwnHandlers
<1>3. EndpointKnown'
  BY <1>1 DEF OwnInv, EndpointKnown
<1>4. \A p \in Ports : Handling(p)' => Handling(p)
  BY <1>1 DEF Handling
<1>5. OneReceiveEach'
  BY <1>1, <1>4 DEF OwnInv, OneReceiveEach, NoReceive, OneReceive, Receives
<1>6. SendsBounded'
  <2>1. \A p \in Ports : /\ taken[p] \in Nat /\ Len(arrivals[p]) \in Nat
                         /\ Len(arrivals'[p]) \in Nat
    BY <1>1, LenProperties DEF IoTypes
  <2>2. \A p \in Ports : taken'[p] <= Len(arrivals'[p]) /\ Len(arrivals'[p]) <= MaxArrivals
    BY <1>1, <2>1 DEF OwnInv, SendsBounded
  <2>3. HandledSlots' = HandledSlots
    BY DEF HandledSlots
  <2>4. Cardinality(HandledSlots) \in Nat
    BY <1>1, SlotsFinite, SlotsAreRows DEF OwnInv, OwnTypes, HandledSlots
  <2>5. QED
    BY <1>1, <2>2, <2>3, <2>4 DEF OwnInv, SendsBounded, IoTypes
<1>7. HandledInOrderOnce'
  BY <1>1 DEF OwnInv, HandledInOrderOnce
<1>8. QED
  BY <1>2, <1>3, <1>5, <1>6, <1>7 DEF OwnInv

LEMMA StillKeeps ==
  ASSUME AllInv, OwnTypes', PhasesInOrder', StepsAgree',
         UNCHANGED <<arrivals, taken, readOp, writeOps, ioq, endpoint, sends, handled>>,
         running' = running \/ running' = None,
         step' = "rearm" => step \in {"check", "charge", "send", "rearm"},
         step' \in {"check", "charge", "send"} => step \in {"check", "charge", "send"},
         main' \in {"opening", "arming"} =>
            main \in {"opening", "arming"} /\ next' = next
  PROVE  OwnInv'
<1>1. arrivals' \in [Ports -> Seq([src : Senders, size : Sizes])]
  BY IoTyped DEF IoTypes
<1>2. \A p \in Ports : Len(arrivals[p]) \in Nat /\ Len(arrivals[p]) <= MaxArrivals
  BY IoTyped, LenProperties DEF AllInv, OwnInv, SendsBounded, IoTypes
<1>3. \A p \in Ports : Len(arrivals[p]) <= Len(arrivals'[p])
                       /\ Len(arrivals'[p]) <= MaxArrivals
  BY <1>2
<1>4. QED
  BY <1>1, <1>3, CalmKeeps

(* startProxy. *)
LEMMA OpenPortKeeps ==
  ASSUME AllInv, OpenPort PROVE OwnInv' /\ [Asio!Next]_(Asio!vars)
<1>1. OwnInv /\ IoTypes
  BY IoTyped DEF AllInv
<1>2. /\ main = "opening" /\ next <= PortCount /\ next \in Ports
      /\ next' = next /\ step' = step /\ handled' = handled /\ attributed' = attributed
  BY <1>1, PortsFinite DEF OpenPort, OwnInv, OwnTypes, Ports
<1>3. /\ \/ main' = "arming" /\ Asio!OpenSocket(next)
         \/ main' = "failed" /\ UNCHANGED ioVars
  BY SameAsio DEF OpenPort
<1>4. /\ UNCHANGED <<arrivals, taken, readOp, writeOps, ioq, ioState>>
      /\ UNCHANGED <<running, endpoint, sends>>
      /\ open' = IF main' = "arming" THEN open \cup {next} ELSE open
  BY <1>3 DEF Asio!OpenSocket, Asio!reactorVars, Asio!schedulerVars, Asio!memoryVars, ioVars
<1>5. OwnTypes' /\ StepsAgree'
  BY <1>1, <1>2, <1>3, <1>4 DEF OwnInv, OwnTypes, StepsAgree
<1>6. PhasesInOrder'
  <2>1. open = 1..(next - 1) /\ ioState = "idle" /\ next \in Nat
    BY <1>1, <1>2 DEF OwnInv, PhasesInOrder, OwnTypes
  <2>2. (1..(next - 1)) \cup {next} = 1..next
    BY <1>2, PortsFinite DEF Ports
  <2>3. QED
    BY <1>1, <1>2, <1>3, <1>4, <2>1, <2>2 DEF OwnInv, PhasesInOrder
<1>7. OwnInv'
  BY <1>2, <1>3, <1>4, <1>5, <1>6, StillKeeps
<1>8. [Asio!Next]_(Asio!vars)
  <2>1. CASE UNCHANGED ioVars
    BY <2>1 DEF ioVars, Asio!vars, Asio!kernelVars, Asio!reactorVars,
                Asio!schedulerVars, Asio!memoryVars
  <2>2. CASE Asio!OpenSocket(next)
    BY <1>2, <2>2 DEF Asio!Next, Asio!Program
  <2>3. QED
    BY <1>3, <2>1, <2>2
<1>9. QED
  BY <1>7, <1>8

------------------------------------------------------------------------------
(***************************************************************************)
(* What is taken from a socket, and by whom it is known to have been sent. *)
(***************************************************************************)
LEMMA Taking ==
  ASSUME AllInv, NEW p \in Ports, NEW op \in Asio!Receive, NEW c,
         Asio!Readable(p), Asio!PerformReceive(p), c = Asio!ReceiveDone(p, op)
  PROVE  /\ c \in Asio!Completion
         /\ c.port = p /\ c.handler = op.handler /\ c.index = taken[p] + 1
         /\ taken' = [taken EXCEPT ![p] = @ + 1]
         /\ taken[p] \in Nat /\ Len(arrivals[p]) \in Nat /\ taken[p] < Len(arrivals[p])
         /\ endpoint' = None => endpoint = None /\ c.failed
<1>1. Asio!TypeOK
  BY DEF AllInv, Asio!EventInv, Asio!AsioInv
<1>2. c \in Asio!Completion
  BY <1>1, AsioAssumed, Asio!ReceiveDoneType
<1>3. Asio!Head1(p) \in [src : Senders, size : Sizes]
  BY <1>1, AsioAssumed, Asio!HeadType
<1>4. Asio!Head1(p).src # None
  BY <1>3, UdpProxyAssumption
<1>5. endpoint' = None => endpoint = None /\ Asio!Failed(p)
  BY <1>4 DEF Asio!PerformReceive
<1>6. /\ c.port = p /\ c.handler = op.handler /\ c.index = taken[p] + 1
      /\ c.failed = Asio!Failed(p)
  BY DEF Asio!ReceiveDone
<1>7. taken' = [taken EXCEPT ![p] = @ + 1] /\ taken[p] < Len(arrivals[p])
  BY DEF Asio!PerformReceive, Asio!Readable
<1>8. taken[p] \in Nat /\ Len(arrivals[p]) \in Nat
  BY IoTyped, LenProperties DEF IoTypes
<1>9. QED
  BY <1>2, <1>5, <1>6, <1>7, <1>8

(* Completed(c) among what is queued. *)
LEMMA CompletedReceives ==
  ASSUME NEW c \in Asio!Completion
  PROVE  /\ Asio!Completed(c) \in Asio!QueueItems
         /\ Asio!Completed(c).item = "completion" /\ Asio!Completed(c).op = c
         /\ \A p : Receives(Asio!Completed(c), p) <=> c.port = p /\ c.handler # "sent"
<1>1. /\ Asio!Completed(c) \in Asio!QueueItems
      /\ Asio!Completed(c).item = "completion" /\ Asio!Completed(c).op = c
  BY DEF Asio!Completed, Asio!QueueItems
<1>2. QED
  BY <1>1 DEF Receives

(***************************************************************************)
(* A receive is started on a port that has none: it is queued at once with *)
(* the datagram that is there, or waits.                                   *)
(***************************************************************************)
LEMMA ReceiveKeeps ==
  ASSUME AllInv, OwnTypes', PhasesInOrder', StepsAgree',
         NEW p \in Ports, NEW h \in {"outer", "inner"}, Asio!AsyncReceive(p, h),
         NoReceive(ioq, p), handled' = handled,
         step' \notin {"check", "charge", "send", "rearm"},
         main' \in {"opening", "arming"} =>
            main \in {"opening", "arming"} /\ next = p /\ next' = next + 1
  PROVE  OwnInv'
<1>1. OwnInv /\ IoTypes
  BY IoTyped DEF AllInv
<1>2. PICK op : op = [port |-> p, handler |-> h]
  OBVIOUS
<1>3. op \in Asio!Receive /\ op.handler = h
  BY <1>2 DEF Asio!Receive
<1>4. /\ readOp[p] = None
      /\ UNCHANGED <<arrivals, writeOps, running, sends>>
      /\ \/ /\ Asio!Readable(p) /\ Asio!PerformReceive(p)
            /\ ioq' = Append(ioq, Asio!Completed(Asio!ReceiveDone(p, op)))
            /\ readOp' = readOp
         \/ /\ readOp' = [readOp EXCEPT ![p] = op]
            /\ UNCHANGED <<taken, endpoint, ioq>>
  BY <1>2 DEF Asio!AsyncReceive
<1>5. taken[p] = Len(handled[p])
  BY <1>1 DEF OwnInv, OneReceiveEach, NoReceive, OneReceive
<1>6. \A q : ~Handling(q)'
  BY DEF Handling
<1>7. \A q \in Ports : main' \in {"opening", "arming"} /\ q >= next' =>
                         main \in {"opening", "arming"} /\ q >= next /\ q # p
  BY <1>1, PortsFinite DEF OwnInv, OwnTypes, Ports
<1>8. \A q \in Ports : Len(arrivals[q]) \in Nat /\ taken[q] \in Nat /\ Len(handled[q]) \in Nat
  BY <1>1, LenProperties DEF IoTypes, OwnInv, OwnTypes
<1>9. /\ HandledSlots' = HandledSlots /\ Cardinality(HandledSlots) \in Nat
      /\ sends' <= Cardinality(HandledSlots)'
  <2>1. HandledSlots' = HandledSlots /\ Cardinality(HandledSlots) \in Nat
    BY <1>1, SlotsFinite, SlotsAreRows DEF OwnInv, OwnTypes, HandledSlots
  <2>2. sends <= Cardinality(HandledSlots)
    BY <1>1, <2>1 DEF OwnInv, SendsBounded, IoTypes
  <2>3. QED
    BY <1>4, <2>1, <2>2
<1>10. CASE readOp' = [readOp EXCEPT ![p] = op] /\ UNCHANGED <<taken, endpoint, ioq>>
  <2>1. OwnHandlers'
    BY <1>1, <1>3, <1>4, <1>10 DEF OwnInv, OwnHandlers, IoTypes
  <2>2. EndpointKnown'
    BY <1>1, <1>4, <1>10 DEF OwnInv, EndpointKnown
  <2>3. ASSUME NEW q \in Ports
        PROVE  /\ \/ NoReceive(ioq', q) /\ taken'[q] = Len(handled'[q])
                  \/ /\ OneReceive(ioq', q, taken'[q]) /\ taken'[q] = Len(handled'[q]) + 1
                     /\ readOp'[q] = None /\ ~Handling(q)'
               /\ readOp'[q] # None => ~Handling(q)'
               /\ main' \in {"opening", "arming"} /\ q >= next' => NoReceive(ioq', q)
    <3>1. readOp'[q] = IF q = p THEN op ELSE readOp[q]
      BY <1>1, <1>10 DEF IoTypes
    <3>2. QED
      BY <1>1, <1>5, <1>6, <1>7, <1>10, <3>1 DEF OwnInv, OneReceiveEach
  <2>4. OneReceiveEach'
    BY <2>3 DEF OneReceiveEach, NoReceive, OneReceive, Receives
  <2>5. SendsBounded'
    <3>1. \A q \in Ports : taken'[q] <= Len(arrivals'[q]) /\ Len(arrivals'[q]) <= MaxArrivals
      BY <1>1, <1>4, <1>10 DEF OwnInv, SendsBounded
    <3>2. QED
      BY <1>1, <1>4, <1>9, <3>1 DEF SendsBounded, IoTypes
  <2>6. HandledInOrderOnce'
    BY <1>1, <1>10 DEF OwnInv, HandledInOrderOnce
  <2>7. QED
    BY <2>1, <2>2, <2>4, <2>5, <2>6 DEF OwnInv
<1>11. CASE /\ Asio!Readable(p) /\ Asio!PerformReceive(p)
            /\ ioq' = Append(ioq, Asio!Completed(Asio!ReceiveDone(p, op)))
            /\ readOp' = readOp
  <2>1. PICK c : c = Asio!ReceiveDone(p, op)
    OBVIOUS
  <2>2. /\ c \in Asio!Completion
        /\ c.port = p /\ c.handler = h /\ c.index = taken[p] + 1
        /\ taken' = [taken EXCEPT ![p] = @ + 1]
        /\ taken[p] < Len(arrivals[p])
        /\ endpoint' = None => endpoint = None /\ c.failed
    BY <1>3, <1>11, <2>1, Taking
  <2>3. PICK x : x = Asio!Completed(c)
    OBVIOUS
  <2>4. /\ x \in Asio!QueueItems /\ x.item = "completion" /\ x.op = c
        /\ \A q : Receives(x, q) <=> q = p
    BY <2>2, <2>3, CompletedReceives
  <2>5. ioq' = Append(ioq, x) /\ ioq \in Seq(Asio!QueueItems)
    BY <1>1, <1>11, <2>1, <2>3 DEF IoTypes
  <2>6. OwnHandlers'
    BY <1>1, <1>4, <1>11 DEF OwnInv, OwnHandlers
  <2>7. EndpointKnown'
    <3>1. /\ Len(ioq) \in Nat /\ DOMAIN ioq = 1..Len(ioq)
          /\ DOMAIN ioq' = 1..(Len(ioq) + 1)
          /\ \A i \in 1..Len(ioq) : ioq'[i] = ioq[i]
          /\ ioq'[Len(ioq) + 1] = x
      <4>1. Len(ioq) \in Nat /\ DOMAIN ioq = 1..Len(ioq)
        BY <2>5, LenProperties
      <4>2. QED
        BY <2>4, <2>5, <4>1, AppendProperties
    <3>2. SUFFICES ASSUME endpoint' = None PROVE EndpointKnown'
      BY DEF EndpointKnown
    <3>3. c.failed /\ endpoint = None
      BY <2>2, <3>2
    <3>4. \A i \in DOMAIN ioq' :
            ioq'[i].item = "completion" /\ ioq'[i].op.handler # "sent" => ioq'[i].op.failed
      <4>1. ASSUME NEW i \in DOMAIN ioq', ioq'[i].item = "completion",
                   ioq'[i].op.handler # "sent"
            PROVE  ioq'[i].op.failed
        <5>1. CASE i \in 1..Len(ioq)
          BY <1>1, <3>1, <3>3, <4>1, <5>1 DEF OwnInv, EndpointKnown
        <5>2. CASE i = Len(ioq) + 1
          BY <2>4, <3>1, <3>3, <5>2
        <5>3. QED
          BY <3>1, <4>1, <5>1, <5>2
      <4>2. QED
        BY <4>1
    <3>5. running' # None /\ running'.handler # "sent" => running'.failed
      BY <1>1, <1>4, <3>3 DEF OwnInv, EndpointKnown
    <3>6. QED
      BY <3>4, <3>5 DEF EndpointKnown
  <2>8. ASSUME NEW q \in Ports
        PROVE  /\ \/ NoReceive(ioq', q) /\ taken'[q] = Len(handled'[q])
                  \/ /\ OneReceive(ioq', q, taken'[q]) /\ taken'[q] = Len(handled'[q]) + 1
                     /\ readOp'[q] = None /\ ~Handling(q)'
               /\ readOp'[q] # None => ~Handling(q)'
               /\ main' \in {"opening", "arming"} /\ q >= next' => NoReceive(ioq', q)
    <3>1. CASE q = p
      <4>1. OneReceive(ioq', p, taken[p] + 1)
        BY <2>2, <2>4, <2>5, ReceiveAppend
      <4>2. taken'[p] = taken[p] + 1
        BY <1>1, <2>2 DEF IoTypes
      <4>3. QED
        BY <1>4, <1>5, <1>6, <1>7, <1>11, <3>1, <4>1, <4>2
    <3>2. CASE q # p
      <4>1. /\ NoReceive(ioq, q) => NoReceive(ioq', q)
            /\ \A k : OneReceive(ioq, q, k) => OneReceive(ioq', q, k)
        BY <2>4, <2>5, <3>2, ReceiveAppend
      <4>2. taken'[q] = taken[q]
        BY <1>1, <2>2, <3>2 DEF IoTypes
      <4>3. QED
        BY <1>1, <1>6, <1>7, <1>11, <4>1, <4>2 DEF OwnInv, OneReceiveEach
    <3>3. QED
      BY <3>1, <3>2
  <2>9. OneReceiveEach'
    BY <2>8 DEF OneReceiveEach, NoReceive, OneReceive, Receives
  <2>10. SendsBounded'
    <3>1. \A q \in Ports : taken'[q] <= Len(arrivals'[q]) /\ Len(arrivals'[q]) <= MaxArrivals
      BY <1>1, <1>4, <1>8, <2>2 DEF OwnInv, SendsBounded, IoTypes
    <3>2. QED
      BY <1>9, <3>1, <1>1, <1>4 DEF SendsBounded, IoTypes
  <2>11. HandledInOrderOnce'
    <3>1. \A q \in Ports : taken'[q] >= taken[q] /\ taken'[q] \in Nat
      BY <1>1, <1>8, <2>2 DEF IoTypes
    <3>2. QED
      BY <1>1, <1>8, <3>1 DEF OwnInv, HandledInOrderOnce
  <2>12. QED
    BY <2>6, <2>7, <2>9, <2>10, <2>11 DEF OwnInv
<1>12. QED
  BY <1>4, <1>10, <1>11

LEMMA ArmPortKeeps ==
  ASSUME AllInv, ArmPort PROVE OwnInv' /\ [Asio!Next]_(Asio!vars)
<1>1. OwnInv /\ IoTypes
  BY IoTyped DEF AllInv
<1>2. /\ main = "arming" /\ next <= PortCount /\ next \in Ports
      /\ main' = "opening" /\ next' = next + 1
      /\ step' = step /\ handled' = handled /\ attributed' = attributed
  BY <1>1, PortsFinite DEF ArmPort, OwnInv, OwnTypes, PhasesInOrder, Ports
<1>3. Asio!AsyncReceive(next, "outer")
  BY SameAsio DEF ArmPort
<1>4. running' = running /\ ioState' = ioState /\ open' = open
  BY <1>3 DEF Asio!AsyncReceive
<1>5. OwnTypes' /\ StepsAgree'
  <2>1. next + 1 \in 1..(PortCount + 1)
    BY <1>2, PortsFinite DEF Ports
  <2>2. QED
    BY <1>1, <1>2, <1>4, <2>1 DEF OwnInv, OwnTypes, StepsAgree
<1>6. PhasesInOrder'
  <2>1. next \in Nat /\ (next + 1) - 1 = next
    BY <1>2, PortsFinite DEF Ports
  <2>2. QED
    BY <1>1, <1>2, <1>4, <2>1 DEF OwnInv, PhasesInOrder
<1>7. NoReceive(ioq, next)
  <2>1. next >= next
    BY <1>2 DEF Ports
  <2>2. QED
    BY <1>1, <1>2, <2>1 DEF OwnInv, OneReceiveEach, NoReceive
<1>8. step' = "none"
  BY <1>1, <1>2 DEF OwnInv, PhasesInOrder, StepsAgree
<1>9. OwnInv'
  BY <1>2, <1>3, <1>5, <1>6, <1>7, <1>8, ReceiveKeeps
<1>10. [Asio!Next]_(Asio!vars)
  BY <1>2, <1>3 DEF Asio!Next, Asio!Program
<1>11. QED
  BY <1>9, <1>10

LEMMA StartIoThreadKeeps ==
  ASSUME AllInv, StartIoThread PROVE OwnInv' /\ [Asio!Next]_(Asio!vars)
<1>1. OwnInv /\ IoTypes
  BY IoTyped DEF AllInv
<1>2. /\ main = "opening" /\ next > PortCount
      /\ next' = next /\ step' = step /\ handled' = handled /\ attributed' = attributed
      /\ \/ main' = "joined" /\ Asio!StartRun
         \/ main' = "failed" /\ UNCHANGED ioVars
  BY SameAsio DEF StartIoThread
<1>3. /\ UNCHANGED <<open, arrivals, taken, readOp, writeOps, ioq>>
      /\ UNCHANGED <<running, endpoint, sends>>
      /\ main' = "failed" => ioState' = ioState
      /\ main' = "joined" => ioState' # "idle"
  BY <1>2 DEF Asio!StartRun, Asio!kernelVars, Asio!reactorVars, Asio!memoryVars, ioVars
<1>4. OwnTypes' /\ StepsAgree'
  BY <1>1, <1>2, <1>3 DEF OwnInv, OwnTypes, StepsAgree
<1>5. open = Ports
  <2>1. next = PortCount + 1 /\ next - 1 = PortCount
    BY <1>1, <1>2, PortsFinite DEF OwnInv, OwnTypes
  <2>2. QED
    BY <1>1, <1>2, <2>1 DEF OwnInv, PhasesInOrder, Ports
<1>6. PhasesInOrder'
  BY <1>1, <1>2, <1>3, <1>5 DEF OwnInv, PhasesInOrder
<1>7. OwnInv'
  BY <1>2, <1>3, <1>4, <1>6, StillKeeps
<1>8. [Asio!Next]_(Asio!vars)
  BY <1>2 DEF ioVars, Asio!vars, Asio!kernelVars, Asio!reactorVars,
              Asio!schedulerVars, Asio!memoryVars, Asio!Next, Asio!Run
<1>9. QED
  BY <1>7, <1>8

LEMMA JoinedKeeps ==
  ASSUME AllInv, Joined PROVE OwnInv' /\ [Asio!Next]_(Asio!vars)
<1>1. OwnInv
  BY DEF AllInv
<1>2. /\ main = "joined" /\ ioState = "stopped" /\ main' = "returned"
      /\ next' = next /\ step' = step /\ handled' = handled /\ attributed' = attributed
      /\ UNCHANGED ioVars
  BY DEF Joined
<1>3. OwnTypes' /\ StepsAgree'
  BY <1>1, <1>2 DEF OwnInv, OwnTypes, StepsAgree, ioVars
<1>4. PhasesInOrder'
  BY <1>1, <1>2 DEF OwnInv, PhasesInOrder, ioVars
<1>5. OwnInv'
  BY <1>2, <1>3, <1>4, StillKeeps DEF ioVars
<1>6. [Asio!Next]_(Asio!vars)
  BY <1>2 DEF ioVars, Asio!vars, Asio!kernelVars, Asio!reactorVars,
              Asio!schedulerVars, Asio!memoryVars
<1>7. QED
  BY <1>5, <1>6

------------------------------------------------------------------------------
(***************************************************************************)
(* The io thread.                                                          *)
(***************************************************************************)
FailedReceives(q) ==
  \A i \in DOMAIN q :
    q[i].item = "completion" /\ q[i].op.handler # "sent" => q[i].op.failed

LEMMA FailedTail ==
  ASSUME NEW S, NEW q \in Seq(S), q # <<>>, FailedReceives(q)
  PROVE  /\ FailedReceives(Tail(q))
         /\ Head(q).item = "completion" /\ Head(q).op.handler # "sent" => Head(q).op.failed
<1>1. PICK t : t = Tail(q)
  OBVIOUS
<1>2. /\ Head(q) = q[1] /\ Len(q) \in Nat \ {0} /\ DOMAIN q = 1..Len(q)
      /\ t \in Seq(S) /\ Len(t) = Len(q) - 1
      /\ \A i \in 1..Len(t) : t[i] = q[i + 1]
  BY <1>1, LenProperties, EmptySeq, HeadTailProperties
<1>3. DOMAIN t = 1..(Len(q) - 1)
  BY <1>2, LenProperties
<1>4. \A i \in DOMAIN t : i + 1 \in DOMAIN q /\ t[i] = q[i + 1]
  BY <1>2, <1>3
<1>5. FailedReceives(t)
  BY <1>4 DEF FailedReceives
<1>6. 1 \in DOMAIN q
  BY <1>2
<1>7. QED
  BY <1>1, <1>2, <1>5, <1>6 DEF FailedReceives

LEMMA FailedConcat ==
  ASSUME NEW S, NEW q \in Seq(S), NEW r \in Seq(S), FailedReceives(q), FailedReceives(r)
  PROVE  FailedReceives(q \o r)
<1>1. PICK c : c = q \o r
  OBVIOUS
<1>2. PICK m \in Nat, n \in Nat : m = Len(q) /\ n = Len(r)
  BY LenProperties
<1>3. /\ DOMAIN q = 1..m /\ DOMAIN r = 1..n /\ DOMAIN c = 1..(m + n)
      /\ \A i \in 1..(m + n) : c[i] = IF i <= m THEN q[i] ELSE r[i - m]
  <2>1. /\ q \o r \in Seq(S) /\ Len(q \o r) = Len(q) + Len(r)
        /\ \A i \in 1..(Len(q) + Len(r)) :
             (q \o r)[i] = IF i <= Len(q) THEN q[i] ELSE r[i - Len(q)]
    BY ConcatProperties
  <2>2. DOMAIN q = 1..Len(q) /\ DOMAIN r = 1..Len(r) /\ DOMAIN c = 1..Len(c)
    BY <1>1, <2>1, LenProperties
  <2>3. QED
    BY <1>1, <1>2, <2>1, <2>2
<1>4. \A i \in DOMAIN c : \/ i \in DOMAIN q /\ c[i] = q[i]
                          \/ i - m \in DOMAIN r /\ c[i] = r[i - m]
  BY <1>3
<1>5. FailedReceives(c)
  BY <1>4 DEF FailedReceives
<1>6. QED
  BY <1>1, <1>5

(* An item is dequeued that is no completion, and none is queued. *)
LEMMA TurnKeeps ==
  ASSUME AllInv, NEW r \in Seq(Asio!QueueItems),
         ioq' = Tail(ioq) \o r, \A i \in DOMAIN r : r[i].item # "completion",
         Head(ioq).item # "completion", running = None, running' = None,
         UNCHANGED <<open, arrivals, taken, readOp, ioState, endpoint, sends>>,
         UNCHANGED <<main, next, step, handled, attributed>>, OwnHandlers'
  PROVE  OwnInv'
<1>1. OwnInv /\ IoTypes /\ ioq # <<>>
  BY IoTyped DEF AllInv
<1>2. OwnTypes' /\ StepsAgree'
  BY <1>1 DEF OwnInv, OwnTypes, StepsAgree
<1>3. PhasesInOrder' /\ HandledInOrderOnce'
  BY <1>1 DEF OwnInv, PhasesInOrder, HandledInOrderOnce
<1>4. SendsBounded'
  BY <1>1 DEF OwnInv, SendsBounded, HandledSlots
<1>5. ioq \in Seq(Asio!QueueItems) /\ Tail(ioq) \in Seq(Asio!QueueItems)
  BY <1>1, HeadTailProperties DEF IoTypes
<1>6. EndpointKnown'
  <2>1. SUFFICES ASSUME endpoint = None PROVE EndpointKnown'
    BY DEF EndpointKnown
  <2>2. FailedReceives(ioq) /\ FailedReceives(r)
    BY <1>1, <2>1 DEF OwnInv, EndpointKnown, FailedReceives
  <2>3. FailedReceives(ioq')
    BY <1>1, <1>5, <2>2, FailedTail, FailedConcat
  <2>4. QED
    BY <2>3 DEF EndpointKnown, FailedReceives
<1>7. OneReceiveEach'
  <2>1. ASSUME NEW p \in Ports
        PROVE  /\ NoReceive(ioq, p) => NoReceive(ioq', p)
               /\ \A k : OneReceive(ioq, p, k) => OneReceive(ioq', p, k)
    <3>1. ~Receives(Head(ioq), p)
      BY DEF Receives
    <3>2. NoReceive(r, p)
      BY DEF NoReceive, Receives
    <3>3. /\ NoReceive(ioq, p) => NoReceive(Tail(ioq), p)
          /\ \A k : OneReceive(ioq, p, k) => OneReceive(Tail(ioq), p, k)
      BY <1>1, <1>5, <3>1, ReceiveTail
    <3>4. QED
      BY <1>5, <3>2, <3>3, ReceiveConcat
  <2>2. \A p : ~Handling(p)'
    BY DEF Handling
  <2>3. \A p \in Ports :
          /\ \/ NoReceive(ioq', p) /\ taken'[p] = Len(handled'[p])
             \/ /\ OneReceive(ioq', p, taken'[p]) /\ taken'[p] = Len(handled'[p]) + 1
                /\ readOp'[p] = None /\ ~Handling(p)'
          /\ readOp'[p] # None => ~Handling(p)'
          /\ main' \in {"opening", "arming"} /\ p >= next' => NoReceive(ioq', p)
    BY <1>1, <2>1, <2>2 DEF OwnInv, OneReceiveEach
  <2>4. QED
    BY <2>3 DEF OneReceiveEach, NoReceive, OneReceive, Receives
<1>8. QED
  BY <1>2, <1>3, <1>4, <1>6, <1>7 DEF OwnInv

LEMMA RunTaskKeeps ==
  ASSUME AllInv, RunTask PROVE OwnInv' /\ [Asio!Next]_(Asio!vars)
<1>1. Asio!RunTask /\ UNCHANGED <<main, next, step, handled, attributed>>
  BY SameAsio DEF RunTask, proxyVars
<1>2. Asio!TypeTurn
  BY DEF AllInv, Asio!EventInv, Asio!AsioInv, Asio!TypeTurn
<1>3. PICK r \in Seq(Asio!QueueItems) :
        ioq' = Tail(ioq) \o r /\ \A i \in DOMAIN r : r[i].item # "completion"
  BY <1>1, <1>2, AsioAssumed, Asio!TaskAppends
<1>4. /\ running = None /\ running' = None /\ Head(ioq) = Asio!Task
      /\ UNCHANGED <<open, arrivals, taken, readOp, writeOps, ioState, endpoint, sends>>
  BY <1>1 DEF Asio!RunTask, Asio!Dispatches, Asio!memoryVars
<1>5. Head(ioq).item # "completion"
  BY <1>4 DEF Asio!Task
<1>6. OwnHandlers'
  BY <1>4 DEF AllInv, OwnInv, OwnHandlers
<1>7. OwnInv'
  BY <1>1, <1>3, <1>4, <1>5, <1>6, TurnKeeps
<1>8. QED
  BY <1>1, <1>7 DEF Asio!Next, Asio!Run

(***************************************************************************)
(* A handler begins.  That of a receive is the one for the datagram that   *)
(* comes next at its port, and its port has no receive then.               *)
(***************************************************************************)
LEMMA EnterKeeps ==
  ASSUME AllInv, running = None, ioState = "running",
         NEW c \in Asio!Completion, running' = c, Enter(c),
         UNCHANGED <<open, arrivals, ioState, sends, main, next, attributed>>,
         OwnHandlers',
         endpoint' = None => FailedReceives(ioq') /\ (c.handler # "sent" => c.failed),
         c.handler # "sent" => c.index = Len(handled[c.port]) + 1,
         \A p \in Ports : taken'[p] \in Nat /\ taken'[p] <= Len(arrivals[p]),
         \A p \in Ports :
           /\ \/ NoReceive(ioq', p) /\ taken'[p] = Len(handled'[p])
              \/ /\ OneReceive(ioq', p, taken'[p]) /\ taken'[p] = Len(handled'[p]) + 1
                 /\ readOp'[p] = None /\ (c.port # p \/ c.handler = "sent")
           /\ readOp'[p] # None => c.port # p \/ c.handler = "sent"
  PROVE  OwnInv'
<1>1. OwnInv /\ IoTypes
  BY IoTyped DEF AllInv
<1>2. c # None /\ c.port \in Ports /\ c.index \in Nat
  BY AsioAssumed DEF Asio!Completion
<1>3. main \notin {"opening", "arming", "failed"}
  BY <1>1 DEF OwnInv, PhasesInOrder
<1>4. step = "none" /\ step' = FirstStep(c)
  BY <1>1 DEF OwnInv, StepsAgree, Enter
<1>5. /\ c.handler = "sent" => handled' = handled
      /\ c.handler # "sent" => handled' = [handled EXCEPT ![c.port] = Append(@, c.index)]
      /\ handled \in [Ports -> Seq(Nat)]
  BY <1>1 DEF Enter, OwnInv, OwnTypes
<1>6. handled' \in [Ports -> Seq(Nat)]
  <2>1. PICK s : s = Append(handled[c.port], c.index)
    OBVIOUS
  <2>2. s \in Seq(Nat)
    <3>1. handled[c.port] \in Seq(Nat)
      BY <1>2, <1>5
    <3>2. QED
      BY <1>2, <2>1, <3>1, AppendProperties
  <2>3. c.handler # "sent" => handled' = [handled EXCEPT ![c.port] = s]
    BY <1>5, <2>1
  <2>4. QED
    BY <1>5, <2>2, <2>3
<1>7. OwnTypes'
  BY <1>1, <1>4, <1>6 DEF OwnInv, OwnTypes, FirstStep
<1>8. PhasesInOrder'
  BY <1>1, <1>3 DEF OwnInv, PhasesInOrder
<1>9. StepsAgree'
  BY <1>2, <1>4 DEF StepsAgree, FirstStep
<1>10. EndpointKnown'
  BY DEF EndpointKnown, FailedReceives
<1>11. OneReceiveEach'
  <2>1. \A p \in Ports : Handling(p)' => c.port = p /\ c.handler # "sent"
    BY DEF Handling
  <2>2. \A p \in Ports :
          /\ \/ NoReceive(ioq', p) /\ taken'[p] = Len(handled'[p])
             \/ /\ OneReceive(ioq', p, taken'[p]) /\ taken'[p] = Len(handled'[p]) + 1
                /\ readOp'[p] = None /\ ~Handling(p)'
          /\ readOp'[p] # None => ~Handling(p)'
          /\ main' \in {"opening", "arming"} /\ p >= next' => NoReceive(ioq', p)
    BY <1>3, <2>1
  <2>3. QED
    BY <2>2 DEF OneReceiveEach, NoReceive, OneReceive, Receives
<1>12. SendsBounded'
  <2>1. \A p \in Ports : taken'[p] <= Len(arrivals'[p]) /\ Len(arrivals'[p]) <= MaxArrivals
    BY <1>1 DEF OwnInv, SendsBounded
  <2>2. Cardinality(HandledSlots) \in Nat /\ sends <= Cardinality(HandledSlots)
        /\ sends \in Nat
    <3>1. Cardinality(HandledSlots) \in Nat
      BY <1>5, SlotsFinite, SlotsAreRows DEF HandledSlots
    <3>2. sends \in Nat
      BY <1>1 DEF IoTypes
    <3>3. sends + (IF step \in {"check", "charge", "send"} THEN 1 ELSE 0)
            <= Cardinality(HandledSlots)
      BY <1>1 DEF OwnInv, SendsBounded
    <3>4. QED
      BY <1>4, <3>1, <3>2, <3>3
  <2>3. sends' + (IF step' \in {"check", "charge", "send"} THEN 1 ELSE 0)
          <= Cardinality(HandledSlots')
    <3>1. CASE c.handler = "sent"
      <4>1. HandledSlots' = HandledSlots
        BY <1>5, <3>1 DEF HandledSlots
      <4>2. step' = "return"
        BY <1>4, <3>1 DEF FirstStep
      <4>3. QED
        BY <2>2, <4>1, <4>2
    <3>2. CASE c.handler # "sent"
      <4>1. HandledSlots' = Asio!Waiting(handled') /\ HandledSlots = Asio!Waiting(handled)
        BY SlotsAreRows DEF HandledSlots
      <4>2. Cardinality(Asio!Waiting(handled')) = Cardinality(Asio!Waiting(handled)) + 1
        <5>1. PICK w \in [Ports -> Seq(Nat)], p \in Ports, x \in Nat :
                w = handled /\ p = c.port /\ x = c.index
          BY <1>2, <1>5
        <5>2. handled' = [w EXCEPT ![p] = Append(@, x)]
          BY <1>5, <3>2, <5>1
        <5>3. Cardinality(Asio!Waiting([w EXCEPT ![p] = Append(@, x)]))
                = Cardinality(Asio!Waiting(w)) + 1
          BY SlotsGrow
        <5>4. QED
          BY <5>1, <5>2, <5>3
      <4>3. QED
        BY <2>2, <4>1, <4>2
    <3>3. QED
      BY <3>1, <3>2
  <2>4. QED
    BY <2>1, <2>3 DEF SendsBounded
<1>13. HandledInOrderOnce'
  <2>1. SUFFICES ASSUME NEW p \in Ports
                 PROVE  /\ \A i \in DOMAIN handled'[p] : handled'[p][i] = i
                        /\ Len(handled'[p]) <= taken'[p]
    BY DEF HandledInOrderOnce
  <2>2. Len(handled'[p]) \in Nat /\ taken'[p] \in Nat
    BY <1>6, LenProperties
  <2>3. Len(handled'[p]) <= taken'[p]
    BY <2>2
  <2>4. \A i \in DOMAIN handled[p] : handled[p][i] = i
    BY <1>1 DEF OwnInv, HandledInOrderOnce
  <2>5. CASE handled'[p] = handled[p]
    BY <2>3, <2>4, <2>5
  <2>6. CASE handled'[p] # handled[p]
    <3>1. c.handler # "sent" /\ c.port = p
      BY <1>2, <1>5, <2>6
    <3>2. PICK s \in Seq(Nat) : s = handled[p]
      BY <1>5
    <3>3. handled'[p] = Append(s, Len(s) + 1) /\ Len(s) + 1 \in Nat
      BY <1>2, <1>5, <3>1, <3>2
    <3>4. /\ Len(s) \in Nat /\ DOMAIN s = 1..Len(s)
          /\ DOMAIN handled'[p] = 1..(Len(s) + 1)
          /\ \A i \in 1..Len(s) : handled'[p][i] = s[i]
          /\ handled'[p][Len(s) + 1] = Len(s) + 1
      <4>1. Len(s) \in Nat /\ DOMAIN s = 1..Len(s)
        BY <3>2, LenProperties
      <4>2. QED
        BY <3>3, <4>1, AppendProperties
    <3>5. QED
      BY <2>3, <2>4, <3>2, <3>4
  <2>7. QED
    BY <2>5, <2>6
<1>14. QED
  BY <1>7, <1>8, <1>9, <1>10, <1>11, <1>12, <1>13 DEF OwnInv

LEMMA RunCompletionKeeps ==
  ASSUME AllInv, RunCompletion PROVE OwnInv' /\ [Asio!Next]_(Asio!vars)
<1>1. OwnInv /\ IoTypes /\ ioq # <<>>
  BY IoTyped DEF AllInv
<1>2. Asio!RunCompletion /\ Enter(running') /\ UNCHANGED <<main, next, attributed>>
  BY SameAsio DEF RunCompletion
<1>3. /\ ioState = "running" /\ running = None
      /\ Head(ioq).item = "completion" /\ running' = Head(ioq).op /\ ioq' = Tail(ioq)
      /\ UNCHANGED <<open, arrivals, taken, readOp, writeOps, endpoint, sends, ioState>>
  BY <1>2 DEF Asio!RunCompletion, Asio!kernelVars, Asio!reactorVars, Asio!memoryVars
<1>4. ioq \in Seq(Asio!QueueItems)
  BY <1>1 DEF IoTypes
<1>5. Head(ioq) \in Asio!QueueItems
  BY <1>1, <1>4, HeadTailProperties
<1>6. PICK c \in Asio!Completion : c = running'
  BY <1>3, <1>5, AsioAssumed, Asio!ItemKinds DEF Asio!QueueItems, Asio!Task, Asio!Descriptor
<1>7. \A p : Receives(Head(ioq), p) <=> c.port = p /\ c.handler # "sent"
  BY <1>3, <1>6 DEF Receives
<1>8. /\ c.port \in Ports /\ handled \in [Ports -> Seq(Nat)]
      /\ c.handler = "sent" => handled' = handled
      /\ c.handler # "sent" => handled' = [handled EXCEPT ![c.port] = Append(@, c.index)]
  BY <1>1, <1>2, <1>6 DEF Enter, OwnInv, OwnTypes, Asio!Completion
<1>9. endpoint' = None => FailedReceives(ioq') /\ (c.handler # "sent" => c.failed)
  <2>1. SUFFICES ASSUME endpoint = None
                 PROVE  FailedReceives(ioq') /\ (c.handler # "sent" => c.failed)
    BY <1>3
  <2>2. FailedReceives(ioq)
    BY <1>1, <2>1 DEF OwnInv, EndpointKnown, FailedReceives
  <2>3. QED
    BY <1>1, <1>3, <1>4, <1>6, <2>2, FailedTail
<1>10. \A p \in Ports : taken[p] \in Nat /\ taken[p] <= Len(arrivals[p])
  BY <1>1 DEF OwnInv, SendsBounded, IoTypes
<1>11. OwnHandlers'
  BY <1>1, <1>3 DEF OwnInv, OwnHandlers
<1>12. ASSUME NEW p \in Ports
       PROVE  /\ c.handler # "sent" /\ c.port = p => c.index = Len(handled[p]) + 1
              /\ \/ NoReceive(ioq', p) /\ taken'[p] = Len(handled'[p])
                 \/ /\ OneReceive(ioq', p, taken'[p]) /\ taken'[p] = Len(handled'[p]) + 1
                    /\ readOp'[p] = None /\ (c.port # p \/ c.handler = "sent")
              /\ readOp'[p] # None => c.port # p \/ c.handler = "sent"
  <2>1. /\ NoReceive(ioq, p) => ~Receives(Head(ioq), p) /\ NoReceive(ioq', p)
        /\ \A k : OneReceive(ioq, p, k) =>
             IF Receives(Head(ioq), p)
             THEN Head(ioq).op.index = k /\ NoReceive(ioq', p)
             ELSE OneReceive(ioq', p, k)
    BY <1>1, <1>3, <1>4, ReceiveTail
  <2>2. \/ NoReceive(ioq, p) /\ taken[p] = Len(handled[p])
        \/ /\ OneReceive(ioq, p, taken[p]) /\ taken[p] = Len(handled[p]) + 1
           /\ readOp[p] = None
    BY <1>1 DEF OwnInv, OneReceiveEach
  <2>3. CASE c.handler # "sent" /\ c.port = p
    <3>1. OneReceive(ioq, p, taken[p]) /\ taken[p] = Len(handled[p]) + 1 /\ readOp[p] = None
      BY <1>7, <2>1, <2>2, <2>3
    <3>2. c.index = taken[p] /\ NoReceive(ioq', p)
      BY <1>3, <1>6, <1>7, <2>1, <2>3, <3>1
    <3>3. Len(handled'[p]) = Len(handled[p]) + 1
      <4>1. handled'[p] = Append(handled[p], c.index) /\ handled[p] \in Seq(Nat)
        BY <1>8, <2>3
      <4>2. c.index \in Nat
        BY DEF Asio!Completion
      <4>3. QED
        BY <4>1, <4>2, AppendProperties
    <3>4. QED
      BY <1>3, <3>1, <3>2, <3>3
  <2>4. CASE ~(c.handler # "sent" /\ c.port = p)
    <3>1. handled'[p] = handled[p]
      BY <1>8, <2>4
    <3>2. c.port # p \/ c.handler = "sent"
      BY <2>4
    <3>3. ~Receives(Head(ioq), p)
      BY <1>7, <2>4
    <3>4. QED
      BY <1>3, <2>1, <2>2, <2>4, <3>1, <3>2, <3>3
  <2>5. QED
    BY <2>3, <2>4
<1>13. OwnInv'
  <2>1. c.handler # "sent" => c.index = Len(handled[c.port]) + 1
    BY <1>8, <1>12
  <2>2. \A p \in Ports : taken'[p] \in Nat /\ taken'[p] <= Len(arrivals[p])
    BY <1>3, <1>10
  <2>3. \A p \in Ports :
           /\ \/ NoReceive(ioq', p) /\ taken'[p] = Len(handled'[p])
              \/ /\ OneReceive(ioq', p, taken'[p]) /\ taken'[p] = Len(handled'[p]) + 1
                 /\ readOp'[p] = None /\ (c.port # p \/ c.handler = "sent")
           /\ readOp'[p] # None => c.port # p \/ c.handler = "sent"
    BY <1>12
  <2>4. running' = c /\ Enter(c)
    BY <1>2, <1>6
  <2>5. UNCHANGED <<open, arrivals, ioState, sends, main, next, attributed>>
    BY <1>2, <1>3
  <2>6. QED
    BY <1>3, <1>9, <1>11, <2>1, <2>2, <2>3, <2>4, <2>5, EnterKeeps
<1>14. QED
  BY <1>2, <1>13 DEF Asio!Next, Asio!Run

(* The sends that stay with a descriptor are sends of the proxy. *)
LEMMA DropKeepsSent ==
  ASSUME OwnInv, IoTypes, NEW p \in Ports, NEW n \in 0..Len(writeOps[p])
  PROVE  \A i \in DOMAIN SubSeq(writeOps[p], n + 1, Len(writeOps[p])) :
           SubSeq(writeOps[p], n + 1, Len(writeOps[p]))[i].handler = "sent"
<1> DEFINE Sent == {op \in Asio!Send : op.handler = "sent"}
<1>1. PICK w \in Seq(Asio!Send) : w = writeOps[p]
  BY DEF IoTypes
<1>2. Len(w) \in Nat /\ DOMAIN w = 1..Len(w) /\ n \in Nat /\ n <= Len(w)
  BY <1>1, LenProperties
<1>3. \A i \in (n + 1)..Len(w) : w[i] \in Sent
  <2>1. ASSUME NEW i \in (n + 1)..Len(w) PROVE w[i] \in Sent
    <3>1. i \in 1..Len(w)
      BY <1>2
    <3>2. w[i] \in Asio!Send
      BY <3>1, ElementOfSeq
    <3>3. w[i].handler = "sent"
      BY <1>1, <1>2, <3>1 DEF OwnInv, OwnHandlers
    <3>4. QED
      BY <3>2, <3>3
  <2>2. QED
    BY <2>1
<1>4. PICK rest : rest = SubSeq(w, n + 1, Len(w))
  OBVIOUS
<1>5. rest \in Seq(Sent)
  <2>1. n + 1 \in Int /\ Len(w) \in Int
    BY <1>2
  <2>2. QED
    BY <1>3, <1>4, <2>1, SubSeqProperties
<1>6. \A i \in DOMAIN rest : rest[i] \in Sent
  <2>1. DOMAIN rest = 1..Len(rest)
    BY <1>5, LenProperties
  <2>2. QED
    BY <1>5, <2>1, ElementOfSeq
<1>7. QED
  BY <1>1, <1>4, <1>6

(***************************************************************************)
(* What a descriptor completes: sends, then at most one receive.  The      *)
(* first is handled at once, so the receive is when no send completed.     *)
(***************************************************************************)
LEMMA DescriptorReceives ==
  ASSUME AllInv, NEW p \in Ports, NEW n \in 0..Len(writeOps[p]),
         NEW done \in Seq(Asio!Completion), NEW more \in Seq(Asio!QueueItems),
         NEW packets, NEW full,
         Asio!DescriptorDoes(p, n, done, more, packets, full)
  PROVE  /\ n > 0 => done # <<>> /\ Head(done).handler = "sent"
         /\ n = 0 /\ Asio!Receives(p) =>
              done # <<>> /\ Head(done) = Asio!ReceiveDone(p, readOp[p])
         /\ n = 0 /\ ~Asio!Receives(p) => done = <<>>
         /\ \A q : q # p \/ n = 0 \/ ~Asio!Receives(p) => NoReceive(more, q)
         /\ n > 0 /\ Asio!Receives(p) => OneReceive(more, p, taken[p] + 1)
         /\ Asio!Receives(p) /\ Asio!Failed(p) => FailedReceives(more)
         /\ ~Asio!Receives(p) => FailedReceives(more)
<1> USE DEF Asio!DescriptorDoes
<1>1. OwnInv /\ IoTypes
  BY IoTyped DEF AllInv
<1>2. /\ Len(writeOps[p]) \in Nat /\ n \in Nat /\ n <= Len(writeOps[p])
      /\ DOMAIN writeOps[p] = 1..Len(writeOps[p])
  <2>1. writeOps[p] \in Seq(Asio!Send)
    BY <1>1 DEF IoTypes
  <2>2. QED
    BY <2>1, LenProperties
<1>3. \A i \in 1..n : done[i].handler = "sent"
  <2>1. \A i \in 1..n : done[i].handler = writeOps[p][i].handler
    OBVIOUS
  <2>2. \A i \in 1..n : i \in DOMAIN writeOps[p]
    BY <1>2
  <2>3. \A i \in DOMAIN writeOps[p] : writeOps[p][i].handler = "sent"
    BY <1>1 DEF OwnInv, OwnHandlers
  <2>4. QED
    BY <2>1, <2>2, <2>3
<1>4. /\ Len(done) \in Nat /\ (done = <<>> <=> Len(done) = 0)
      /\ done # <<>> => Head(done) = done[1]
  BY LenProperties, EmptySeq, HeadTailProperties
<1>5. Len(more) \in Nat /\ DOMAIN more = 1..Len(more)
  BY LenProperties
<1>6. Asio!Receives(p) => /\ done[n + 1].port = p /\ done[n + 1].handler # "sent"
                          /\ done[n + 1].index = taken[p] + 1
                          /\ done[n + 1].failed = Asio!Failed(p)
  BY <1>1 DEF Asio!ReceiveDone, Asio!Receives, OwnInv, OwnHandlers
<1>7. ASSUME NEW i \in DOMAIN more
      PROVE  /\ more[i].item = "completion" /\ more[i].op = done[i + 1]
             /\ i \in Nat /\ i + 1 <= Len(done) /\ i >= 1
             /\ i = n \/ more[i].op.handler = "sent"
  <2>1. more[i].item = "completion" /\ more[i].op = done[i + 1]
    BY DEF Asio!Completed
  <2>2. i \in Nat /\ i >= 1 /\ i + 1 <= Len(done) /\ i + 1 \in Nat
    BY <1>4, <1>5
  <2>3. i = n \/ i + 1 \in 1..n
    BY <1>2, <1>4, <2>2
  <2>4. QED
    BY <1>3, <2>1, <2>2, <2>3
<1>8. n > 0 => done # <<>> /\ Head(done).handler = "sent"
  <2>1. SUFFICES ASSUME n > 0 PROVE done # <<>> /\ Head(done).handler = "sent"
    OBVIOUS
  <2>2. 1 \in 1..n
    BY <1>2, <2>1
  <2>3. done[1].handler = "sent"
    BY <1>3, <2>2
  <2>4. Len(done) # 0
    BY <1>2, <2>1
  <2>5. QED
    BY <1>4, <2>3, <2>4
<1>9. n = 0 /\ Asio!Receives(p) =>
        done # <<>> /\ Head(done) = Asio!ReceiveDone(p, readOp[p])
  BY <1>4
<1>10. n = 0 /\ ~Asio!Receives(p) => done = <<>>
  BY <1>4
<1>11. ~Asio!Receives(p) => \A i \in DOMAIN more : i # n
  BY <1>2, <1>4, <1>7
<1>12. ASSUME NEW q, q # p \/ n = 0 \/ ~Asio!Receives(p) PROVE NoReceive(more, q)
  <2>1. ASSUME NEW i \in DOMAIN more PROVE ~Receives(more[i], q)
    <3>1. CASE i # n
      BY <1>7, <3>1 DEF Receives
    <3>2. CASE i = n
      <4>1. Asio!Receives(p) /\ n # 0
        BY <1>7, <1>11, <3>2
      <4>2. q # p /\ more[i].op.port = p
        BY <1>6, <1>7, <1>12, <3>2, <4>1
      <4>3. QED
        BY <4>2 DEF Receives
    <3>3. QED
      BY <3>1, <3>2
  <2>2. QED
    BY <2>1 DEF NoReceive
<1>13. n > 0 /\ Asio!Receives(p) => OneReceive(more, p, taken[p] + 1)
  <2>1. SUFFICES ASSUME n > 0, Asio!Receives(p)
                 PROVE  OneReceive(more, p, taken[p] + 1)
    OBVIOUS
  <2>2. Len(more) = n /\ n \in DOMAIN more
    BY <1>2, <1>4, <1>5, <2>1
  <2>3. Receives(more[n], p) /\ more[n].op.index = taken[p] + 1
    BY <1>6, <1>7, <2>1, <2>2 DEF Receives
  <2>4. \A j \in DOMAIN more : Receives(more[j], p) => j = n
    BY <1>7 DEF Receives
  <2>5. QED
    BY <2>2, <2>3, <2>4 DEF OneReceive
<1>14. Asio!Receives(p) /\ Asio!Failed(p) => FailedReceives(more)
  BY <1>6, <1>7 DEF FailedReceives
<1>15. ~Asio!Receives(p) => FailedReceives(more)
  BY <1>7, <1>11 DEF FailedReceives
<1>16. QED
  BY <1>8, <1>9, <1>10, <1>12, <1>13, <1>14, <1>15

LEMMA RunDescriptorKeeps ==
  ASSUME AllInv, NEW p \in Ports, RunDescriptor(p)
  PROVE  OwnInv' /\ [Asio!Next]_(Asio!vars)
<1>1. OwnInv /\ IoTypes /\ ioq # <<>>
  BY IoTyped DEF AllInv
<1>2. /\ Asio!RunDescriptor(p) /\ UNCHANGED <<main, next, attributed>>
      /\ running' = None => UNCHANGED <<step, handled>>
      /\ running' # None => Enter(running')
  BY SameAsio DEF RunDescriptor
<1>3. Asio!TypeOK
  BY DEF AllInv, Asio!EventInv, Asio!AsioInv
<1>4. PICK n \in 0..Len(writeOps[p]), done \in Seq(Asio!Completion),
           more \in Seq(Asio!QueueItems), packets \in Seq(Asio!Wired), full \in BOOLEAN :
        Asio!DescriptorDoes(p, n, done, more, packets, full)
  BY <1>2, <1>3, AsioAssumed, Asio!DescriptorStep
<1>5. /\ ioState = "running" /\ running = None /\ Head(ioq) = Asio!Descriptor(p)
      /\ UNCHANGED <<open, arrivals, ioState, sends>>
      /\ Asio!Receives(p) => Asio!PerformReceive(p)
                             /\ readOp' = [readOp EXCEPT ![p] = None]
      /\ ~Asio!Receives(p) => UNCHANGED <<taken, endpoint, readOp>>
  BY <1>2 DEF Asio!RunDescriptor, Asio!Dispatches
<1>6. /\ writeOps' = [writeOps EXCEPT ![p] = SubSeq(@, n + 1, Len(@))]
      /\ running' = IF done = <<>> THEN None ELSE Head(done)
      /\ ioq' = Tail(ioq) \o more
  BY <1>4 DEF Asio!DescriptorDoes
<1>7. /\ n > 0 => done # <<>> /\ Head(done).handler = "sent"
      /\ n = 0 /\ Asio!Receives(p) =>
           done # <<>> /\ Head(done) = Asio!ReceiveDone(p, readOp[p])
      /\ n = 0 /\ ~Asio!Receives(p) => done = <<>>
      /\ \A q : q # p \/ n = 0 \/ ~Asio!Receives(p) => NoReceive(more, q)
      /\ n > 0 /\ Asio!Receives(p) => OneReceive(more, p, taken[p] + 1)
      /\ Asio!Receives(p) /\ Asio!Failed(p) => FailedReceives(more)
      /\ ~Asio!Receives(p) => FailedReceives(more)
  BY <1>4, DescriptorReceives
<1>8. OwnHandlers'
  <2>1. PICK rest : rest = SubSeq(writeOps[p], n + 1, Len(writeOps[p]))
    OBVIOUS
  <2>2. \A i \in DOMAIN rest : rest[i].handler = "sent"
    BY <1>1, <2>1, DropKeepsSent
  <2>3. \A q \in Ports : writeOps'[q] = IF q = p THEN rest ELSE writeOps[q]
    BY <1>1, <1>6, <2>1 DEF IoTypes
  <2>4. \A q \in Ports : readOp'[q] = readOp[q] \/ readOp'[q] = None
    BY <1>1, <1>5 DEF IoTypes
  <2>5. QED
    BY <1>1, <2>2, <2>3, <2>4 DEF OwnInv, OwnHandlers
<1>9. Head(ioq).item = "descriptor"
  BY <1>5 DEF Asio!Descriptor
<1>10. ioq \in Seq(Asio!QueueItems) /\ Tail(ioq) \in Seq(Asio!QueueItems)
  BY <1>1, HeadTailProperties DEF IoTypes
<1>11. Asio!Receives(p) =>
         /\ readOp[p] \in Asio!Receive /\ readOp[p].handler # "sent"
         /\ Asio!Readable(p)
  BY <1>1 DEF Asio!Receives, OwnInv, OwnHandlers, IoTypes
<1>12. CASE n = 0 /\ ~Asio!Receives(p)
  <2>1. done = <<>> /\ running' = None
    BY <1>6, <1>7, <1>12
  <2>2. \A i \in DOMAIN more : FALSE
    <3>1. Len(more) = 0
      BY <1>4, <2>1 DEF Asio!DescriptorDoes
    <3>2. DOMAIN more = 1..0
      BY <3>1, LenProperties
    <3>3. QED
      BY <3>2
  <2>3. QED
    BY <1>2, <1>5, <1>6, <1>8, <1>9, <1>12, <2>1, <2>2, TurnKeeps DEF Asio!Next, Asio!Run
<1>13. CASE ~(n = 0 /\ ~Asio!Receives(p))
  <2>1. PICK c \in Asio!Completion : c = Head(done) /\ done # <<>>
    <3>1. n = 0 \/ n > 0
      BY <1>1, LenProperties DEF IoTypes
    <3>2. done # <<>>
      BY <1>7, <1>13, <3>1
    <3>3. QED
      BY <3>2, HeadTailProperties
  <2>2. running' = c /\ c # None /\ Enter(c)
    <3>1. running' = c /\ c # None
      BY <1>6, <2>1, AsioAssumed
    <3>2. QED
      BY <1>2, <3>1
  <2>3. PICK r : r = Asio!ReceiveDone(p, readOp[p])
    OBVIOUS
  <2>4. Asio!Receives(p) =>
          /\ r \in Asio!Completion
          /\ r.port = p /\ r.handler # "sent" /\ r.index = taken[p] + 1
          /\ taken' = [taken EXCEPT ![p] = @ + 1]
          /\ taken[p] < Len(arrivals[p])
          /\ endpoint' = None => endpoint = None /\ r.failed
          /\ r.failed = Asio!Failed(p)
    <3>1. SUFFICES ASSUME Asio!Receives(p)
                   PROVE  /\ r \in Asio!Completion
                          /\ r.port = p /\ r.handler # "sent" /\ r.index = taken[p] + 1
                          /\ taken' = [taken EXCEPT ![p] = @ + 1]
                          /\ taken[p] < Len(arrivals[p])
                          /\ endpoint' = None => endpoint = None /\ r.failed
                          /\ r.failed = Asio!Failed(p)
      OBVIOUS
    <3>2. r.failed = Asio!Failed(p)
      BY <2>3 DEF Asio!ReceiveDone
    <3>3. PICK op \in Asio!Receive : op = readOp[p]
      BY <1>11, <3>1
    <3>4. Asio!Readable(p) /\ Asio!PerformReceive(p) /\ op.handler # "sent"
          /\ r = Asio!ReceiveDone(p, op)
      BY <1>5, <1>11, <2>3, <3>1, <3>3
    <3>5. QED
      BY <3>2, <3>4, Taking
  <2>5. /\ n > 0 => c.handler = "sent"
        /\ n = 0 => Asio!Receives(p) /\ c = r
    BY <1>7, <1>13, <2>1, <2>3
  <2>6. n = 0 \/ n > 0
    BY <1>1, LenProperties DEF IoTypes
  <2>7. FailedReceives(ioq) => FailedReceives(Tail(ioq))
    BY <1>1, <1>10, FailedTail
  <2>8. endpoint' = None => FailedReceives(ioq') /\ (c.handler # "sent" => c.failed)
    <3>1. SUFFICES ASSUME endpoint' = None
                   PROVE  FailedReceives(ioq') /\ (c.handler # "sent" => c.failed)
      OBVIOUS
    <3>2. endpoint = None /\ (Asio!Receives(p) => r.failed)
      BY <1>5, <2>4, <3>1
    <3>3. FailedReceives(ioq)
      BY <1>1, <3>2 DEF OwnInv, EndpointKnown, FailedReceives
    <3>4. FailedReceives(more)
      BY <1>7, <2>4, <3>2
    <3>5. FailedReceives(ioq')
      BY <1>6, <1>10, <2>7, <3>3, <3>4, FailedConcat
    <3>6. QED
      BY <2>5, <2>6, <3>2, <3>5
  <2>9. handled \in [Ports -> Seq(Nat)] /\ taken \in [Ports -> Nat]
    BY <1>1 DEF OwnInv, OwnTypes, IoTypes
  <2>10. \A q \in Ports : /\ taken[q] \in Nat /\ Len(arrivals[q]) \in Nat
                          /\ taken[q] <= Len(arrivals[q]) /\ Len(handled[q]) \in Nat
    BY <1>1, <2>9, LenProperties DEF OwnInv, SendsBounded, IoTypes
  <2>11. /\ Asio!Receives(p) => taken'[p] = taken[p] + 1
         /\ ~Asio!Receives(p) => taken'[p] = taken[p]
         /\ \A q \in Ports : q # p => taken'[q] = taken[q]
    BY <1>5, <2>4, <2>9
  <2>12. \A q \in Ports : taken'[q] \in Nat /\ taken'[q] <= Len(arrivals'[q])
    BY <1>5, <2>4, <2>10, <2>11
  <2>13. Asio!Receives(p) => NoReceive(ioq, p) /\ taken[p] = Len(handled[p])
    BY <1>1 DEF Asio!Receives, OwnInv, OneReceiveEach
  <2>14. c.handler # "sent" => /\ c = r /\ n = 0 /\ Asio!Receives(p)
                               /\ c.port = p /\ c.index = Len(handled[p]) + 1
    BY <2>4, <2>5, <2>6, <2>13
  <2>15. /\ c.handler = "sent" => handled' = handled
         /\ c.handler # "sent" => /\ Len(handled'[p]) = Len(handled[p]) + 1
                                  /\ \A q \in Ports : q # p => handled'[q] = handled[q]
    <3>1. CASE c.handler = "sent"
      BY <2>2, <3>1 DEF Enter
    <3>2. CASE c.handler # "sent"
      <4>1. handled' = [handled EXCEPT ![p] = Append(@, c.index)]
        BY <2>2, <2>14, <3>2 DEF Enter
      <4>2. handled'[p] = Append(handled[p], c.index) /\ handled[p] \in Seq(Nat)
        BY <2>9, <4>1
      <4>3. c.index \in Nat
        BY DEF Asio!Completion
      <4>4. Len(handled'[p]) = Len(handled[p]) + 1
        BY <4>2, <4>3, AppendProperties
      <4>5. QED
        BY <2>9, <3>2, <4>1, <4>4
    <3>3. QED
      BY <3>1, <3>2
  <2>16. ASSUME NEW q \in Ports
         PROVE  /\ \/ NoReceive(ioq', q) /\ taken'[q] = Len(handled'[q])
                   \/ /\ OneReceive(ioq', q, taken'[q]) /\ taken'[q] = Len(handled'[q]) + 1
                      /\ readOp'[q] = None /\ (c.port # q \/ c.handler = "sent")
                /\ readOp'[q] # None => c.port # q \/ c.handler = "sent"
    <3>1. /\ NoReceive(ioq, q) => NoReceive(Tail(ioq), q)
          /\ \A k : OneReceive(ioq, q, k) => OneReceive(Tail(ioq), q, k)
      <4>1. ~Receives(Head(ioq), q)
        BY <1>9 DEF Receives
      <4>2. QED
        BY <1>1, <1>10, <4>1, ReceiveTail
    <3>2. /\ NoReceive(ioq, q) /\ NoReceive(more, q) => NoReceive(ioq', q)
          /\ \A k : OneReceive(ioq, q, k) /\ NoReceive(more, q) => OneReceive(ioq', q, k)
          /\ \A k : NoReceive(ioq, q) /\ OneReceive(more, q, k) => OneReceive(ioq', q, k)
      BY <1>6, <1>10, <3>1, ReceiveConcat
    <3>3. \/ NoReceive(ioq, q) /\ taken[q] = Len(handled[q])
          \/ /\ OneReceive(ioq, q, taken[q]) /\ taken[q] = Len(handled[q]) + 1
             /\ readOp[q] = None
      BY <1>1 DEF OwnInv, OneReceiveEach
    <3>4. readOp \in [Ports -> Asio!Receive \cup {None}]
      BY <1>1 DEF IoTypes
    <3>5. CASE q # p \/ ~Asio!Receives(p)
      <4>1. NoReceive(more, q) /\ taken'[q] = taken[q] /\ readOp'[q] = readOp[q]
        BY <1>5, <1>7, <2>11, <3>4, <3>5
      <4>2. handled'[q] = handled[q] /\ (c.port # q \/ c.handler = "sent")
        BY <2>14, <2>15, <3>5
      <4>3. QED
        BY <3>2, <3>3, <4>1, <4>2
    <3>6. CASE q = p /\ Asio!Receives(p)
      <4>1. readOp'[q] = None /\ taken'[q] = taken[q] + 1
            /\ NoReceive(ioq, q) /\ taken[q] = Len(handled[q])
        BY <1>5, <2>11, <2>13, <3>4, <3>6
      <4>2. CASE n = 0
        <5>1. c.handler # "sent"
          BY <2>4, <2>5, <4>2
        <5>2. NoReceive(ioq', q) /\ Len(handled'[q]) = Len(handled[q]) + 1
          BY <1>7, <2>15, <3>2, <3>6, <4>1, <4>2, <5>1
        <5>3. QED
          BY <4>1, <5>2
      <4>3. CASE n > 0
        <5>1. OneReceive(ioq', q, taken'[q])
          BY <1>7, <3>2, <3>6, <4>1, <4>3
        <5>2. c.handler = "sent" /\ handled' = handled
          BY <2>5, <2>15, <4>3
        <5>3. QED
          BY <4>1, <5>1, <5>2
      <4>4. QED
        BY <2>6, <4>2, <4>3
    <3>7. QED
      BY <3>5, <3>6
  <2>17. c.handler # "sent" => c.index = Len(handled[c.port]) + 1
    BY <2>14
  <2>18. UNCHANGED <<open, arrivals, ioState, sends, main, next, attributed>>
    BY <1>2, <1>5
  <2>19. \A q \in Ports : taken'[q] \in Nat /\ taken'[q] <= Len(arrivals[q])
    BY <1>5, <2>12
  <2>20. OwnInv'
    BY <1>5, <1>8, <2>2, <2>8, <2>16, <2>17, <2>18, <2>19, EnterKeeps
  <2>21. QED
    BY <1>2, <2>20 DEF Asio!Next, Asio!Run
<1>14. QED
  BY <1>12, <1>13

------------------------------------------------------------------------------
(***************************************************************************)
(* The handler.                                                            *)
(***************************************************************************)
(* A send queues no receive. *)
LEMMA SendQueued ==
  ASSUME AllInv, NEW op \in Asio!Send, op.handler = "sent",
         Asio!SendNow(op) \/ Asio!SendLater(op), readOp' = readOp
  PROVE  /\ OwnHandlers'
         /\ FailedReceives(ioq) => FailedReceives(ioq')
         /\ \A p : /\ NoReceive(ioq, p) => NoReceive(ioq', p)
                   /\ \A k : OneReceive(ioq, p, k) => OneReceive(ioq', p, k)
<1>1. OwnInv /\ IoTypes
  BY IoTyped DEF AllInv
<1>2. ioq \in Seq(Asio!QueueItems) /\ writeOps \in [Ports -> Seq(Asio!Send)]
      /\ op.port \in Ports
  BY <1>1 DEF IoTypes, Asio!Send
<1>3. CASE Asio!SendNow(op)
  <2>1. PICK rejected :
          /\ writeOps' = writeOps
          /\ ioq' = Append(ioq, Asio!Completed(Asio!SendDone(op, 1 \in rejected)))
    BY <1>3 DEF Asio!SendNow
  <2>2. PICK c \in Asio!Completion : c = Asio!SendDone(op, 1 \in rejected)
    <3>1. (1 \in rejected) \in BOOLEAN
      OBVIOUS
    <3>2. QED
      BY <3>1, AsioAssumed, Asio!SendDoneType
  <2>3. c.handler = "sent"
    BY <2>2 DEF Asio!SendDone
  <2>4. PICK x \in Asio!QueueItems : x = Asio!Completed(c)
    BY CompletedReceives
  <2>5. ioq' = Append(ioq, x) /\ \A p : ~Receives(x, p)
    BY <2>1, <2>2, <2>3, <2>4, CompletedReceives
  <2>6. OwnHandlers'
    BY <1>1, <2>1 DEF OwnInv, OwnHandlers
  <2>7. FailedReceives(ioq) => FailedReceives(ioq')
    <3>1. /\ Len(ioq) \in Nat /\ DOMAIN ioq = 1..Len(ioq)
          /\ DOMAIN ioq' = 1..(Len(ioq) + 1)
          /\ \A i \in 1..Len(ioq) : ioq'[i] = ioq[i]
          /\ ioq'[Len(ioq) + 1] = x
      <4>1. Len(ioq) \in Nat /\ DOMAIN ioq = 1..Len(ioq)
        BY <1>2, LenProperties
      <4>2. QED
        BY <1>2, <2>5, <4>1, AppendProperties
    <3>2. x.op.handler = "sent"
      BY <2>3, <2>4, CompletedReceives
    <3>3. \A i \in 1..(Len(ioq) + 1) : i \in 1..Len(ioq) \/ i = Len(ioq) + 1
      BY <3>1
    <3>4. QED
      BY <3>1, <3>2, <3>3 DEF FailedReceives
  <2>8. ASSUME NEW p
        PROVE  /\ NoReceive(ioq, p) => NoReceive(ioq', p)
               /\ \A k : OneReceive(ioq, p, k) => OneReceive(ioq', p, k)
    BY <1>2, <2>5, ReceiveAppend
  <2>9. QED
    BY <2>6, <2>7, <2>8
<1>4. CASE Asio!SendLater(op)
  <2>1. ioq' = ioq /\ writeOps' = [writeOps EXCEPT ![op.port] = Append(@, op)]
    BY <1>4 DEF Asio!SendLater
  <2>2. PICK w \in Seq(Asio!Send) : w = writeOps[op.port]
    BY <1>2
  <2>3. PICK v : v = Append(w, op)
    OBVIOUS
  <2>4. \A i \in DOMAIN v : v[i].handler = "sent"
    <3>1. Len(w) \in Nat /\ DOMAIN w = 1..Len(w)
      BY LenProperties
    <3>2. /\ DOMAIN v = 1..(Len(w) + 1)
          /\ \A i \in 1..Len(w) : v[i] = w[i]
          /\ v[Len(w) + 1] = op
      BY <2>3, <3>1, AppendProperties
    <3>3. \A i \in DOMAIN w : w[i].handler = "sent"
      BY <1>1, <1>2, <2>2 DEF OwnInv, OwnHandlers
    <3>4. \A i \in DOMAIN v : i \in DOMAIN w \/ i = Len(w) + 1
      BY <3>1, <3>2
    <3>5. QED
      BY <3>1, <3>2, <3>3, <3>4
  <2>5. \A q \in Ports : writeOps'[q] = IF q = op.port THEN v ELSE writeOps[q]
    BY <1>2, <2>1, <2>2, <2>3
  <2>6. OwnHandlers'
    BY <1>1, <2>4, <2>5 DEF OwnInv, OwnHandlers
  <2>7. QED
    BY <2>1, <2>6 DEF FailedReceives, NoReceive, OneReceive, Receives
<1>5. QED
  BY <1>3, <1>4

LEMMA ForwardPacketKeeps ==
  ASSUME AllInv, ForwardPacket PROVE OwnInv' /\ [Asio!Next]_(Asio!vars)
<1>1. OwnInv /\ IoTypes
  BY IoTyped DEF AllInv
<1>2. /\ step = "send" /\ step' = AfterPacket(running)
      /\ Asio!AsyncSend(running.port, "sent", running.index, running.bytes)
      /\ UNCHANGED <<main, next, handled, attributed>>
  BY SameAsio DEF ForwardPacket
<1>3. running # None
  BY <1>1, <1>2 DEF OwnInv, StepsAgree
<1>4. PICK op : op = [port |-> running.port, handler |-> "sent",
                      index |-> running.index, bytes |-> running.bytes]
  OBVIOUS
<1>5. op \in Asio!Send /\ op.handler = "sent" /\ running.port \in Ports
  BY <1>3, <1>4, RunningTyped DEF Asio!Send
<1>6. /\ Asio!SendNow(op) \/ Asio!SendLater(op)
      /\ sends' = sends + 1
      /\ UNCHANGED <<open, arrivals, taken, readOp, ioState, running, endpoint>>
  BY <1>2, <1>4 DEF Asio!AsyncSend
<1>7. /\ OwnHandlers'
      /\ FailedReceives(ioq) => FailedReceives(ioq')
      /\ \A p : /\ NoReceive(ioq, p) => NoReceive(ioq', p)
                /\ \A k : OneReceive(ioq, p, k) => OneReceive(ioq', p, k)
  BY <1>5, <1>6, SendQueued
<1>8. /\ step' \in {"rearm", "return"} /\ (step' = "rearm" => running.handler = "outer")
      /\ running.handler # "sent"
  BY <1>1, <1>2 DEF AfterPacket, OwnInv, StepsAgree
<1>9. OwnTypes' /\ PhasesInOrder' /\ StepsAgree'
  BY <1>1, <1>2, <1>3, <1>6, <1>8 DEF OwnInv, OwnTypes, PhasesInOrder, StepsAgree
<1>10. EndpointKnown'
  BY <1>1, <1>6, <1>7 DEF OwnInv, EndpointKnown, FailedReceives
<1>11. OneReceiveEach'
  <2>1. \A p \in Ports : Handling(p)' => Handling(p)
    BY <1>2, <1>6, <1>8 DEF Handling
  <2>2. \A p \in Ports :
          /\ \/ NoReceive(ioq', p) /\ taken'[p] = Len(handled'[p])
             \/ /\ OneReceive(ioq', p, taken'[p]) /\ taken'[p] = Len(handled'[p]) + 1
                /\ readOp'[p] = None /\ ~Handling(p)'
          /\ readOp'[p] # None => ~Handling(p)'
          /\ main' \in {"opening", "arming"} /\ p >= next' => NoReceive(ioq', p)
    BY <1>1, <1>2, <1>6, <1>7, <2>1 DEF OwnInv, OneReceiveEach
  <2>3. QED
    BY <2>2 DEF OneReceiveEach, NoReceive, OneReceive, Receives
<1>12. /\ sends \in Nat /\ Cardinality(HandledSlots) \in Nat
       /\ sends + 1 <= Cardinality(HandledSlots)
       /\ HandledSlots' = HandledSlots
  <2>1. Cardinality(HandledSlots) \in Nat
    BY <1>1, SlotsFinite, SlotsAreRows DEF OwnInv, OwnTypes, HandledSlots
  <2>2. sends \in Nat /\ HandledSlots' = HandledSlots
    BY <1>1, <1>2 DEF IoTypes, HandledSlots
  <2>3. sends + (IF step \in {"check", "charge", "send"} THEN 1 ELSE 0)
          <= Cardinality(HandledSlots)
    BY <1>1 DEF OwnInv, SendsBounded
  <2>4. QED
    BY <1>2, <2>1, <2>2, <2>3
<1>13. \A p \in Ports : taken[p] <= Len(arrivals[p]) /\ Len(arrivals[p]) <= MaxArrivals
  BY <1>1 DEF OwnInv, SendsBounded
<1>14. SendsBounded'
  <2>1. sends' + (IF step' \in {"check", "charge", "send"} THEN 1 ELSE 0)
          <= Cardinality(HandledSlots')
    BY <1>6, <1>8, <1>12
  <2>2. QED
    BY <1>6, <1>13, <2>1 DEF SendsBounded
<1>15. HandledInOrderOnce'
  BY <1>1, <1>2, <1>6 DEF OwnInv, HandledInOrderOnce
<1>16. OwnInv'
  BY <1>7, <1>9, <1>10, <1>11, <1>14, <1>15 DEF OwnInv
<1>17. sends < PortCount * MaxArrivals
  <2>1. handled \in [Ports -> Seq(Nat)] /\ HandledSlots = Asio!Waiting(handled)
    BY <1>1, SlotsAreRows DEF OwnInv, OwnTypes, HandledSlots
  <2>2. \A p \in Ports : Len(handled[p]) <= MaxArrivals
    <3>1. SUFFICES ASSUME NEW p \in Ports PROVE Len(handled[p]) <= MaxArrivals
      OBVIOUS
    <3>2. Len(handled[p]) \in Nat /\ taken[p] \in Nat /\ Len(arrivals[p]) \in Nat
      BY <1>1, <2>1, LenProperties DEF IoTypes
    <3>3. Len(handled[p]) <= taken[p]
      BY <1>1 DEF OwnInv, HandledInOrderOnce
    <3>4. MaxArrivals \in Nat
      BY UdpProxyAssumption
    <3>5. QED
      BY <1>13, <3>2, <3>3, <3>4
  <2>3. Cardinality(HandledSlots) <= PortCount * MaxArrivals
    BY <2>1, <2>2, SlotsBounded
  <2>4. PortCount * MaxArrivals \in Nat
    BY AsioAssumed
  <2>5. QED
    BY <1>12, <2>3, <2>4
<1>18. [Asio!Next]_(Asio!vars)
  BY <1>2, <1>3, <1>5, <1>17 DEF Asio!Next, Asio!Program
<1>19. QED
  BY <1>16, <1>18

LEMMA RearmKeeps ==
  ASSUME AllInv, Rearm PROVE OwnInv' /\ [Asio!Next]_(Asio!vars)
<1>1. OwnInv /\ IoTypes
  BY IoTyped DEF AllInv
<1>2. /\ step = "rearm" /\ step' = "return"
      /\ Asio!AsyncReceive(running.port, "inner")
      /\ UNCHANGED <<main, next, handled, attributed>>
  BY SameAsio DEF Rearm
<1>3. running # None /\ running.handler = "outer"
  BY <1>1, <1>2 DEF OwnInv, StepsAgree
<1>4. PICK p \in Ports : p = running.port
  BY <1>3, RunningTyped
<1>5. UNCHANGED <<open, ioState, running>>
  BY <1>2 DEF Asio!AsyncReceive
<1>6. OwnTypes' /\ PhasesInOrder' /\ StepsAgree'
  BY <1>1, <1>2, <1>3, <1>5 DEF OwnInv, OwnTypes, PhasesInOrder, StepsAgree
<1>7. NoReceive(ioq, p)
  <2>1. Handling(p)
    BY <1>2, <1>3, <1>4 DEF Handling
  <2>2. QED
    BY <1>1, <2>1 DEF OwnInv, OneReceiveEach
<1>8. main' \notin {"opening", "arming"}
  BY <1>1, <1>2, <1>3 DEF OwnInv, PhasesInOrder
<1>9. OwnInv'
  BY <1>2, <1>4, <1>6, <1>7, <1>8, ReceiveKeeps
<1>10. QED
  BY <1>2, <1>4, <1>9 DEF Asio!Next, Asio!Program

LEMMA ReturnKeeps ==
  ASSUME AllInv, Return PROVE OwnInv' /\ [Asio!Next]_(Asio!vars)
<1>1. OwnInv /\ IoTypes
  BY IoTyped DEF AllInv
<1>2. /\ step = "return" /\ step' = "none" /\ Asio!FinishHandler
      /\ UNCHANGED <<main, next, handled, attributed>>
  BY SameAsio DEF Return
<1>3. /\ running # None /\ running' = None
      /\ ioState' = ioState \/ ioState' = "stopped"
      /\ UNCHANGED <<open, arrivals, taken, readOp, writeOps, ioq, endpoint, sends>>
  BY <1>2 DEF Asio!FinishHandler, Asio!kernelVars, Asio!reactorVars, Asio!memoryVars
<1>4. OwnTypes' /\ StepsAgree'
  BY <1>1, <1>2, <1>3 DEF OwnInv, OwnTypes, StepsAgree
<1>5. PhasesInOrder'
  BY <1>1, <1>2, <1>3 DEF OwnInv, PhasesInOrder
<1>6. OwnInv'
  BY <1>2, <1>3, <1>4, <1>5, StillKeeps
<1>7. QED
  BY <1>2, <1>6 DEF Asio!Next, Asio!Run

(* Steps of the handler that do not touch asio: the limiter's, and giving up. *)
LEMMA HandlerOnlyKeeps ==
  ASSUME AllInv, AdmitPacket \/ RefusePacket \/ ChargePacket \/ ResolveFails
  PROVE  OwnInv' /\ [Asio!Next]_(Asio!vars)
<1>1. OwnInv /\ IoTypes
  BY IoTyped DEF AllInv
<1>2. /\ step \in {"check", "charge", "send"}
      /\ UNCHANGED <<ioVars, main, next, handled>>
      /\ \/ step' = "charge" \/ step' = "send" \/ step' = AfterPacket(running)
      /\ \/ attributed' = attributed
         \/ attributed' = attributed \cup
              {[port |-> running.port, index |-> running.index, ip |-> endpoint]}
  BY DEF AdmitPacket, RefusePacket, ChargePacket, ResolveFails, Attribute
<1>3. /\ running # None /\ running.handler # "sent" /\ ~running.failed
  BY <1>1, <1>2 DEF OwnInv, StepsAgree
<1>4. /\ UNCHANGED <<open, arrivals, taken, readOp, writeOps, ioq, ioState>>
      /\ UNCHANGED <<running, endpoint, sends>>
  BY <1>2 DEF ioVars
<1>5. OwnTypes'
  <2>1. [port |-> running.port, index |-> running.index, ip |-> endpoint] \in Attribution
    BY <1>1, <1>3, RunningTyped DEF IoTypes, Attribution
  <2>2. attributed' \subseteq Attribution
    BY <1>1, <1>2, <2>1 DEF OwnInv, OwnTypes
  <2>3. QED
    BY <1>1, <1>2, <2>2 DEF OwnInv, OwnTypes, AfterPacket
<1>6. StepsAgree'
  BY <1>1, <1>2, <1>3, <1>4 DEF StepsAgree, AfterPacket
<1>7. PhasesInOrder'
  BY <1>1, <1>2, <1>4 DEF OwnInv, PhasesInOrder
<1>8. OwnInv'
  BY <1>1, <1>2, <1>4, <1>5, <1>6, <1>7, StillKeeps
<1>9. UNCHANGED Asio!vars
  BY <1>2 DEF ioVars, Asio!vars, Asio!kernelVars, Asio!reactorVars,
              Asio!schedulerVars, Asio!memoryVars
<1>10. QED
  BY <1>8, <1>9

------------------------------------------------------------------------------
(***************************************************************************)
(* The world.                                                              *)
(***************************************************************************)
LEMMA DeliverKeeps ==
  ASSUME AllInv, UNCHANGED proxyVars, NEW p \in Ports, NEW src \in Senders,
         NEW size \in Sizes, Asio!Deliver(p, src, size)
  PROVE  OwnInv' /\ [Asio!Next]_(Asio!vars)
<1>1. OwnInv /\ IoTypes
  BY IoTyped DEF AllInv
<1>2. /\ Len(arrivals[p]) < MaxArrivals
      /\ arrivals' = [arrivals EXCEPT ![p] = Append(@, [src |-> src, size |-> size])]
      /\ UNCHANGED <<open, taken, readOp, writeOps, ioq, ioState, running>>
      /\ UNCHANGED <<endpoint, sends, main, next, step, handled, attributed>>
  BY DEF Asio!Deliver, Asio!reactorVars, Asio!schedulerVars, Asio!memoryVars, proxyVars
<1>3. PICK s \in Seq([src : Senders, size : Sizes]) : s = arrivals[p]
  BY <1>1 DEF IoTypes
<1>4. PICK v : v = Append(s, [src |-> src, size |-> size])
  OBVIOUS
<1>5. v \in Seq([src : Senders, size : Sizes]) /\ Len(v) = Len(s) + 1 /\ Len(s) \in Nat
  BY <1>4, AppendProperties, LenProperties
<1>6. \A q \in Ports : arrivals'[q] = IF q = p THEN v ELSE arrivals[q]
  BY <1>1, <1>2, <1>3, <1>4 DEF IoTypes
<1>7. arrivals' \in [Ports -> Seq([src : Senders, size : Sizes])]
  <2>1. arrivals' = [arrivals EXCEPT ![p] = v]
    BY <1>2, <1>3, <1>4
  <2>2. QED
    BY <1>1, <1>5, <2>1 DEF IoTypes
<1>8. ASSUME NEW q \in Ports
      PROVE  Len(arrivals[q]) <= Len(arrivals'[q]) /\ Len(arrivals'[q]) <= MaxArrivals
  <2>1. Len(arrivals[q]) \in Nat /\ Len(arrivals[q]) <= MaxArrivals
    BY <1>1, LenProperties DEF OwnInv, SendsBounded, IoTypes
  <2>2. MaxArrivals \in Nat
    BY UdpProxyAssumption
  <2>3. QED
    BY <1>2, <1>3, <1>5, <1>6, <2>1, <2>2
<1>9. OwnTypes' /\ PhasesInOrder' /\ StepsAgree'
  BY <1>1, <1>2 DEF OwnInv, OwnTypes, PhasesInOrder, StepsAgree
<1>10. OwnInv'
  BY <1>2, <1>7, <1>8, <1>9, CalmKeeps
<1>11. QED
  BY <1>10 DEF Asio!Next, Asio!Kernel

LEMMA SendBufferKeeps ==
  ASSUME AllInv, UNCHANGED proxyVars, NEW p \in Ports, Asio!Block(p) \/ Asio!Drain(p)
  PROVE  OwnInv' /\ [Asio!Next]_(Asio!vars)
<1>1. OwnInv /\ IoTypes
  BY IoTyped DEF AllInv
<1>2. /\ UNCHANGED <<open, arrivals, taken, readOp, writeOps, ioq, ioState, running>>
      /\ UNCHANGED <<endpoint, sends, main, next, step, handled, attributed>>
  BY DEF Asio!Block, Asio!Drain, Asio!reactorVars, Asio!schedulerVars,
         Asio!memoryVars, proxyVars
<1>3. OwnTypes' /\ PhasesInOrder' /\ StepsAgree'
  BY <1>1, <1>2 DEF OwnInv, OwnTypes, PhasesInOrder, StepsAgree
<1>4. OwnInv'
  BY <1>2, <1>3, StillKeeps
<1>5. QED
  BY <1>4 DEF Asio!Next, Asio!Kernel

LEMMA UnchangedKeeps ==
  ASSUME AllInv, UNCHANGED <<ioVars, proxyVars>>
  PROVE  OwnInv' /\ [Asio!Next]_(Asio!vars)
<1>1. OwnInv /\ IoTypes
  BY IoTyped DEF AllInv
<1>2. /\ UNCHANGED <<open, arrivals, taken, readOp, writeOps, ioq, ioState, running>>
      /\ UNCHANGED <<endpoint, sends, main, next, step, handled, attributed>>
  BY DEF ioVars, proxyVars
<1>3. OwnTypes' /\ PhasesInOrder' /\ StepsAgree'
  BY <1>1, <1>2 DEF OwnInv, OwnTypes, PhasesInOrder, StepsAgree
<1>4. OwnInv'
  BY <1>2, <1>3, StillKeeps
<1>5. UNCHANGED Asio!vars
  BY DEF ioVars, Asio!vars, Asio!kernelVars, Asio!reactorVars,
         Asio!schedulerVars, Asio!memoryVars
<1>6. QED
  BY <1>4, <1>5

LEMMA WorldKeeps ==
  ASSUME AllInv, World PROVE OwnInv' /\ [Asio!Next]_(Asio!vars)
<1>1. CASE ClientSends
  <2>1. PICK p \in Ports, src \in Clients, size \in Sizes : Asio!Deliver(p, src, size)
    BY <1>1, SameAsio DEF ClientSends
  <2>2. src \in Senders /\ UNCHANGED proxyVars
    BY <1>1 DEF ClientSends, Senders
  <2>3. QED
    BY <2>1, <2>2, DeliverKeeps
<1>2. CASE RemoteAnswers
  <2>1. PICK p \in Ports, size \in Sizes \cap Nat : Asio!Deliver(p, RemoteServer, size)
    BY <1>2, SameAsio DEF RemoteAnswers
  <2>2. RemoteServer \in Senders /\ size \in Sizes /\ UNCHANGED proxyVars
    BY <1>2 DEF RemoteAnswers, Senders
  <2>3. QED
    BY <2>1, <2>2, DeliverKeeps
<1>3. CASE SendBufferFills
  BY <1>3, SameAsio, SendBufferKeeps DEF SendBufferFills
<1>4. CASE \E p \in Ports : SendBufferDrains(p)
  BY <1>4, SameAsio, SendBufferKeeps DEF SendBufferDrains
<1>5. CASE Tick
  BY <1>5, UnchangedKeeps DEF Tick
<1>6. QED
  BY <1>1, <1>2, <1>3, <1>4, <1>5 DEF World

(***************************************************************************)
(* Every step of the proxy.                                                *)
(***************************************************************************)
LEMMA OwnStep ==
  ASSUME AllInv, [Next]_vars PROVE OwnInv' /\ [Asio!Next]_(Asio!vars)
<1>1. CASE StartProxy
  BY <1>1, OpenPortKeeps, ArmPortKeeps, StartIoThreadKeeps, JoinedKeeps DEF StartProxy
<1>2. CASE IoThread
  BY <1>2, RunTaskKeeps, RunDescriptorKeeps, RunCompletionKeeps, HandlerOnlyKeeps,
     ForwardPacketKeeps, RearmKeeps, ReturnKeeps DEF IoThread, Handler
<1>3. CASE World
  BY <1>3, WorldKeeps
<1>4. CASE UNCHANGED vars
  BY <1>4, UnchangedKeeps DEF vars
<1>5. QED
  BY <1>1, <1>2, <1>3, <1>4 DEF Next

(***************************************************************************)
(* The limiter is asked about addresses of senders only: when a handler    *)
(* checks a packet, a datagram has been received and clientEndpoint set.   *)
(***************************************************************************)
LEMMA LimiterMoves ==
  ASSUME AllInv, [Next]_vars PROVE [Lim!Next]_(Lim!vars)
<1>1. OwnInv /\ IoTypes
  BY IoTyped DEF AllInv
<1>2. UNCHANGED limiterVars => UNCHANGED Lim!vars
  BY DEF limiterVars, Lim!vars
<1>3. step = "check" => endpoint \in Senders
  <2>1. SUFFICES ASSUME step = "check" PROVE endpoint \in Senders
    OBVIOUS
  <2>2. running # None /\ running.handler # "sent" /\ ~running.failed
    BY <1>1, <2>1 DEF OwnInv, StepsAgree
  <2>3. endpoint # None
    BY <1>1, <2>2 DEF OwnInv, EndpointKnown
  <2>4. QED
    BY <1>1, <2>3 DEF IoTypes
<1>4. AdmitPacket \/ RefusePacket => Lim!Next
  BY <1>3, SameLimiter DEF AdmitPacket, RefusePacket, Lim!Next
<1>5. ChargePacket => Lim!Next
  BY SameLimiter DEF ChargePacket, Lim!Next
<1>6. Tick => Lim!Next
  BY SameLimiter DEF Tick, Lim!Next
<1>7. StartProxy => UNCHANGED limiterVars
  BY DEF StartProxy, OpenPort, ArmPort, StartIoThread, Joined
<1>8. RunTask \/ RunCompletion \/ (\E p \in Ports : RunDescriptor(p))
        \/ ForwardPacket \/ ResolveFails \/ Rearm \/ Return => UNCHANGED limiterVars
  BY DEF RunTask, RunCompletion, RunDescriptor, ForwardPacket, ResolveFails, Rearm, Return
<1>9. ClientSends \/ RemoteAnswers \/ SendBufferFills
        \/ (\E p \in Ports : SendBufferDrains(p)) => UNCHANGED limiterVars
  BY DEF ClientSends, RemoteAnswers, SendBufferFills, SendBufferDrains
<1>10. UNCHANGED vars => UNCHANGED limiterVars
  BY DEF vars
<1>11. Next => Lim!Next \/ UNCHANGED limiterVars
  BY <1>4, <1>5, <1>6, <1>7, <1>8, <1>9 DEF Next, IoThread, Handler, World
<1>12. QED
  BY <1>2, <1>10, <1>11

------------------------------------------------------------------------------
LEMMA InitAll == ASSUME Init PROVE AllInv
<1>1. Asio!EventInv
  <2>1. Asio!Init
    BY SameAsio DEF Init
  <2>2. QED
    BY <2>1, AsioAssumed, Asio!InitEvent
<1>2. Lim!LimiterInv
  <2>1. Lim!Init
    BY SameLimiter DEF Init
  <2>2. QED
    BY <2>1, LimiterAssumed, Lim!InitInv
<1>3. /\ open = {} /\ arrivals = [p \in Ports |-> <<>>] /\ taken = [p \in Ports |-> 0]
      /\ readOp = [p \in Ports |-> None] /\ writeOps = [p \in Ports |-> <<>>]
      /\ ioq = <<Asio!Task>> /\ ioState = "idle" /\ running = None /\ sends = 0
      /\ main = "opening" /\ next = 1 /\ step = "none"
      /\ handled = [p \in Ports |-> <<>>] /\ attributed = {}
  BY SameAsio DEF Init, Asio!Init
<1>4. PICK none : none = <<>> /\ Len(none) = 0 /\ DOMAIN none = {} /\ none \in Seq(Nat)
  <2>1. PICK none : none = <<>>
    OBVIOUS
  <2>2. none \in Seq(Nat) /\ Len(none) = 0
    BY <2>1
  <2>3. DOMAIN none = {}
    BY <2>1
  <2>4. QED
    BY <2>1, <2>2, <2>3
<1>5. \A p \in Ports : /\ handled[p] = none /\ arrivals[p] = none /\ writeOps[p] = none
                       /\ taken[p] = 0 /\ readOp[p] = None
  BY <1>3, <1>4
<1>6. OwnTypes
  <2>1. 1 \in 1..(PortCount + 1)
    BY PortsFinite
  <2>2. handled \in [Ports -> Seq(Nat)]
    BY <1>3, <1>4
  <2>3. QED
    BY <1>3, <2>1, <2>2 DEF OwnTypes
<1>7. PhasesInOrder /\ StepsAgree
  BY <1>3, <1>4, <1>5 DEF PhasesInOrder, StepsAgree
<1>8. OwnHandlers /\ HandledInOrderOnce
  BY <1>4, <1>5 DEF OwnHandlers, HandledInOrderOnce
<1>9. PICK q : q = <<Asio!Task>>
  OBVIOUS
<1>10. DOMAIN q = {1} /\ q[1].item = "task"
  <2>1. Len(q) = 1 /\ q[1] = Asio!Task /\ q \in Seq({Asio!Task})
    BY <1>9
  <2>2. DOMAIN q = 1..1
    BY <2>1, LenProperties
  <2>3. QED
    BY <2>1, <2>2 DEF Asio!Task
<1>11. EndpointKnown
  BY <1>3, <1>9, <1>10 DEF EndpointKnown
<1>12. OneReceiveEach
  <2>1. \A p \in Ports : NoReceive(ioq, p)
    BY <1>3, <1>9, <1>10 DEF NoReceive, Receives
  <2>2. QED
    BY <1>4, <1>5, <2>1 DEF OneReceiveEach
<1>13. SendsBounded
  <2>1. \A p \in Ports : taken[p] <= Len(arrivals[p]) /\ Len(arrivals[p]) <= MaxArrivals
    BY <1>4, <1>5, UdpProxyAssumption
  <2>2. HandledSlots = {}
    BY <1>4, <1>5 DEF HandledSlots
  <2>3. Cardinality(HandledSlots) = 0
    BY <2>2, FS_EmptySet
  <2>4. QED
    BY <1>3, <2>1, <2>3 DEF SendsBounded
<1>14. QED
  BY <1>1, <1>2, <1>6, <1>7, <1>8, <1>11, <1>12, <1>13 DEF AllInv, OwnInv

LEMMA AllStep == ASSUME AllInv, [Next]_vars PROVE AllInv'
<1>1. OwnInv' /\ [Asio!Next]_(Asio!vars)
  BY OwnStep
<1>2. [Lim!Next]_(Lim!vars)
  BY LimiterMoves
<1>3. Asio!EventInv'
  BY <1>1, EventStep DEF AllInv
<1>4. Lim!LimiterInv'
  BY <1>2, LimiterStep DEF AllInv
<1>5. QED
  BY <1>1, <1>3, <1>4 DEF AllInv

LEMMA AllAlways == Spec => []AllInv
<1>1. Init => AllInv
  BY InitAll
<1>2. AllInv /\ [Next]_vars => AllInv'
  BY AllStep
<1>3. QED
  BY <1>1, <1>2, PTL DEF Spec

(***************************************************************************)
(* Datagrams of a port are handled in the order of their arrival, each     *)
(* once (udp_proxy.cpp:24-44).                                             *)
(***************************************************************************)
THEOREM OrderAndOnce == Spec => []HandledInOrderOnce
<1>1. AllInv => HandledInOrderOnce
  BY DEF AllInv, OwnInv
<1>2. QED
  BY <1>1, AllAlways, PTL

(***************************************************************************)
(* A start is all or nothing: no handler runs unless every port could be   *)
(* bound and armed (udp_proxy.cpp:18-54).                                  *)
(***************************************************************************)
THEOREM AllOrNone == Spec => []AllPortsOrNone
<1>1. AllInv => AllPortsOrNone
  <2>1. SUFFICES ASSUME AllInv, running # None \/ (\E p \in Ports : handled[p] # <<>>)
                 PROVE  open = Ports /\ main \in {"joined", "returned"}
    BY DEF AllPortsOrNone
  <2>2. OwnTypes /\ PhasesInOrder
    BY <2>1 DEF AllInv, OwnInv
  <2>3. ioState # "idle"
    BY <2>1, <2>2 DEF PhasesInOrder
  <2>4. main \in {"joined", "returned"}
    BY <2>2, <2>3 DEF PhasesInOrder, OwnTypes
  <2>5. QED
    BY <2>2, <2>4 DEF PhasesInOrder
<1>2. QED
  BY <1>1, AllAlways, PTL

(***************************************************************************)
(* When startProxy returns after a start, every datagram that was taken is *)
(* handled and no send is left behind: run() ends only with nothing        *)
(* outstanding, so no receive is queued (scheduler.ipp, udp_proxy.cpp:50). *)
(***************************************************************************)
THEOREM ReturnsThrough == Spec => []ReturnsWhenDone
<1>1. AllInv => ReturnsWhenDone
  <2>1. SUFFICES ASSUME AllInv, main = "returned", NEW p \in Ports
                 PROVE  /\ Len(handled[p]) = taken[p]
                        /\ writeOps[p] = <<>> /\ readOp[p] = None
    BY DEF ReturnsWhenDone
  <2>2. ioState = "stopped" /\ OneReceiveEach
    BY <2>1 DEF AllInv, OwnInv, PhasesInOrder
  <2>3. Asio!QueuedAt("completion") = {} /\ writeOps[p] = <<>> /\ readOp[p] = None
    BY <2>1, <2>2 DEF AllInv, Asio!EventInv, Asio!AsioInv, Asio!StopsOnlyWhenIdle
  <2>4. \A i \in DOMAIN ioq : ioq[i].item # "completion"
    BY <2>3 DEF Asio!QueuedAt
  <2>5. \A k : ~OneReceive(ioq, p, k)
    BY <2>4 DEF OneReceive, Receives
  <2>6. QED
    BY <2>2, <2>3, <2>5 DEF OneReceiveEach
<1>2. QED
  BY <1>1, AllAlways, PTL

(***************************************************************************)
(* The proxy uses asio as AsioUdp describes it: it starts a receive only   *)
(* on an open socket that has none pending, sends from a handler only and  *)
(* no more than once for each datagram, so what is proved of asio's queue, *)
(* count and wakeups holds in the proxy.                                   *)
(***************************************************************************)
THEOREM AsioUsedRight == Spec => UsesAsio
<1>1. Init => Io!Init
  BY DEF Init
<1>2. AllInv /\ [Next]_vars => [Io!Next]_(Io!vars)
  BY OwnStep, SameAsio
<1>3. QED
  BY <1>1, <1>2, AllAlways, PTL DEF Spec, UsesAsio, Io!Spec

(***************************************************************************)
(* The proxy uses the limiter as IpLimiter describes it: about addresses   *)
(* of senders, one packet at a time, so no more packets of an address are  *)
(* charged in a window than its limit (udp_proxy.cpp:58-68).               *)
(***************************************************************************)
THEOREM LimiterUsedRight == Spec => UsesLimiter
<1>1. Init => Limiter!Init
  BY DEF Init
<1>2. AllInv /\ [Next]_vars => [Limiter!Next]_(Limiter!vars)
  BY LimiterMoves, SameLimiter
<1>3. QED
  BY <1>1, <1>2, AllAlways, PTL DEF Spec, UsesLimiter, Limiter!Spec

(***************************************************************************)
(* However clients spread their packets over time and ports, no more than  *)
(* the limit of one counted address are charged in any window: what        *)
(* IpLimiter promises survives the way the proxy asks about a packet first *)
(* and charges it later (udp_proxy.cpp:61-66).                             *)
(***************************************************************************)
THEOREM ClientsLimited == Spec => []Limiter!WindowLimit
<1>1. Init => Lim!Init
  BY SameLimiter DEF Init
<1>2. AllInv /\ [Next]_vars => [Lim!Next]_(Lim!vars)
  BY LimiterMoves
<1>3. Spec => Lim!Spec
  BY <1>1, <1>2, AllAlways, PTL DEF Spec, Lim!Spec
<1>4. Lim!Spec => []Lim!WindowLimit
  BY LimiterAssumed, Lim!LimitHolds
<1>5. Lim!WindowLimit <=> Limiter!WindowLimit
  BY DEF Lim!WindowLimit, Limiter!WindowLimit, Lim!Promise!WindowLimit,
         Limiter!Promise!WindowLimit, Lim!Limit, Limiter!Limit, Lim!Window, Limiter!Window
<1>6. QED
  BY <1>3, <1>4, <1>5, PTL

------------------------------------------------------------------------------
(***************************************************************************)
(* Second, what is sent on: the invariant FlowInv needs the first one.     *)
(***************************************************************************)
FlowInv == HandlerAtHand /\ SendsFollow /\ AttributionsFollow /\ PaidFor

(* What this part needs of the types. *)
FlowTypes ==
  /\ wire \in Seq(Asio!Wired)
  /\ \A i \in DOMAIN wire : wire[i].port \in Ports /\ wire[i].index \in Nat
  /\ writeOps \in [Ports -> Seq(Asio!Send)]
  /\ \A p \in Ports : \A i \in DOMAIN writeOps[p] : writeOps[p][i].index \in Nat
  /\ handled \in [Ports -> Seq(Nat)]
  /\ \A p \in Ports : Len(handled[p]) \in Nat
  /\ attributed \subseteq Attribution
  /\ charges \in [Senders -> Seq(Lim!Charge)]
  /\ \A ip \in Senders : Len(charges[ip]) \in Nat
  /\ running # None => running.port \in Ports /\ running.index \in Nat

LEMMA FlowTyped == AllInv => FlowTypes
<1>1. SUFFICES ASSUME AllInv PROVE FlowTypes
  OBVIOUS
<1>2. wire \in Seq(Asio!Wired) /\ writeOps \in [Ports -> Seq(Asio!Send)]
  BY <1>1 DEF AllInv, Asio!EventInv, Asio!AsioInv, Asio!TypeOK, Asio!Wired
<1>3. /\ \A i \in DOMAIN wire : wire[i].port \in Ports /\ wire[i].index \in Nat
      /\ \A p \in Ports : \A i \in DOMAIN writeOps[p] : writeOps[p][i].index \in Nat
  <2>1. /\ \A w \in Asio!Wired : w.port \in Ports /\ w.index \in Nat
        /\ \A op \in Asio!Send : op.index \in Nat
    BY DEF Asio!Wired, Asio!Send
  <2>2. ASSUME NEW p \in Ports, NEW i \in DOMAIN writeOps[p]
        PROVE  writeOps[p][i].index \in Nat
    <3>1. writeOps[p] \in Seq(Asio!Send)
      BY <1>2
    <3>2. i \in 1..Len(writeOps[p])
      BY <3>1, LenProperties
    <3>3. writeOps[p][i] \in Asio!Send
      BY <3>1, <3>2, ElementOfSeq
    <3>4. QED
      BY <2>1, <3>3
  <2>3. ASSUME NEW i \in DOMAIN wire
        PROVE  wire[i].port \in Ports /\ wire[i].index \in Nat
    <3>1. i \in 1..Len(wire)
      BY <1>2, LenProperties
    <3>2. wire[i] \in Asio!Wired
      BY <1>2, <3>1, ElementOfSeq
    <3>3. QED
      BY <2>1, <3>2
  <2>4. QED
    BY <2>2, <2>3
<1>4. handled \in [Ports -> Seq(Nat)] /\ attributed \subseteq Attribution
  BY <1>1 DEF AllInv, OwnInv, OwnTypes
<1>5. \A p \in Ports : Len(handled[p]) \in Nat
  BY <1>4, LenProperties
<1>6. charges \in [Senders -> Seq(Lim!Charge)]
  BY <1>1 DEF AllInv, Lim!LimiterInv, Lim!TypeOK
<1>7. \A ip \in Senders : Len(charges[ip]) \in Nat
  BY <1>6, LenProperties
<1>8. running # None => running.port \in Ports /\ running.index \in Nat
  BY <1>1, RunningTyped
<1>9. QED
  BY <1>2, <1>3, <1>4, <1>5, <1>6, <1>7, <1>8 DEF FlowTypes

(* SendsFollow, told of datagrams and not of places in queues. *)
SendPorts == \A p \in Ports : \A i \in DOMAIN writeOps[p] : writeOps[p][i].port = p

LEMMA FollowForm ==
  ASSUME \A i \in DOMAIN wire : wire[i].port \in Ports
  PROVE  SendsFollow <=>
           /\ SendPorts
           /\ \A p \in Ports : \A k : Underway(p, k) => Past(p, k) /\ WasChecked(p, k)
BY DEF SendsFollow, SendPorts, Underway

LEMMA FollowFormNext ==
  ASSUME \A i \in DOMAIN wire' : wire'[i].port \in Ports
  PROVE  SendsFollow' <=>
           /\ SendPorts'
           /\ \A p \in Ports : \A k : Underway(p, k)' => Past(p, k)' /\ WasChecked(p, k)'
BY DEF SendsFollow, SendPorts, Underway

(* What no longer leaves need not be paid. *)
LEMMA PaidKeeps ==
  ASSUME FlowTypes, IsFiniteSet(attributed), PaidFor, charges' = charges,
         \A a \in attributed' :
           Leaves(a.port, a.index)' => a \in attributed /\ Leaves(a.port, a.index)
  PROVE  PaidFor'
<1>1. SUFFICES ASSUME NEW ip \in Senders \ ExcludedIps
               PROVE  Cardinality({a \in attributed' : a.ip = ip /\ Leaves(a.port, a.index)'})
                        <= Len(charges[ip])
  BY DEF PaidFor
<1> DEFINE old == {a \in attributed : a.ip = ip /\ Leaves(a.port, a.index)}
           now1 == {a \in attributed' : a.ip = ip /\ Leaves(a.port, a.index)'}
<1>2. now1 \subseteq old /\ old \subseteq attributed
  OBVIOUS
<1>3. Cardinality(old) <= Len(charges[ip])
  BY DEF PaidFor
<1> HIDE DEF old, now1
<1>4. IsFiniteSet(old) /\ Cardinality(old) \in Nat
  BY <1>2, FS_Subset, FS_CardinalityType
<1>5. IsFiniteSet(now1) /\ Cardinality(now1) \in Nat /\ Cardinality(now1) <= Cardinality(old)
  BY <1>2, <1>4, FS_Subset, FS_CardinalityType
<1>6. Cardinality(now1) <= Len(charges[ip])
  BY <1>3, <1>4, <1>5 DEF FlowTypes
<1>7. QED
  BY <1>6 DEF now1

(***************************************************************************)
(* Steps that begin no handler and check nothing: what was sent or waits   *)
(* did so before, or is the datagram at hand, which its handler is through *)
(* with.                                                                   *)
(***************************************************************************)
Through == step' \in {"none", "rearm", "return"}

LEMMA FlowKeeps ==
  ASSUME AllInv, FlowInv, FlowTypes', SendPorts',
         UNCHANGED <<attributed, charges, handled>>,
         \A p \in Ports : \A k : Underway(p, k)' =>
           \/ Underway(p, k)
           \/ step = "send" /\ Through /\ running.port = p /\ running.index = k,
         \/ UNCHANGED <<running, step, checked>>
         \/ running' \in {running, None} /\ Through
  PROVE  FlowInv'
<1>1. FlowTypes
  BY FlowTyped
<1>2. HandlerAtHand'
  BY DEF FlowInv, HandlerAtHand
<1>3. /\ \A p \in Ports : Sending(p)' => Sending(p)
      /\ Through => \A p \in Ports : ~Sending(p)'
  BY DEF Sending, Through
<1>4. SendsFollow'
  <2>1. \A p \in Ports : \A k : Underway(p, k) => Past(p, k) /\ WasChecked(p, k)
    BY <1>1, FollowForm DEF FlowInv, FlowTypes
  <2>2. ASSUME NEW p \in Ports, NEW k, Underway(p, k)'
        PROVE  Past(p, k)' /\ WasChecked(p, k)'
    <3>1. WasChecked(p, k) => WasChecked(p, k)'
      BY DEF WasChecked
    <3>2. CASE Underway(p, k)
      <4>1. Past(p, k) /\ WasChecked(p, k)
        BY <2>1, <3>2
      <4>2. Past(p, k)'
        BY <1>3, <4>1 DEF Past
      <4>3. QED
        BY <3>1, <4>1, <4>2
    <3>3. CASE step = "send" /\ Through /\ running.port = p /\ running.index = k
      <4>1. WasChecked(p, k)
        BY <3>3 DEF FlowInv, AttributionsFollow
      <4>2. running # None /\ running.handler # "sent"
        BY <3>3 DEF AllInv, OwnInv, StepsAgree
      <4>3. k = Len(handled[p])
        BY <3>3, <4>2 DEF FlowInv, HandlerAtHand
      <4>4. Past(p, k)'
        BY <1>1, <1>3, <3>3, <4>3 DEF Past, FlowTypes
      <4>5. QED
        BY <3>1, <4>1, <4>4
    <3>4. QED
      BY <2>2, <3>2, <3>3
  <2>3. QED
    BY <2>2, FollowFormNext DEF FlowTypes
<1>5. AttributionsFollow'
  <2>1. step' \in {"check", "charge", "send"} => UNCHANGED <<running, step, checked>>
    BY DEF Through
  <2>2. QED
    BY <2>1 DEF FlowInv, AttributionsFollow, WasChecked
<1>6. PaidFor'
  <2>1. ASSUME NEW a \in attributed', Leaves(a.port, a.index)'
        PROVE  a \in attributed /\ Leaves(a.port, a.index)
    <3>1. a \in attributed /\ a.port \in Ports
      BY <1>1 DEF FlowTypes, Attribution
    <3>2. CASE Underway(a.port, a.index)'
      BY <3>1, <3>2 DEF Leaves
    <3>3. CASE step' = "send" /\ running'.port = a.port /\ running'.index = a.index
      BY <3>1, <3>3 DEF Leaves, Through
    <3>4. QED
      BY <2>1, <3>2, <3>3 DEF Leaves
  <2>2. QED
    BY <1>1, <2>1, PaidKeeps DEF FlowInv, AttributionsFollow
<1>7. QED
  BY <1>2, <1>4, <1>5, <1>6 DEF FlowInv

(* The case that nothing is sent and nothing begins to wait. *)
LEMMA FlowStill ==
  ASSUME AllInv, FlowInv, UNCHANGED <<wire, writeOps, attributed, charges, handled>>,
         \/ UNCHANGED <<running, step, checked>>
         \/ running' \in {running, None} /\ Through
  PROVE  FlowInv'
<1>1. FlowTypes
  BY FlowTyped
<1>2. FlowTypes'
  BY <1>1 DEF FlowTypes
<1>3. SendPorts'
  BY <1>1, FollowForm DEF FlowInv, SendPorts, FlowTypes
<1>4. \A p \in Ports : \A k : Underway(p, k)' => Underway(p, k)
  BY DEF Underway
<1>5. QED
  BY <1>2, <1>3, <1>4, FlowKeeps

(***************************************************************************)
(* A handler begins.                                                       *)
(***************************************************************************)
LEMMA FlowEnter ==
  ASSUME AllInv, FlowInv, FlowTypes', SendPorts',
         UNCHANGED <<attributed, charges>>, step = "none",
         NEW c \in Asio!Completion, running' = c, Enter(c),
         c.handler # "sent" => c.index = Len(handled[c.port]) + 1,
         \A p \in Ports : \A k : Underway(p, k)' => Underway(p, k)
  PROVE  FlowInv'
<1>1. FlowTypes
  BY FlowTyped
<1>2. c.port \in Ports /\ c.index \in Nat
  BY DEF Asio!Completion
<1>3. step' = FirstStep(c) /\ step' \in {"check", "rearm", "return"}
      /\ (step' = "check" => c.handler # "sent")
  BY DEF Enter, FirstStep
<1>4. /\ c.handler = "sent" => handled' = handled
      /\ c.handler # "sent" =>
           /\ Len(handled'[c.port]) = Len(handled[c.port]) + 1
           /\ \A p \in Ports : p # c.port => handled'[p] = handled[p]
  <2>1. CASE c.handler = "sent"
    BY <2>1 DEF Enter
  <2>2. CASE c.handler # "sent"
    <3>1. handled' = [handled EXCEPT ![c.port] = Append(@, c.index)]
      BY <2>2 DEF Enter
    <3>2. handled \in [Ports -> Seq(Nat)]
      BY <1>1 DEF FlowTypes
    <3>3. PICK s \in Seq(Nat) : s = handled[c.port]
      BY <1>2, <3>2
    <3>4. handled'[c.port] = Append(s, c.index)
      BY <1>2, <3>1, <3>2, <3>3
    <3>5. Len(handled'[c.port]) = Len(s) + 1
      BY <1>2, <3>4, AppendProperties
    <3>6. \A p \in Ports : p # c.port => handled'[p] = handled[p]
      BY <3>1, <3>2
    <3>7. QED
      BY <2>2, <3>3, <3>5, <3>6
  <2>3. QED
    BY <2>1, <2>2
<1>5. \A p \in Ports : /\ Len(handled[p]) \in Nat /\ Len(handled'[p]) \in Nat
                       /\ Len(handled[p]) <= Len(handled'[p])
                       /\ step' = "check" /\ c.port = p => Len(handled[p]) < Len(handled'[p])
  <2>1. SUFFICES ASSUME NEW p \in Ports
                 PROVE  /\ Len(handled[p]) \in Nat /\ Len(handled'[p]) \in Nat
                        /\ Len(handled[p]) <= Len(handled'[p])
                        /\ step' = "check" /\ c.port = p =>
                             Len(handled[p]) < Len(handled'[p])
    OBVIOUS
  <2>2. Len(handled[p]) \in Nat /\ Len(handled'[p]) \in Nat
    BY <1>1 DEF FlowTypes
  <2>3. CASE c.handler = "sent"
    BY <1>3, <1>4, <2>2, <2>3
  <2>4. CASE c.handler # "sent"
    BY <1>4, <2>2, <2>4
  <2>5. QED
    BY <2>3, <2>4
<1>6. HandlerAtHand'
  BY <1>1, <1>2, <1>4 DEF HandlerAtHand, FlowTypes
<1>7. SendsFollow'
  <2>1. \A p \in Ports : \A k : Underway(p, k) => Past(p, k) /\ WasChecked(p, k)
    BY <1>1, FollowForm DEF FlowInv, FlowTypes
  <2>2. \A p \in Ports : Sending(p)' => step' = "check" /\ c.port = p
    BY <1>3 DEF Sending
  <2>3. ASSUME NEW p \in Ports, NEW k, Underway(p, k)'
        PROVE  Past(p, k)' /\ WasChecked(p, k)'
    <3>1. Underway(p, k)
      BY <2>3
    <3>2. Past(p, k) /\ WasChecked(p, k)
      BY <2>1, <3>1
    <3>3. k \in Int
      BY <1>1, <3>1 DEF Underway, FlowTypes
    <3>4. Past(p, k)'
      BY <1>5, <2>2, <3>2, <3>3 DEF Past
    <3>5. WasChecked(p, k)'
      BY <3>2 DEF WasChecked
    <3>6. QED
      BY <3>4, <3>5
  <2>4. QED
    BY <2>3, FollowFormNext DEF FlowTypes
<1>8. AttributionsFollow'
  <2>1. IsFiniteSet(attributed')
    BY DEF FlowInv, AttributionsFollow
  <2>2. ASSUME NEW a \in attributed'
        PROVE  /\ a.index <= Len(handled'[a.port])
               /\ step' = "check" /\ running'.port = a.port =>
                    a.index < Len(handled'[a.port])
    <3>1. a \in attributed /\ a.port \in Ports /\ a.index \in Nat
      BY <1>1 DEF FlowTypes, Attribution
    <3>2. a.index <= Len(handled[a.port])
      BY <3>1 DEF FlowInv, AttributionsFollow
    <3>3. QED
      BY <1>5, <3>1, <3>2
  <2>3. QED
    BY <1>3, <2>1, <2>2 DEF AttributionsFollow
<1>9. PaidFor'
  <2>1. ASSUME NEW a \in attributed', Leaves(a.port, a.index)'
        PROVE  a \in attributed /\ Leaves(a.port, a.index)
    <3>1. a \in attributed /\ a.port \in Ports
      BY <1>1 DEF FlowTypes, Attribution
    <3>2. QED
      BY <1>3, <2>1, <3>1 DEF Leaves
  <2>2. QED
    BY <1>1, <2>1, PaidKeeps DEF FlowInv, AttributionsFollow
<1>10. QED
  BY <1>6, <1>7, <1>8, <1>9 DEF FlowInv

LEMMA FlowTypedNext == AllInv' => FlowTypes'
BY FlowTyped, PTL

(***************************************************************************)
(* A handler asks whether to let its packet through: nothing has been sent *)
(* for the datagram yet, and nobody has checked it.                        *)
(***************************************************************************)
LEMMA FlowCheck ==
  ASSUME AllInv, AllInv', FlowInv, AdmitPacket \/ RefusePacket PROVE FlowInv'
<1>1. FlowTypes /\ FlowTypes'
  BY FlowTyped, FlowTypedNext
<1>2. PICK x : x = [port |-> running.port, index |-> running.index, ip |-> endpoint]
  OBVIOUS
<1>3. /\ step = "check" /\ attributed' = attributed \cup {x}
      /\ UNCHANGED <<wire, writeOps, running, handled>>
  BY <1>2 DEF AdmitPacket, RefusePacket, Attribute, ioVars
<1>4. /\ charges' = charges
      /\ \/ step' = "charge" /\ checked' = [ip |-> endpoint, seen |-> now]
         \/ step' \in {"rearm", "return"}
  <2>1. CASE AdmitPacket
    BY <2>1 DEF AdmitPacket, Limiter!CheckExcluded, Limiter!CheckAdmits
  <2>2. CASE RefusePacket
    BY <2>2 DEF RefusePacket, Limiter!CheckRefuses, AfterPacket
  <2>3. QED
    BY <2>1, <2>2
<1>5. running # None /\ running.handler # "sent"
  BY <1>3 DEF AllInv, OwnInv, StepsAgree
<1>6. x.port = running.port /\ x.index = running.index /\ x.ip = endpoint
  BY <1>2
<1>7. /\ x.port \in Ports /\ x.index = Len(handled[x.port])
      /\ Len(handled[x.port]) \in Nat
  BY <1>1, <1>5, <1>6 DEF FlowInv, HandlerAtHand, FlowTypes
<1>8. HandlerAtHand'
  BY <1>3 DEF FlowInv, HandlerAtHand
<1>9. \A p \in Ports : \A k : Underway(p, k) => Past(p, k) /\ WasChecked(p, k)
  BY <1>1, FollowForm DEF FlowInv, FlowTypes
<1>10. SendsFollow'
  <2>1. SendPorts'
    BY <1>1, <1>3, FollowForm DEF FlowInv, SendPorts, FlowTypes
  <2>2. \A p \in Ports : Sending(p)' => Sending(p)
    BY <1>3, <1>4 DEF Sending
  <2>3. ASSUME NEW p \in Ports, NEW k, Underway(p, k)'
        PROVE  Past(p, k)' /\ WasChecked(p, k)'
    <3>1. Underway(p, k)
      BY <1>3, <2>3 DEF Underway
    <3>2. Past(p, k) /\ WasChecked(p, k)
      BY <1>9, <3>1
    <3>3. Past(p, k)'
      BY <1>3, <2>2, <3>2 DEF Past
    <3>4. WasChecked(p, k)'
      BY <1>3, <3>2 DEF WasChecked
    <3>5. QED
      BY <3>3, <3>4
  <2>4. QED
    BY <1>1, <2>1, <2>3, FollowFormNext DEF FlowTypes
<1>11. AttributionsFollow'
  <2>1. IsFiniteSet(attributed')
    BY <1>3, FS_AddElement DEF FlowInv, AttributionsFollow
  <2>2. WasChecked(running.port, running.index)'
    BY <1>3, <1>6 DEF WasChecked
  <2>3. ASSUME NEW a \in attributed'
        PROVE  /\ a.index <= Len(handled'[a.port])
               /\ step' = "charge" /\ running'.port = a.port /\ running'.index = a.index =>
                    a.ip = checked'.ip
    <3>1. CASE a \in attributed
      <4>1. a.port \in Ports /\ a.index \in Nat
        BY <1>1, <3>1 DEF FlowTypes, Attribution
      <4>2. /\ a.index <= Len(handled[a.port])
            /\ running.port = a.port => a.index < Len(handled[a.port])
        BY <1>3, <3>1 DEF FlowInv, AttributionsFollow
      <4>3. running.port = a.port => a.index # running.index
        BY <1>6, <1>7, <4>1, <4>2
      <4>4. QED
        BY <1>3, <4>2, <4>3
    <3>2. CASE a = x
      <4>1. a.index <= Len(handled'[a.port])
        BY <1>3, <1>7, <3>2
      <4>2. step' = "charge" => a.ip = checked'.ip
        BY <1>4, <1>6, <3>2
      <4>3. QED
        BY <4>1, <4>2
    <3>3. QED
      BY <1>3, <3>1, <3>2
  <2>4. step' # "check"
    BY <1>4
  <2>5. QED
    BY <2>1, <2>2, <2>3, <2>4 DEF AttributionsFollow
<1>12. PaidFor'
  <2>1. ASSUME NEW a \in attributed', Leaves(a.port, a.index)'
        PROVE  a \in attributed /\ Leaves(a.port, a.index)
    <3>1. Underway(a.port, a.index)
      BY <1>3, <1>4, <2>1 DEF Leaves, Underway
    <3>2. a # x
      <4>1. SUFFICES ASSUME a = x PROVE FALSE
        OBVIOUS
      <4>2. Past(x.port, x.index)
        BY <1>7, <1>9, <3>1, <4>1
      <4>3. Sending(x.port)
        BY <1>3, <1>5, <1>6 DEF Sending
      <4>4. QED
        BY <1>7, <4>2, <4>3 DEF Past
    <3>3. QED
      BY <1>3, <3>1, <3>2 DEF Leaves
  <2>2. QED
    BY <1>1, <1>4, <2>1, PaidKeeps DEF FlowInv, AttributionsFollow
<1>13. QED
  BY <1>8, <1>10, <1>11, <1>12 DEF FlowInv

(***************************************************************************)
(* The packet is charged, to the address it was checked as; the verdict of *)
(* the limiter still holds, so the packet is counted.                      *)
(***************************************************************************)
LEMMA ChargeCounts ==
  ASSUME AllInv, Lim!AddIpConnection
  PROVE  /\ \A ip \in Senders : Len(charges[ip]) <= Len(charges'[ip])
         /\ checked.ip \in Senders \ ExcludedIps =>
              Len(charges'[checked.ip]) = Len(charges[checked.ip]) + 1
<1>1. charges \in [Senders -> Seq(Lim!Charge)] /\ checked \in Lim!Check /\ now \in Nat
  BY DEF AllInv, Lim!LimiterInv, Lim!TypeOK, Lim!AddIpConnection
<1>2. checked.ip \in Senders /\ checked.seen \in Nat
  BY <1>1 DEF Lim!Check
<1>3. \A ip \in Senders : Len(charges[ip]) \in Nat
  BY <1>1, LenProperties
<1>4. checked.ip \notin ExcludedIps => Lim!Counts(checked.ip, ipMap)
  BY DEF AllInv, Lim!LimiterInv, Lim!VerdictHolds, Lim!Counts, Lim!AddIpConnection
<1>5. CASE checked.ip \in ExcludedIps
  BY <1>3, <1>5 DEF Lim!AddIpConnection
<1>6. CASE checked.ip \notin ExcludedIps
  <2>1. PICK c : c = [seen |-> checked.seen, at |-> now]
    OBVIOUS
  <2>2. c \in Lim!Charge
    BY <1>1, <1>2, <2>1 DEF Lim!Charge
  <2>3. charges' = [charges EXCEPT ![checked.ip] = Append(@, c)]
    BY <1>4, <1>6, <2>1 DEF Lim!AddIpConnection
  <2>4. PICK s \in Seq(Lim!Charge) : s = charges[checked.ip]
    BY <1>1, <1>2
  <2>5. Len(Append(s, c)) = Len(s) + 1
    BY <2>2, AppendProperties
  <2>6. /\ charges'[checked.ip] = Append(s, c)
        /\ \A ip \in Senders : ip # checked.ip => charges'[ip] = charges[ip]
    BY <1>1, <1>2, <2>3, <2>4
  <2>7. QED
    BY <1>2, <1>3, <2>4, <2>5, <2>6
<1>7. QED
  BY <1>5, <1>6

LEMMA FlowCharge ==
  ASSUME AllInv, AllInv', FlowInv, ChargePacket PROVE FlowInv'
<1>1. FlowTypes /\ FlowTypes'
  BY FlowTyped, FlowTypedNext
<1>2. /\ step = "charge" /\ step' = "send" /\ Lim!AddIpConnection
      /\ UNCHANGED <<wire, writeOps, running, handled, attributed>>
  BY SameLimiter DEF ChargePacket, ioVars
<1>3. running # None /\ running.handler # "sent" /\ running.port \in Ports
  BY <1>1, <1>2 DEF AllInv, OwnInv, StepsAgree, FlowTypes
<1>4. HandlerAtHand'
  BY <1>2 DEF FlowInv, HandlerAtHand
<1>5. SendsFollow'
  <2>1. \A p : Sending(p)' <=> Sending(p)
    BY <1>2 DEF Sending
  <2>2. \A p, k : Past(p, k)' <=> Past(p, k)
    BY <1>2, <2>1 DEF Past
  <2>3. \A p, k : WasChecked(p, k)' <=> WasChecked(p, k)
    BY <1>2 DEF WasChecked
  <2>4. QED
    BY <1>2, <2>2, <2>3 DEF FlowInv, SendsFollow
<1>6. AttributionsFollow'
  BY <1>2 DEF FlowInv, AttributionsFollow, WasChecked
<1>7. ASSUME NEW ip \in Senders \ ExcludedIps
      PROVE  Cardinality({a \in attributed' : a.ip = ip /\ Leaves(a.port, a.index)'})
               <= Len(charges'[ip])
  <2> DEFINE old == {a \in attributed : a.ip = ip /\ Leaves(a.port, a.index)}
             now1 == {a \in attributed' : a.ip = ip /\ Leaves(a.port, a.index)'}
             x == [port |-> running.port, index |-> running.index, ip |-> ip]
  <2>1. IsFiniteSet(old) /\ Cardinality(old) \in Nat
    <3>1. old \subseteq attributed
      OBVIOUS
    <3>2. QED
      BY <3>1, FS_Subset, FS_CardinalityType DEF FlowInv, AttributionsFollow
  <2>2. Cardinality(old) <= Len(charges[ip])
    BY DEF FlowInv, PaidFor
  <2>3. ASSUME NEW a \in now1 PROVE a \in old \/ (a = x /\ ip = checked.ip)
    <3>1. a \in attributed /\ a.ip = ip /\ Leaves(a.port, a.index)'
      BY <1>2
    <3>2. CASE Underway(a.port, a.index)'
      BY <1>2, <3>1, <3>2 DEF Leaves, Underway
    <3>3. CASE running.port = a.port /\ running.index = a.index
      <4>1. a.ip = checked.ip
        BY <1>2, <3>1, <3>3 DEF FlowInv, AttributionsFollow
      <4>2. a \in Attribution
        BY <1>1, <3>1 DEF FlowTypes
      <4>3. a = [port |-> a.port, index |-> a.index, ip |-> a.ip]
        BY <4>2 DEF Attribution
      <4>4. QED
        BY <3>1, <3>3, <4>1, <4>3
    <3>4. QED
      BY <1>2, <3>1, <3>2, <3>3 DEF Leaves
  <2>4. /\ Len(charges[ip]) \in Nat /\ Len(charges'[ip]) \in Nat
        /\ Len(charges[ip]) <= Len(charges'[ip])
        /\ ip = checked.ip => Len(charges'[ip]) = Len(charges[ip]) + 1
    BY <1>1, <1>2, ChargeCounts DEF FlowTypes
  <2> HIDE DEF old, now1, x
  <2>5. CASE ip # checked.ip
    <3>1. now1 \subseteq old
      BY <2>3, <2>5
    <3>2. Cardinality(now1) \in Nat /\ Cardinality(now1) <= Cardinality(old)
      BY <2>1, <3>1, FS_Subset, FS_CardinalityType
    <3>3. QED
      BY <2>1, <2>2, <2>4, <3>2 DEF now1
  <2>6. CASE ip = checked.ip
    <3>1. now1 \subseteq old \cup {x}
      BY <2>3
    <3>2. /\ IsFiniteSet(old \cup {x}) /\ Cardinality(old \cup {x}) \in Nat
          /\ Cardinality(old \cup {x}) <= Cardinality(old) + 1
      <4>1. PICK S, e : S = old /\ e = x
        OBVIOUS
      <4>2. /\ IsFiniteSet(S \cup {e})
            /\ Cardinality(S \cup {e}) = IF e \in S THEN Cardinality(S)
                                         ELSE Cardinality(S) + 1
        BY <2>1, <4>1, FS_AddElement
      <4>3. QED
        BY <2>1, <4>1, <4>2
    <3>3. Cardinality(now1) \in Nat /\ Cardinality(now1) <= Cardinality(old \cup {x})
      BY <3>1, <3>2, FS_Subset, FS_CardinalityType
    <3>4. QED
      BY <2>1, <2>2, <2>4, <2>6, <3>2, <3>3 DEF now1
  <2>7. QED
    BY <2>5, <2>6
<1>8. PaidFor'
  BY <1>7 DEF PaidFor
<1>9. QED
  BY <1>4, <1>5, <1>6, <1>8 DEF FlowInv

(***************************************************************************)
(* What a handler sends is under way; what it sent before still is.        *)
(***************************************************************************)
LEMMA FlowForward ==
  ASSUME AllInv, AllInv', FlowInv, ForwardPacket PROVE FlowInv'
<1>1. FlowTypes /\ FlowTypes'
  BY FlowTyped, FlowTypedNext
<1>2. /\ step = "send" /\ step' = AfterPacket(running)
      /\ Asio!AsyncSend(running.port, "sent", running.index, running.bytes)
      /\ UNCHANGED <<charges, handled, attributed>>
  BY SameAsio DEF ForwardPacket, limiterVars
<1>3. running # None /\ running.port \in Ports
  BY <1>1, <1>2 DEF AllInv, OwnInv, StepsAgree, FlowTypes
<1>4. PICK op : op = [port |-> running.port, handler |-> "sent",
                      index |-> running.index, bytes |-> running.bytes]
  OBVIOUS
<1>5. op.port = running.port /\ op.index = running.index
  BY <1>4
<1>6. /\ Asio!SendNow(op) \/ Asio!SendLater(op)
      /\ running' = running
  BY <1>2, <1>4 DEF Asio!AsyncSend
<1>7. Through
  BY <1>2 DEF AfterPacket, Through
<1>8. SendPorts
  BY <1>1, FollowForm DEF FlowInv, FlowTypes
<1>9. op \in Asio!Send
  BY <1>3, <1>4, RunningTyped DEF Asio!Send
<1>10. /\ SendPorts'
       /\ \A p \in Ports : \A k : Underway(p, k)' =>
            Underway(p, k) \/ (running.port = p /\ running.index = k)
  <2>1. CASE Asio!SendNow(op)
    <3>1. writeOps' = writeOps
      BY <2>1 DEF Asio!SendNow
    <3>2. PICK w : w = Asio!Packet(op)
      OBVIOUS
    <3>3. w.port = running.port /\ w.index = running.index
      BY <1>5, <3>2 DEF Asio!Packet
    <3>4. wire' = wire \/ wire' = Append(wire, w)
      BY <2>1, <3>2 DEF Asio!SendNow
    <3>5. w \in Asio!Wired
      BY <1>9, <3>2, AsioAssumed, Asio!PacketType DEF AllInv, Asio!EventInv, Asio!AsioInv
    <3>6. \A i \in DOMAIN wire' : (i \in DOMAIN wire /\ wire'[i] = wire[i]) \/ wire'[i] = w
      <4>1. CASE wire' = wire
        BY <4>1
      <4>2. CASE wire' = Append(wire, w)
        <5>1. wire \in Seq(Asio!Wired)
          BY <1>1 DEF FlowTypes
        <5>2. /\ Len(wire) \in Nat /\ DOMAIN wire = 1..Len(wire)
              /\ Append(wire, w) \in Seq(Asio!Wired) /\ Len(Append(wire, w)) = Len(wire) + 1
              /\ \A i \in 1..Len(wire) : Append(wire, w)[i] = wire[i]
              /\ Append(wire, w)[Len(wire) + 1] = w
          BY <3>5, <5>1, AppendProperties, LenProperties
        <5>3. DOMAIN wire' = 1..(Len(wire) + 1)
          BY <4>2, <5>2, LenProperties
        <5>4. QED
          BY <4>2, <5>2, <5>3
      <4>3. QED
        BY <3>4, <4>1, <4>2
    <3>7. SendPorts'
      BY <1>8, <3>1 DEF SendPorts
    <3>8. \A p \in Ports : \A k : Underway(p, k)' =>
            Underway(p, k) \/ (running.port = p /\ running.index = k)
      BY <3>1, <3>3, <3>6 DEF Underway
    <3>9. QED
      BY <3>7, <3>8
  <2>2. CASE Asio!SendLater(op)
    <3>1. wire' = wire /\ writeOps' = [writeOps EXCEPT ![op.port] = Append(@, op)]
      BY <2>2 DEF Asio!SendLater
    <3>2. PICK s \in Seq(Asio!Send) : s = writeOps[running.port]
      BY <1>1, <1>3 DEF FlowTypes
    <3>3. writeOps \in [Ports -> Seq(Asio!Send)]
      BY <1>1 DEF FlowTypes
    <3>4. /\ writeOps'[running.port] = Append(s, op)
          /\ \A p \in Ports : p # running.port => writeOps'[p] = writeOps[p]
      BY <1>3, <1>5, <3>1, <3>2, <3>3
    <3>5. /\ Len(s) \in Nat /\ DOMAIN s = 1..Len(s)
          /\ Append(s, op) \in Seq(Asio!Send) /\ Len(Append(s, op)) = Len(s) + 1
          /\ \A i \in 1..Len(s) : Append(s, op)[i] = s[i]
          /\ Append(s, op)[Len(s) + 1] = op
      BY <1>9, <3>2, AppendProperties, LenProperties
    <3>6. DOMAIN Append(s, op) = 1..(Len(s) + 1)
      BY <3>5, LenProperties
    <3>7. \A p \in Ports : \A i \in DOMAIN writeOps'[p] :
            \/ i \in DOMAIN writeOps[p] /\ writeOps'[p][i] = writeOps[p][i]
            \/ p = running.port /\ writeOps'[p][i] = op
      <4>1. SUFFICES ASSUME NEW p \in Ports, NEW i \in DOMAIN writeOps'[p]
                     PROVE  \/ i \in DOMAIN writeOps[p] /\ writeOps'[p][i] = writeOps[p][i]
                            \/ p = running.port /\ writeOps'[p][i] = op
        OBVIOUS
      <4>2. CASE p = running.port
        BY <3>2, <3>4, <3>5, <3>6, <4>1, <4>2
      <4>3. CASE p # running.port
        BY <3>4, <4>1, <4>3
      <4>4. QED
        BY <4>2, <4>3
    <3>8. SendPorts'
      BY <1>5, <1>8, <3>7 DEF SendPorts
    <3>9. \A p \in Ports : \A k : Underway(p, k)' =>
            Underway(p, k) \/ (running.port = p /\ running.index = k)
      BY <1>5, <3>1, <3>7 DEF Underway
    <3>10. QED
      BY <3>8, <3>9
  <2>3. QED
    BY <1>6, <2>1, <2>2
<1>11. QED
  BY <1>1, <1>2, <1>6, <1>7, <1>10, FlowKeeps

(***************************************************************************)
(* A descriptor's sends leave: nothing is under way that was not before.   *)
(***************************************************************************)
LEMMA DescriptorUnderway ==
  ASSUME AllInv, FlowInv, NEW p \in Ports, NEW n \in 0..Len(writeOps[p]),
         NEW done, NEW more, NEW packets \in Seq(Asio!Wired), NEW full,
         Asio!DescriptorDoes(p, n, done, more, packets, full)
  PROVE  /\ SendPorts'
         /\ \A q \in Ports : \A k : Underway(q, k)' => Underway(q, k)
<1>1. FlowTypes /\ SendPorts
  BY FlowTyped, FollowForm DEF FlowInv, FlowTypes
<1>2. PICK s \in Seq(Asio!Send) : s = writeOps[p]
  BY <1>1 DEF FlowTypes
<1>3. PICK rest : rest = SubSeq(s, n + 1, Len(s))
  OBVIOUS
<1>4. Len(s) \in Nat /\ DOMAIN s = 1..Len(s) /\ n \in 0..Len(s)
  BY <1>2, LenProperties
<1>5. \A i \in DOMAIN rest : i + n \in DOMAIN s /\ rest[i] = s[i + n]
  <2>1. n + 1 \in 1..(Len(s) + 1) /\ Len(s) \in n..Len(s)
    BY <1>4
  <2>2. rest = [i \in 1..(Len(s) - n) |-> s[i + n]]
    BY <1>3, <1>4
  <2>3. QED
    BY <1>4, <2>2
<1>6. \A q \in Ports : writeOps'[q] = IF q = p THEN rest ELSE writeOps[q]
  BY <1>1, <1>2, <1>3 DEF Asio!DescriptorDoes, FlowTypes
<1>7. PICK m \in Nat : \E f :
        /\ Asio!Increasing(f, m, n)
        /\ packets = [k \in 1..m |-> Asio!Packet(writeOps[p][f[k]])]
  BY DEF Asio!DescriptorDoes, Asio!KeptOf
<1>8. PICK f : /\ Asio!Increasing(f, m, n)
               /\ packets = [k \in 1..m |-> Asio!Packet(writeOps[p][f[k]])]
  BY <1>7
<1>9. \A k \in DOMAIN packets :
        f[k] \in DOMAIN s /\ packets[k].port = s[f[k]].port /\ packets[k].index = s[f[k]].index
  BY <1>2, <1>4, <1>8 DEF Asio!Increasing, Asio!Packet
<1>10. \A i \in DOMAIN wire' :
         \/ i \in DOMAIN wire /\ wire'[i] = wire[i]
         \/ \E k \in DOMAIN packets : wire'[i] = packets[k]
  <2>1. PICK u \in Seq(Asio!Wired) : u = wire
    BY <1>1 DEF FlowTypes
  <2>2. wire' = u \o packets
    BY <2>1 DEF Asio!DescriptorDoes
  <2>3. /\ Len(u) \in Nat /\ DOMAIN u = 1..Len(u)
        /\ Len(packets) \in Nat /\ DOMAIN packets = 1..Len(packets)
        /\ DOMAIN wire' = 1..(Len(u) + Len(packets))
        /\ \A i \in 1..(Len(u) + Len(packets)) :
             wire'[i] = IF i <= Len(u) THEN u[i] ELSE packets[i - Len(u)]
    BY <2>2, LenProperties, ConcatProperties
  <2>4. ASSUME NEW i \in DOMAIN wire'
        PROVE  \/ i \in DOMAIN wire /\ wire'[i] = wire[i]
               \/ \E k \in DOMAIN packets : wire'[i] = packets[k]
    <3>1. CASE i <= Len(u)
      BY <2>1, <2>3, <3>1
    <3>2. CASE ~(i <= Len(u))
      <4>1. i - Len(u) \in DOMAIN packets /\ wire'[i] = packets[i - Len(u)]
        BY <2>3, <3>2
      <4>2. QED
        BY <4>1
    <3>3. QED
      BY <3>1, <3>2
  <2>5. QED
    BY <2>4
<1>11. SendPorts'
  BY <1>1, <1>2, <1>5, <1>6 DEF SendPorts
<1>12. ASSUME NEW q \in Ports, NEW k, Underway(q, k)' PROVE Underway(q, k)
  <2>1. CASE \E i \in DOMAIN wire' : wire'[i].port = q /\ wire'[i].index = k
    <3>1. PICK i \in DOMAIN wire' : wire'[i].port = q /\ wire'[i].index = k
      BY <2>1
    <3>2. CASE i \in DOMAIN wire /\ wire'[i] = wire[i]
      BY <3>1, <3>2 DEF Underway
    <3>3. CASE \E j \in DOMAIN packets : wire'[i] = packets[j]
      <4>1. PICK j \in DOMAIN packets : wire'[i] = packets[j]
        BY <3>3
      <4>2. f[j] \in DOMAIN s /\ s[f[j]].port = q /\ s[f[j]].index = k
        BY <1>9, <3>1, <4>1
      <4>3. q = p
        BY <1>1, <1>2, <4>2 DEF SendPorts
      <4>4. QED
        BY <1>2, <4>2, <4>3 DEF Underway
    <3>4. QED
      BY <1>10, <3>2, <3>3
  <2>2. CASE \E i \in DOMAIN writeOps'[q] : writeOps'[q][i].index = k
    <3>1. PICK i \in DOMAIN writeOps'[q] : writeOps'[q][i].index = k
      BY <2>2
    <3>2. CASE q = p
      <4>1. i + n \in DOMAIN s /\ s[i + n].index = k
        BY <1>5, <1>6, <3>1, <3>2
      <4>2. QED
        BY <1>2, <3>2, <4>1 DEF Underway
    <3>3. CASE q # p
      BY <1>6, <3>1, <3>3 DEF Underway
    <3>4. QED
      BY <3>2, <3>3
  <2>3. QED
    BY <1>12, <2>1, <2>2 DEF Underway
<1>13. QED
  BY <1>11, <1>12

LEMMA FlowDescriptor ==
  ASSUME AllInv, AllInv', FlowInv, NEW p \in Ports, RunDescriptor(p) PROVE FlowInv'
<1>1. FlowTypes /\ FlowTypes' /\ OwnInv /\ IoTypes
  BY FlowTyped, FlowTypedNext, IoTyped DEF AllInv
<1>2. /\ Asio!RunDescriptor(p) /\ UNCHANGED <<charges, attributed>>
      /\ running' = None => UNCHANGED <<step, handled>>
      /\ running' # None => Enter(running')
      /\ running = None
  <2>1. Asio!RunDescriptor(p)
    BY SameAsio DEF RunDescriptor
  <2>2. running = None
    BY <2>1 DEF Asio!RunDescriptor, Asio!Dispatches
  <2>3. /\ IF running' = None THEN UNCHANGED <<step, handled>> ELSE Enter(running')
        /\ UNCHANGED <<charges, attributed>>
    BY DEF RunDescriptor, limiterVars
  <2>4. QED
    BY <2>1, <2>2, <2>3
<1>3. step = "none"
  BY <1>1, <1>2 DEF OwnInv, StepsAgree
<1>4. Asio!TypeOK
  BY DEF AllInv, Asio!EventInv, Asio!AsioInv
<1>5. PICK n \in 0..Len(writeOps[p]), done \in Seq(Asio!Completion),
           more \in Seq(Asio!QueueItems), packets \in Seq(Asio!Wired), full \in BOOLEAN :
        Asio!DescriptorDoes(p, n, done, more, packets, full)
  BY <1>2, <1>4, AsioAssumed, Asio!DescriptorStep
<1>6. SendPorts' /\ \A q \in Ports : \A k : Underway(q, k)' => Underway(q, k)
  BY <1>5, DescriptorUnderway
<1>7. CASE running' = None
  BY <1>1, <1>2, <1>3, <1>6, <1>7, FlowKeeps DEF Through
<1>8. CASE running' # None
  <2>1. PICK c \in Asio!Completion : c = running'
    BY <1>1, <1>8 DEF AllInv, Asio!EventInv, Asio!AsioInv, Asio!TypeOK
  <2>2. c.handler # "sent" => c.index = Len(handled[c.port]) + 1
    <3>1. SUFFICES ASSUME c.handler # "sent" PROVE c.index = Len(handled[c.port]) + 1
      OBVIOUS
    <3>2. /\ n > 0 => done # <<>> /\ Head(done).handler = "sent"
          /\ n = 0 /\ Asio!Receives(p) => Head(done) = Asio!ReceiveDone(p, readOp[p])
          /\ n = 0 /\ ~Asio!Receives(p) => done = <<>>
      BY <1>5, DescriptorReceives
    <3>3. running' = IF done = <<>> THEN None ELSE Head(done)
      BY <1>5 DEF Asio!DescriptorDoes
    <3>4. n = 0 \/ n > 0
      BY <1>1, LenProperties DEF IoTypes
    <3>5. Asio!Receives(p) /\ c = Asio!ReceiveDone(p, readOp[p])
      BY <1>8, <2>1, <3>1, <3>2, <3>3, <3>4
    <3>6. c.port = p /\ c.index = taken[p] + 1
      BY <3>5 DEF Asio!ReceiveDone
    <3>7. taken[p] = Len(handled[p])
      BY <1>1, <3>5 DEF Asio!Receives, OwnInv, OneReceiveEach
    <3>8. QED
      BY <3>6, <3>7
  <2>3. Enter(c) /\ running' = c
    BY <1>2, <1>8, <2>1
  <2>4. QED
    BY <1>1, <1>2, <1>3, <1>6, <2>2, <2>3, FlowEnter
<1>9. QED
  BY <1>7, <1>8

LEMMA FlowCompletion ==
  ASSUME AllInv, AllInv', FlowInv, RunCompletion PROVE FlowInv'
<1>1. FlowTypes /\ FlowTypes' /\ OwnInv /\ IoTypes /\ ioq # <<>>
  BY FlowTyped, FlowTypedNext, IoTyped DEF AllInv
<1>2. /\ Asio!RunCompletion /\ Enter(running')
      /\ UNCHANGED <<charges, attributed>>
  BY SameAsio DEF RunCompletion, limiterVars
<1>3. /\ running = None /\ Head(ioq).item = "completion" /\ running' = Head(ioq).op
      /\ UNCHANGED <<wire, writeOps>>
  BY <1>2 DEF Asio!RunCompletion, Asio!kernelVars, Asio!reactorVars
<1>4. step = "none"
  BY <1>1, <1>3 DEF OwnInv, StepsAgree
<1>5. Head(ioq) \in Asio!QueueItems
  BY <1>1, HeadTailProperties DEF IoTypes
<1>6. PICK c \in Asio!Completion : c = running'
  BY <1>3, <1>5, AsioAssumed, Asio!ItemKinds DEF Asio!QueueItems, Asio!Task, Asio!Descriptor
<1>7. c.handler # "sent" => c.index = Len(handled[c.port]) + 1
  <2>1. SUFFICES ASSUME c.handler # "sent" PROVE c.index = Len(handled[c.port]) + 1
    OBVIOUS
  <2>2. Receives(Head(ioq), c.port) /\ Head(ioq).op = c
    BY <1>3, <1>6, <2>1 DEF Receives
  <2>3. ioq[1] = Head(ioq) /\ 1 \in DOMAIN ioq
    <3>1. ioq \in Seq(Asio!QueueItems)
      BY <1>1 DEF IoTypes
    <3>2. Head(ioq) = ioq[1]
      BY <1>1, <3>1, HeadTailProperties
    <3>3. Len(ioq) \in Nat /\ Len(ioq) # 0 /\ DOMAIN ioq = 1..Len(ioq)
      BY <1>1, <3>1, LenProperties, EmptySeq
    <3>4. QED
      BY <3>2, <3>3
  <2>4. c.port \in Ports
    BY DEF Asio!Completion
  <2>5. OneReceive(ioq, c.port, taken[c.port]) /\ taken[c.port] = Len(handled[c.port]) + 1
    BY <1>1, <2>2, <2>3, <2>4 DEF OwnInv, OneReceiveEach, NoReceive
  <2>6. QED
    BY <2>2, <2>3, <2>5 DEF OneReceive
<1>8. SendPorts'
  BY <1>1, <1>3, FollowForm DEF FlowInv, SendPorts, FlowTypes
<1>9. \A p \in Ports : \A k : Underway(p, k)' => Underway(p, k)
  BY <1>3 DEF Underway
<1>10. QED
  BY <1>1, <1>2, <1>4, <1>6, <1>7, <1>8, <1>9, FlowEnter

(* Every step. *)
LEMMA FlowStep ==
  ASSUME AllInv, AllInv', FlowInv, [Next]_vars PROVE FlowInv'
<1>1. CASE StartProxy \/ World \/ UNCHANGED vars
  <2>1. UNCHANGED <<wire, writeOps, attributed, charges, handled, running, step, checked>>
    <3>1. CASE StartProxy
      BY <3>1, SameAsio
      DEF StartProxy, OpenPort, ArmPort, StartIoThread, Joined, ioVars, limiterVars,
          Asio!OpenSocket, Asio!AsyncReceive, Asio!StartRun, Asio!kernelVars,
          Asio!reactorVars, Asio!schedulerVars, Asio!memoryVars
    <3>2. CASE World
      BY <3>2, SameAsio, SameLimiter
      DEF World, ClientSends, RemoteAnswers, SendBufferFills, SendBufferDrains, Tick,
          ioVars, limiterVars, proxyVars, Asio!Deliver, Asio!Block, Asio!Drain,
          Asio!reactorVars, Asio!schedulerVars, Asio!memoryVars, Lim!Tick
    <3>3. CASE UNCHANGED vars
      BY <3>3 DEF vars, ioVars, limiterVars, proxyVars
    <3>4. QED
      BY <1>1, <3>1, <3>2, <3>3
  <2>2. QED
    BY <2>1, FlowStill
<1>2. CASE RunTask
  <2>1. UNCHANGED <<wire, writeOps, attributed, charges, handled, running, step, checked>>
    BY <1>2, SameAsio DEF RunTask, limiterVars, proxyVars, Asio!RunTask, Asio!memoryVars
  <2>2. QED
    BY <2>1, FlowStill
<1>3. CASE \E p \in Ports : RunDescriptor(p)
  BY <1>3, FlowDescriptor
<1>4. CASE RunCompletion
  BY <1>4, FlowCompletion
<1>5. CASE AdmitPacket \/ RefusePacket
  BY <1>5, FlowCheck
<1>6. CASE ChargePacket
  BY <1>6, FlowCharge
<1>7. CASE ForwardPacket
  BY <1>7, FlowForward
<1>8. CASE ResolveFails \/ Rearm \/ Return
  <2>1. /\ UNCHANGED <<wire, writeOps, attributed, charges, handled>>
        /\ running' = running \/ running' = None
        /\ Through
    BY <1>8, SameAsio
    DEF ResolveFails, Rearm, Return, AfterPacket, Through, ioVars, limiterVars,
        Asio!AsyncReceive, Asio!FinishHandler, Asio!kernelVars, Asio!reactorVars
  <2>2. QED
    BY <2>1, FlowStill
<1>9. QED
  BY <1>1, <1>2, <1>3, <1>4, <1>5, <1>6, <1>7, <1>8 DEF Next, IoThread, Handler

LEMMA InitFlow == ASSUME Init PROVE FlowInv
<1>1. /\ wire = <<>> /\ writeOps = [p \in Ports |-> <<>>] /\ running = None
      /\ step = "none" /\ attributed = {} /\ charges = [ip \in Senders |-> <<>>]
  BY DEF Init, Io!Init, Limiter!Init
<1>2. HandlerAtHand /\ SendsFollow
  BY <1>1 DEF HandlerAtHand, SendsFollow
<1>3. IsFiniteSet({}) /\ Cardinality({}) = 0
  BY FS_EmptySet
<1>4. AttributionsFollow
  BY <1>1, <1>3 DEF AttributionsFollow
<1>5. ASSUME NEW ip \in Senders \ ExcludedIps
      PROVE  Cardinality({a \in attributed : a.ip = ip /\ Leaves(a.port, a.index)})
               <= Len(charges[ip])
  <2> DEFINE paid == {a \in attributed : a.ip = ip /\ Leaves(a.port, a.index)}
  <2>1. paid = {}
    BY <1>1
  <2>2. Len(charges[ip]) = 0
    BY <1>1
  <2> HIDE DEF paid
  <2>3. Cardinality(paid) <= Len(charges[ip])
    BY <1>3, <2>1, <2>2
  <2>4. QED
    BY <2>3 DEF paid
<1>6. QED
  BY <1>2, <1>4, <1>5 DEF FlowInv, PaidFor

LEMMA FlowAlways == Spec => [](AllInv /\ FlowInv)
<1>1. Init => FlowInv
  BY InitFlow
<1>2. AllInv /\ AllInv' /\ FlowInv /\ [Next]_vars => FlowInv'
  BY FlowStep
<1>3. QED
  BY <1>1, <1>2, AllAlways, PTL DEF Spec

(***************************************************************************)
(* A packet is sent on only if it was checked, and admitted and charged    *)
(* unless its address is excluded: as the address it was checked as, with  *)
(* whatever handlers in between (udp_proxy.cpp:60-75).                     *)
(***************************************************************************)
THEOREM OnlyAdmittedSent == Spec => []SentWasAdmitted
<1>1. AllInv /\ FlowInv => SentWasAdmitted
  <2>1. SUFFICES ASSUME AllInv, FlowInv PROVE SentWasAdmitted
    OBVIOUS
  <2>2. FlowTypes
    BY <2>1, FlowTyped
  <2>3. \A i \in DOMAIN wire : WasChecked(wire[i].port, wire[i].index)
    BY <2>1 DEF FlowInv, SendsFollow
  <2> DEFINE sent == {a \in attributed : \E i \in DOMAIN wire :
                        wire[i].port = a.port /\ wire[i].index = a.index}
  <2>4. ASSUME NEW ip \in Senders \ ExcludedIps
        PROVE  Cardinality({a \in sent : a.ip = ip}) <= Len(charges[ip])
    <3> DEFINE paid == {a \in attributed : a.ip = ip /\ Leaves(a.port, a.index)}
    <3>1. {a \in sent : a.ip = ip} \subseteq paid /\ paid \subseteq attributed
      BY DEF Leaves, Underway
    <3>2. Cardinality(paid) <= Len(charges[ip])
      BY <2>1 DEF FlowInv, PaidFor
    <3> HIDE DEF paid, sent
    <3>3. IsFiniteSet(paid) /\ Cardinality(paid) \in Nat
      BY <2>1, <3>1, FS_Subset, FS_CardinalityType DEF FlowInv, AttributionsFollow
    <3>4. /\ Cardinality({a \in sent : a.ip = ip}) \in Nat
          /\ Cardinality({a \in sent : a.ip = ip}) <= Cardinality(paid)
      BY <3>1, <3>3, FS_Subset, FS_CardinalityType
    <3>5. QED
      BY <2>2, <3>2, <3>3, <3>4 DEF FlowTypes
  <2>5. QED
    BY <2>3, <2>4 DEF SentWasAdmitted
<1>2. QED
  BY <1>1, FlowAlways, PTL

(***************************************************************************)
(* However many ports there are and however their receives and sends       *)
(* interleave, one receive of a port is outstanding at a time, from the    *)
(* loop of startProxy to the end of the second handler, no handler looks   *)
(* at clientEndpoint before it was written, and what waits or was sent is  *)
(* checked and paid for (udp_proxy.cpp:18-75).                             *)
(***************************************************************************)
THEOREM ProxyInvariant == Spec => []ProxyInv
<1>1. AllInv /\ FlowInv => ProxyInv
  BY SameAsio, SameLimiter
  DEF AllInv, FlowInv, OwnInv, OwnTypes, ProxyInv, TypeOK, Asio!EventInv, Asio!AsioInv,
      Lim!LimiterInv
<1>2. QED
  BY <1>1, FlowAlways, PTL

------------------------------------------------------------------------------
(***************************************************************************)
(* Third, the relay the proxy implements.  What it sees of sequences:      *)
(* which datagrams wait at a port, and which were sent on.                 *)
(***************************************************************************)
Indices(s) == [i \in DOMAIN s |-> s[i].index]
NameOf(w) == [port |-> w.port, index |-> w.index]
Names(t) == [i \in DOMAIN t |-> NameOf(t[i])]
Name == [port : Ports, index : Nat]

LEMMA IndicesType ==
  ASSUME NEW s \in Seq(Asio!Send)
  PROVE  /\ Indices(s) \in Seq(Nat) /\ Len(Indices(s)) = Len(s)
         /\ DOMAIN Indices(s) = 1..Len(s)
         /\ \A i \in 1..Len(s) : Indices(s)[i] = s[i].index /\ s[i].index \in Nat
         /\ s = <<>> <=> Indices(s) = <<>>
<1>1. PICK n \in Nat : n = Len(s) /\ DOMAIN s = 1..n
  BY LenProperties
<1>2. \A i \in 1..n : s[i].index \in Nat
  <2>1. \A op \in Asio!Send : op.index \in Nat
    BY DEF Asio!Send
  <2>2. \A i \in 1..n : s[i] \in Asio!Send
    BY <1>1, ElementOfSeq
  <2>3. QED
    BY <2>1, <2>2
<1>3. PICK t : t = Indices(s)
  OBVIOUS
<1>4. t \in [1..n -> Nat] /\ \A i \in 1..n : t[i] = s[i].index
  BY <1>1, <1>2, <1>3 DEF Indices
<1>5. t \in Seq(Nat) /\ Len(t) = n /\ DOMAIN t = 1..n
  BY <1>4
<1>6. s = <<>> <=> n = 0
  BY <1>1, EmptySeq
<1>7. t = <<>> <=> n = 0
  BY <1>5, EmptySeq
<1>8. QED
  BY <1>1, <1>2, <1>3, <1>4, <1>5, <1>6, <1>7

LEMMA IndicesAppend ==
  ASSUME NEW s \in Seq(Asio!Send), NEW op \in Asio!Send
  PROVE  Indices(Append(s, op)) = Append(Indices(s), op.index)
<1>1. PICK t \in Seq(Asio!Send) : t = Append(s, op)
  BY AppendProperties
<1>2. /\ Len(s) \in Nat /\ Len(t) = Len(s) + 1
      /\ \A i \in 1..Len(s) : t[i] = s[i]
      /\ t[Len(s) + 1] = op
  BY <1>1, AppendProperties, LenProperties
<1>3. op.index \in Nat
  BY DEF Asio!Send
<1>4. PICK u \in Seq(Nat) : u = Indices(s)
  BY IndicesType
<1>5. PICK v \in Seq(Nat) : v = Append(u, op.index)
  BY <1>3, <1>4, AppendProperties
<1>6. /\ Len(v) = Len(s) + 1 /\ v[Len(s) + 1] = op.index
      /\ \A i \in 1..Len(s) : v[i] = s[i].index
  <2>1. Len(u) = Len(s) /\ \A i \in 1..Len(s) : u[i] = s[i].index
    BY <1>4, IndicesType
  <2>2. QED
    BY <1>3, <1>5, <2>1, AppendProperties
<1>7. PICK x \in Seq(Nat) : x = Indices(t)
  BY IndicesType
<1>8. Len(x) = Len(s) + 1 /\ \A i \in 1..(Len(s) + 1) : x[i] = t[i].index
  BY <1>2, <1>7, IndicesType
<1>9. ASSUME NEW i \in 1..Len(x) PROVE x[i] = v[i]
  <2>1. i \in 1..(Len(s) + 1) /\ x[i] = t[i].index
    BY <1>8
  <2>2. CASE i \in 1..Len(s)
    BY <1>2, <1>6, <2>1, <2>2
  <2>3. CASE i = Len(s) + 1
    BY <1>2, <1>6, <2>1, <2>3
  <2>4. QED
    BY <1>2, <2>1, <2>2, <2>3
<1>10. x = v
  BY <1>6, <1>8, <1>9, SeqEqual
<1>11. QED
  BY <1>1, <1>4, <1>5, <1>7, <1>10

LEMMA IndicesDrop ==
  ASSUME NEW s \in Seq(Asio!Send), NEW n \in 0..Len(s)
  PROVE  Indices(SubSeq(s, n + 1, Len(s)))
           = SubSeq(Indices(s), n + 1, Len(Indices(s)))
<1>1. PICK k \in Nat : k = Len(s)
  BY LenProperties
<1>2. PICK u \in Seq(Nat) : u = Indices(s) /\ Len(u) = k
                            /\ \A i \in 1..k : u[i] = s[i].index
  BY <1>1, IndicesType
<1>3. n \in Int /\ k \in Int /\ n <= k /\ n >= 0
  BY <1>1
<1>4. PICK t \in Seq(Asio!Send) :
        /\ t = SubSeq(s, n + 1, k)
        /\ Len(t) = k - n /\ \A i \in 1..(k - n) : t[i] = s[n + i]
  <2>1. \A i \in (n + 1)..k : s[i] \in Asio!Send
    BY <1>1, <1>3, ElementOfSeq
  <2>2. PICK t : t = SubSeq(s, n + 1, k)
    OBVIOUS
  <2>3. /\ t \in Seq(Asio!Send)
        /\ Len(t) = IF n + 1 <= k THEN k - (n + 1) + 1 ELSE 0
        /\ \A i \in 1..(k - (n + 1) + 1) : t[i] = s[n + 1 + i - 1]
    BY <1>3, <2>1, <2>2, SubSeqProperties
  <2>4. Len(t) = k - n /\ \A i \in 1..(k - n) : t[i] = s[n + i]
    BY <1>3, <2>3
  <2>5. QED
    BY <2>2, <2>3, <2>4
<1>5. PICK v \in Seq(Nat) :
        /\ v = SubSeq(u, n + 1, k)
        /\ Len(v) = k - n /\ \A i \in 1..(k - n) : v[i] = u[n + i]
  <2>1. \A i \in (n + 1)..k : u[i] \in Nat
    BY <1>2, <1>3, ElementOfSeq
  <2>2. PICK v : v = SubSeq(u, n + 1, k)
    OBVIOUS
  <2>3. /\ v \in Seq(Nat)
        /\ Len(v) = IF n + 1 <= k THEN k - (n + 1) + 1 ELSE 0
        /\ \A i \in 1..(k - (n + 1) + 1) : v[i] = u[n + 1 + i - 1]
    BY <1>3, <2>1, <2>2, SubSeqProperties
  <2>4. Len(v) = k - n /\ \A i \in 1..(k - n) : v[i] = u[n + i]
    BY <1>3, <2>3
  <2>5. QED
    BY <2>2, <2>3, <2>4
<1>6. PICK x \in Seq(Nat) :
        x = Indices(t) /\ Len(x) = k - n /\ \A i \in 1..(k - n) : x[i] = t[i].index
  <2>1. /\ Indices(t) \in Seq(Nat) /\ Len(Indices(t)) = Len(t)
        /\ \A i \in 1..Len(t) : Indices(t)[i] = t[i].index
    BY IndicesType
  <2>2. Len(t) = k - n
    BY <1>4
  <2>3. QED
    BY <2>1, <2>2
<1>7. ASSUME NEW i \in 1..Len(x) PROVE x[i] = v[i]
  <2>1. i \in 1..(k - n) /\ n + i \in 1..k
    BY <1>3, <1>6
  <2>2. x[i] = t[i].index /\ t[i] = s[n + i] /\ v[i] = u[n + i]
    BY <1>4, <1>5, <1>6, <2>1
  <2>3. u[n + i] = s[n + i].index
    BY <1>2, <2>1
  <2>4. QED
    BY <2>2, <2>3
<1>8. x = v
  BY <1>5, <1>6, <1>7, SeqEqual
<1>9. QED
  BY <1>1, <1>2, <1>4, <1>5, <1>6, <1>8

LEMMA NamesType ==
  ASSUME NEW t \in Seq(Asio!Wired)
  PROVE  /\ Names(t) \in Seq(Name) /\ Len(Names(t)) = Len(t)
         /\ DOMAIN Names(t) = 1..Len(t)
         /\ \A i \in 1..Len(t) : Names(t)[i] = NameOf(t[i])
<1>1. PICK n \in Nat : n = Len(t) /\ DOMAIN t = 1..n
  BY LenProperties
<1>2. \A i \in 1..n : NameOf(t[i]) \in Name
  <2>1. \A w \in Asio!Wired : w.port \in Ports /\ w.index \in Nat
    BY DEF Asio!Wired
  <2>2. \A i \in 1..n : t[i] \in Asio!Wired
    BY <1>1, ElementOfSeq
  <2>3. QED
    BY <2>1, <2>2 DEF Name, NameOf
<1>3. PICK u : u = Names(t)
  OBVIOUS
<1>4. u \in [1..n -> Name]
      /\ \A i \in 1..n : u[i] = NameOf(t[i])
  BY <1>1, <1>2, <1>3 DEF Names
<1>5. u \in Seq(Name) /\ Len(u) = n /\ DOMAIN u = 1..n
  BY <1>4
<1>6. QED
  BY <1>1, <1>3, <1>4, <1>5

LEMMA NamesConcat ==
  ASSUME NEW s \in Seq(Asio!Wired), NEW t \in Seq(Asio!Wired)
  PROVE  Names(s \o t) = Names(s) \o Names(t)
<1>1. PICK m \in Nat, n \in Nat : m = Len(s) /\ n = Len(t)
  BY LenProperties
<1>2. PICK st \in Seq(Asio!Wired) :
        /\ st = s \o t /\ Len(st) = m + n
        /\ \A i \in 1..(m + n) : st[i] = IF i <= m THEN s[i] ELSE t[i - m]
  <2>1. PICK st : st = s \o t
    OBVIOUS
  <2>2. /\ st \in Seq(Asio!Wired) /\ Len(st) = Len(s) + Len(t)
        /\ \A i \in 1..(Len(s) + Len(t)) : st[i] = IF i <= Len(s) THEN s[i] ELSE t[i - Len(s)]
    BY <2>1, ConcatProperties
  <2>3. QED
    BY <1>1, <2>1, <2>2
<1>3. PICK u \in Seq(Name) :
        /\ u = Names(s) /\ Len(u) = m
        /\ \A i \in 1..m : u[i] = NameOf(s[i])
  BY <1>1, NamesType
<1>4. PICK v \in Seq(Name) :
        /\ v = Names(t) /\ Len(v) = n
        /\ \A i \in 1..n : v[i] = NameOf(t[i])
  BY <1>1, NamesType
<1>5. PICK x \in Seq(Name) :
        /\ x = Names(st) /\ Len(x) = m + n
        /\ \A i \in 1..(m + n) : x[i] = NameOf(st[i])
  BY <1>2, NamesType
<1>6. PICK y \in Seq(Name) :
        /\ y = u \o v /\ Len(y) = m + n
        /\ \A i \in 1..(m + n) : y[i] = IF i <= m THEN u[i] ELSE v[i - m]
  <2>1. PICK y : y = u \o v
    OBVIOUS
  <2>2. /\ y \in Seq(Name) /\ Len(y) = Len(u) + Len(v)
        /\ \A i \in 1..(Len(u) + Len(v)) : y[i] = IF i <= Len(u) THEN u[i] ELSE v[i - Len(u)]
    BY <2>1, ConcatProperties
  <2>3. Len(u) = m /\ Len(v) = n
    BY <1>3, <1>4
  <2>4. QED
    BY <2>1, <2>2, <2>3
<1>7. \A i \in 1..Len(x) : x[i] = y[i]
  <2>1. ASSUME NEW i \in 1..(m + n), i <= m PROVE x[i] = y[i]
    <3>1. i \in 1..m
      BY <2>1
    <3>2. x[i] = NameOf(st[i]) /\ st[i] = s[i] /\ y[i] = u[i]
      BY <1>2, <1>5, <1>6, <2>1
    <3>3. u[i] = NameOf(s[i])
      BY <1>3, <3>1
    <3>4. QED
      BY <3>2, <3>3
  <2>2. ASSUME NEW i \in 1..(m + n), ~(i <= m) PROVE x[i] = y[i]
    <3>1. i - m \in 1..n
      BY <2>2
    <3>2. x[i] = NameOf(st[i]) /\ st[i] = t[i - m] /\ y[i] = v[i - m]
      BY <1>2, <1>5, <1>6, <2>2
    <3>3. v[i - m] = NameOf(t[i - m])
      BY <1>4, <3>1
    <3>4. QED
      BY <3>2, <3>3
  <2>3. QED
    BY <1>5, <2>1, <2>2
<1>8. x = y
  BY <1>5, <1>6, <1>7, SeqEqual
<1>9. QED
  BY <1>2, <1>3, <1>4, <1>5, <1>6, <1>8

LEMMA NamesAppend ==
  ASSUME NEW s \in Seq(Asio!Wired), NEW w \in Asio!Wired
  PROVE  Names(Append(s, w)) = Append(Names(s), NameOf(w))
<1>1. PICK m \in Nat : m = Len(s)
  BY LenProperties
<1>2. PICK t \in Seq(Asio!Wired) : t = Append(s, w)
  BY AppendProperties
<1>3. Len(t) = m + 1 /\ t[m + 1] = w /\ \A i \in 1..m : t[i] = s[i]
  BY <1>1, <1>2, AppendProperties
<1>4. PICK u \in Seq(Name) : u = Names(s)
  BY NamesType
<1>5. Len(u) = m /\ \A i \in 1..m : u[i] = NameOf(s[i])
  BY <1>1, <1>4, NamesType
<1>6. PICK x \in Seq(Name) : x = Names(t)
  BY NamesType
<1>7. Len(x) = m + 1 /\ \A i \in 1..(m + 1) : x[i] = NameOf(t[i])
  BY <1>3, <1>6, NamesType
<1>8. NameOf(w) \in Name
  BY DEF NameOf, Name, Asio!Wired
<1>9. PICK y \in Seq(Name) : y = Append(u, NameOf(w))
  BY <1>8, AppendProperties
<1>10. Len(y) = m + 1 /\ y[m + 1] = NameOf(w) /\ \A i \in 1..m : y[i] = u[i]
  BY <1>5, <1>8, <1>9, AppendProperties
<1>11. ASSUME NEW i \in 1..Len(x) PROVE x[i] = y[i]
  <2>1. i \in 1..(m + 1) /\ x[i] = NameOf(t[i])
    BY <1>7
  <2>2. CASE i \in 1..m
    BY <1>3, <1>5, <1>10, <2>1, <2>2
  <2>3. CASE i = m + 1
    BY <1>3, <1>10, <2>1, <2>3
  <2>4. QED
    BY <2>1, <2>2, <2>3
<1>12. x = y
  BY <1>7, <1>10, <1>11, SeqEqual
<1>13. QED
  BY <1>2, <1>4, <1>6, <1>9, <1>12

(* Increasing numbers up to n are no more than n. *)
LEMMA IncreasingFit ==
  ASSUME NEW m \in Nat, NEW n \in Nat, NEW f, Asio!Increasing(f, m, n) PROVE m <= n
<1>1. \A i, j \in 1..m : f[i] = f[j] => i = j
  BY DEF Asio!Increasing
<1>2. f \in Injection(1..m, 1..n)
  BY <1>1 DEF Asio!Increasing, Injection, IsInjective
<1>3. Cardinality(1..m) = m /\ Cardinality(1..n) = n /\ IsFiniteSet(1..n)
  BY FS_Interval
<1>4. QED
  BY <1>2, <1>3, FS_Injection

(* The state of the relay, in those terms. *)
Arrived == [p \in Ports |-> Len(arrivals[p])]
Count == [p \in Ports |-> Len(handled[p])]
Outgoing == [p \in Ports |-> Indices(writeOps[p])]
Sent == Names(wire)
Ended == main = "returned"

LEMMA RelaySteps ==
  /\ Promise!Next <=> Promise!End \/ \E p \in Ports :
       Promise!Arrive(p) \/ Promise!Handle(p) \/ Promise!SendOn(p) \/ Promise!Flush(p)
  /\ UNCHANGED Promise!vars <=> UNCHANGED <<Arrived, Count, Outgoing, Sent, Ended>>
  /\ \A p : Promise!Arrive(p) <=>
       /\ Arrived' = [Arrived EXCEPT ![p] = @ + 1]
       /\ UNCHANGED <<Count, Outgoing, Sent, Ended>>
  /\ \A p : Promise!Handle(p) <=>
       /\ ~Ended
       /\ Count[p] < Arrived[p]
       /\ Count' = [Count EXCEPT ![p] = @ + 1]
       /\ UNCHANGED <<Arrived, Outgoing, Sent, Ended>>
  /\ \A p : Promise!AtHand(p) <=>
       /\ Count[p] > 0
       /\ \A i \in DOMAIN Outgoing[p] : Outgoing[p][i] < Count[p]
       /\ \A i \in DOMAIN Sent : Sent[i].port = p => Sent[i].index < Count[p]
  /\ \A p : Promise!SendOn(p) <=>
       /\ ~Ended
       /\ Promise!AtHand(p)
       /\ \/ /\ Outgoing' = [Outgoing EXCEPT ![p] = Append(@, Count[p])]
             /\ UNCHANGED Sent
          \/ /\ Outgoing[p] = <<>>
             /\ Sent' = Append(Sent, [port |-> p, index |-> Count[p]])
             /\ UNCHANGED Outgoing
       /\ UNCHANGED <<Arrived, Count, Ended>>
  /\ Promise!End <=>
       /\ ~Ended
       /\ \A p \in Ports : Outgoing[p] = <<>>
       /\ Ended' = TRUE
       /\ UNCHANGED <<Arrived, Count, Outgoing, Sent>>
<1> USE DEF Arrived, Count, Outgoing, Sent, Ended, Indices, Names, NameOf
<1>1. Promise!Next <=> Promise!End \/ \E p \in Ports :
        Promise!Arrive(p) \/ Promise!Handle(p) \/ Promise!SendOn(p) \/ Promise!Flush(p)
  BY DEF Promise!Next
<1>2. UNCHANGED Promise!vars <=> UNCHANGED <<Arrived, Count, Outgoing, Sent, Ended>>
  BY DEF Promise!vars
<1>3. \A p : Promise!Arrive(p) <=>
       /\ Arrived' = [Arrived EXCEPT ![p] = @ + 1]
       /\ UNCHANGED <<Count, Outgoing, Sent, Ended>>
  BY DEF Promise!Arrive
<1>4. \A p : Promise!Handle(p) <=>
       /\ ~Ended
       /\ Count[p] < Arrived[p]
       /\ Count' = [Count EXCEPT ![p] = @ + 1]
       /\ UNCHANGED <<Arrived, Outgoing, Sent, Ended>>
  BY DEF Promise!Handle
<1>5. \A p : Promise!AtHand(p) <=>
       /\ Count[p] > 0
       /\ \A i \in DOMAIN Outgoing[p] : Outgoing[p][i] < Count[p]
       /\ \A i \in DOMAIN Sent : Sent[i].port = p => Sent[i].index < Count[p]
  BY DEF Promise!AtHand
<1>6. \A p : Promise!SendOn(p) <=>
       /\ ~Ended
       /\ Promise!AtHand(p)
       /\ \/ /\ Outgoing' = [Outgoing EXCEPT ![p] = Append(@, Count[p])]
             /\ UNCHANGED Sent
          \/ /\ Outgoing[p] = <<>>
             /\ Sent' = Append(Sent, [port |-> p, index |-> Count[p]])
             /\ UNCHANGED Outgoing
       /\ UNCHANGED <<Arrived, Count, Ended>>
  BY DEF Promise!SendOn
<1>7. Promise!End <=>
       /\ ~Ended
       /\ \A p \in Ports : Outgoing[p] = <<>>
       /\ Ended' = TRUE
       /\ UNCHANGED <<Arrived, Count, Outgoing, Sent>>
  BY DEF Promise!End
<1>8. QED
  BY <1>1, <1>2, <1>3, <1>4, <1>5, <1>6, <1>7

LEMMA RelayFlush ==
  ASSUME NEW p,
         ~Ended,
         \E n \in 1..Len(Outgoing[p]) : \E kept \in Promise!Kept(n) :
           /\ Outgoing' = [Outgoing EXCEPT ![p] = SubSeq(@, n + 1, Len(@))]
           /\ Sent' = Sent \o [i \in DOMAIN kept |->
                                 [port |-> p, index |-> Outgoing[p][kept[i]]]],
         UNCHANGED <<Arrived, Count, Ended>>
  PROVE  Promise!Flush(p)
BY DEF Promise!Flush, Arrived, Count, Outgoing, Sent, Ended, Indices, Names, NameOf

(* What the relay does not see. *)
LEMMA RelayStill ==
  ASSUME UNCHANGED <<arrivals, handled, writeOps, wire>>, Ended' <=> Ended
  PROVE  UNCHANGED Promise!vars
<1>1. UNCHANGED <<Arrived, Count, Outgoing, Sent, Ended>>
  BY DEF Arrived, Count, Outgoing, Sent, Ended, Indices, Names, NameOf
<1>2. QED
  BY <1>1, RelaySteps

LEMMA RelayArrives ==
  ASSUME AllInv, NEW p \in Ports, NEW src \in Senders, NEW size \in Sizes,
         Asio!Deliver(p, src, size), UNCHANGED <<handled, main>>
  PROVE  Promise!Next
<1>1. arrivals \in [Ports -> Seq([src : Senders, size : Sizes])]
  BY IoTyped DEF IoTypes
<1>2. PICK d \in [src : Senders, size : Sizes] : d = [src |-> src, size |-> size]
  OBVIOUS
<1>3. arrivals' = [arrivals EXCEPT ![p] = Append(@, d)] /\ UNCHANGED <<wire, writeOps>>
  BY <1>2 DEF Asio!Deliver, Asio!reactorVars
<1>4. \A q \in Ports : Len(arrivals'[q]) = IF q = p THEN Len(arrivals[p]) + 1
                                            ELSE Len(arrivals[q])
  <2>1. Len(Append(arrivals[p], d)) = Len(arrivals[p]) + 1
    BY <1>1, AppendProperties
  <2>2. QED
    BY <1>1, <1>3, <2>1
<1>5. Arrived' = [Arrived EXCEPT ![p] = @ + 1]
  BY <1>4 DEF Arrived
<1>6. UNCHANGED <<Count, Outgoing, Sent, Ended>>
  BY <1>3 DEF Count, Outgoing, Sent, Ended, Indices, Names, NameOf
<1>7. QED
  BY <1>5, <1>6, RelaySteps

LEMMA RelayHandles ==
  ASSUME AllInv, AllInv', NEW p \in Ports, NEW k \in Nat,
         handled' = [handled EXCEPT ![p] = Append(@, k)],
         UNCHANGED <<arrivals, writeOps, wire, main>>, main # "returned"
  PROVE  Promise!Next
<1>1. handled \in [Ports -> Seq(Nat)]
  BY DEF AllInv, OwnInv, OwnTypes
<1>2. Len(handled'[p]) <= taken'[p] /\ taken'[p] <= Len(arrivals[p])
  BY DEF AllInv, OwnInv, HandledInOrderOnce, SendsBounded
<1>3. Len(handled[p]) \in Nat /\ Len(Append(handled[p], k)) = Len(handled[p]) + 1
  BY <1>1, AppendProperties, LenProperties
<1>4. \A q \in Ports : Len(handled'[q]) = IF q = p THEN Len(handled[p]) + 1
                                           ELSE Len(handled[q])
  BY <1>1, <1>3
<1>5. Count' = [Count EXCEPT ![p] = @ + 1]
  BY <1>4 DEF Count
<1>6. taken'[p] \in Nat /\ Len(arrivals[p]) \in Nat
  <2>1. taken' \in [Ports -> Nat]
    BY DEF AllInv, Asio!EventInv, Asio!AsioInv, Asio!TypeOK
  <2>2. arrivals \in [Ports -> Seq([src : Senders, size : Sizes])]
    BY IoTyped DEF IoTypes
  <2>3. QED
    BY <2>1, <2>2, LenProperties
<1>7. Count[p] < Arrived[p]
  BY <1>2, <1>3, <1>4, <1>6 DEF Count, Arrived
<1>8. ~Ended /\ UNCHANGED <<Arrived, Outgoing, Sent, Ended>>
  BY DEF Arrived, Outgoing, Sent, Ended, Indices, Names, NameOf
<1>9. QED
  BY <1>5, <1>7, <1>8, RelaySteps

LEMMA RelayForwards ==
  ASSUME AllInv, FlowInv, ForwardPacket PROVE [Promise!Next]_(Promise!vars)
<1>1. FlowTypes /\ StepsAgree /\ PhasesInOrder
  BY FlowTyped DEF AllInv, OwnInv
<1>2. /\ step = "send" /\ UNCHANGED <<main, handled, arrivals>>
      /\ Asio!AsyncSend(running.port, "sent", running.index, running.bytes)
  BY SameAsio DEF ForwardPacket, Asio!AsyncSend
<1>3. running # None /\ running.handler # "sent"
  BY <1>1, <1>2 DEF StepsAgree
<1>4. PICK p \in Ports : p = running.port
  BY <1>1, <1>3 DEF FlowTypes
<1>5. PICK op : op = [port |-> p, handler |-> "sent",
                      index |-> running.index, bytes |-> running.bytes]
  OBVIOUS
<1>6. op \in Asio!Send /\ op.port = p /\ op.index = running.index
  BY <1>3, <1>4, <1>5, RunningTyped DEF Asio!Send
<1>7. op.index = Len(handled[p]) /\ op.index > 0
  BY <1>3, <1>4, <1>6 DEF FlowInv, HandlerAtHand
<1>8. ~Ended
  <2>1. main = "returned" => ioState = "stopped"
    BY <1>1 DEF PhasesInOrder
  <2>2. ioState = "stopped" => running = None
    BY DEF AllInv, Asio!EventInv, Asio!AsioInv, Asio!StopsOnlyWhenIdle
  <2>3. QED
    BY <1>3, <2>1, <2>2 DEF Ended
<1>9. PICK ops \in [Ports -> Seq(Asio!Send)] : ops = writeOps
  BY <1>1 DEF FlowTypes
<1>10. Outgoing = [q \in Ports |-> Indices(ops[q])] /\ Count[p] = op.index
  BY <1>7, <1>9 DEF Outgoing, Count
<1>11. Promise!AtHand(p)
  <2>1. Sending(p)
    BY <1>2, <1>3, <1>4 DEF Sending
  <2>2. \A i \in DOMAIN Outgoing[p] : Outgoing[p][i] < Count[p]
    <3>1. \A i \in DOMAIN ops[p] : ops[p][i].index < Count[p]
      BY <1>7, <1>9, <1>10, <2>1 DEF FlowInv, SendsFollow, Past
    <3>2. QED
      BY <1>10, <3>1 DEF Indices
  <2>3. \A i \in DOMAIN Sent : Sent[i].port = p => Sent[i].index < Count[p]
    <3>1. \A i \in DOMAIN wire : wire[i].port = p => wire[i].index < Count[p]
      BY <1>7, <1>10, <2>1 DEF FlowInv, SendsFollow, Past
    <3>2. QED
      BY <3>1 DEF Sent, Names, NameOf
  <2>4. QED
    BY <1>7, <1>10, <2>2, <2>3, RelaySteps
<1>12. UNCHANGED <<Arrived, Count, Ended>>
  BY <1>2 DEF Arrived, Count, Ended
<1>13. Asio!SendNow(op) \/ Asio!SendLater(op)
  BY <1>2, <1>4, <1>5 DEF Asio!AsyncSend
<1>14. CASE Asio!SendLater(op)
  <2>1. writeOps' = [ops EXCEPT ![p] = Append(@, op)] /\ wire' = wire
    BY <1>6, <1>9, <1>14 DEF Asio!SendLater
  <2>2. Indices(Append(ops[p], op)) = Append(Indices(ops[p]), op.index)
    BY <1>6, IndicesAppend
  <2>3. \A q \in Ports : Indices(writeOps'[q]) =
          IF q = p THEN Append(Outgoing[p], Count[p]) ELSE Outgoing[q]
    BY <1>10, <2>1, <2>2
  <2>4. Outgoing' = [Outgoing EXCEPT ![p] = Append(@, Count[p])]
    <3>1. Outgoing' = [q \in Ports |-> Indices(writeOps'[q])]
      BY DEF Outgoing, Indices
    <3>2. QED
      BY <1>10, <2>3, <3>1
  <2>5. UNCHANGED Sent
    BY <2>1 DEF Sent, Names, NameOf
  <2>6. QED
    BY <1>8, <1>11, <1>12, <2>4, <2>5, RelaySteps
<1>15. CASE Asio!SendNow(op)
  <2>1. PICK w : w = Asio!Packet(op)
    OBVIOUS
  <2>2. /\ ops[p] = <<>> /\ writeOps' = writeOps
        /\ wire' = wire \/ wire' = Append(wire, w)
    BY <1>6, <1>9, <1>15, <2>1 DEF Asio!SendNow
  <2>3. UNCHANGED Outgoing
    BY <2>2 DEF Outgoing, Indices
  <2>4. Outgoing[p] = <<>>
    BY <1>10, <2>2, IndicesType
  <2>5. CASE wire' = wire
    <3>1. UNCHANGED Sent
      BY <2>5 DEF Sent, Names, NameOf
    <3>2. QED
      BY <1>12, <2>3, <3>1, RelaySteps
  <2>6. CASE wire' = Append(wire, w)
    <3>1. w \in Asio!Wired
      BY <1>6, <2>1, AsioAssumed, Asio!PacketType DEF AllInv, Asio!EventInv, Asio!AsioInv
    <3>2. NameOf(w) = [port |-> p, index |-> Count[p]]
      BY <1>6, <1>10, <2>1 DEF NameOf, Asio!Packet
    <3>3. PICK sent \in Seq(Asio!Wired) : sent = wire
      BY <1>1 DEF FlowTypes
    <3>4. Names(Append(sent, w)) = Append(Names(sent), NameOf(w))
      BY <3>1, NamesAppend
    <3>5. Sent' = Append(Sent, [port |-> p, index |-> Count[p]])
      <4>1. Sent' = Names(wire')
        BY DEF Sent, Names, NameOf
      <4>2. QED
        BY <2>6, <3>2, <3>3, <3>4, <4>1 DEF Sent
    <3>6. QED
      BY <1>8, <1>11, <1>12, <2>3, <2>4, <3>5, RelaySteps
  <2>7. QED
    BY <2>2, <2>5, <2>6
<1>16. QED
  BY <1>13, <1>14, <1>15

(* A pending send is of the port it waits at. *)
LEMMA OpPorts ==
  ASSUME AllInv, FlowInv, NEW p \in Ports, NEW i \in DOMAIN writeOps[p]
  PROVE  writeOps[p][i].port = p
BY DEF FlowInv, SendsFollow

(* A descriptor that gets rid of no send leaves what waits and what was sent. *)
LEMMA NothingLeaves ==
  ASSUME FlowTypes, NEW p \in Ports, NEW done, NEW more,
         NEW packets \in Seq(Asio!Wired), NEW full,
         Asio!DescriptorDoes(p, 0, done, more, packets, full)
  PROVE  UNCHANGED <<writeOps, wire>>
<1>1. PICK s \in Seq(Asio!Send) : s = writeOps[p]
  BY DEF FlowTypes
<1>2. PICK k : k = Len(s)
  OBVIOUS
<1>3. SubSeq(s, 0 + 1, k) = s
  BY <1>2, SubSeqFull
<1>4. writeOps' = writeOps
  BY <1>1, <1>2, <1>3 DEF Asio!DescriptorDoes, FlowTypes
<1>5. packets = <<>>
  <2>1. PICK m \in Nat : \E f :
          /\ Asio!Increasing(f, m, 0)
          /\ packets = [i \in 1..m |-> Asio!Packet(writeOps[p][f[i]])]
    BY DEF Asio!DescriptorDoes, Asio!KeptOf
  <2>2. m <= 0
    BY <2>1, IncreasingFit
  <2>3. DOMAIN packets = 1..0
    BY <2>1, <2>2
  <2>4. Len(packets) = 0
    BY <2>3, LenProperties
  <2>5. QED
    BY <2>4, EmptySeq
<1>6. PICK sent \in Seq(Asio!Wired) : sent = wire
  BY DEF FlowTypes
<1>7. wire' = sent \o packets
  BY <1>6 DEF Asio!DescriptorDoes
<1>8. wire' = wire
  BY <1>5, <1>6, <1>7, ConcatEmptySeq
<1>9. QED
  BY <1>4, <1>8

LEMMA RelayFlushes ==
  ASSUME AllInv, FlowInv, NEW p \in Ports, NEW n \in 1..Len(writeOps[p]),
         NEW done, NEW more, NEW packets \in Seq(Asio!Wired), NEW full,
         Asio!DescriptorDoes(p, n, done, more, packets, full),
         UNCHANGED <<arrivals, handled, main>>, main # "returned"
  PROVE  Promise!Next
<1>1. FlowTypes
  BY FlowTyped
<1>2. PICK ops \in [Ports -> Seq(Asio!Send)] : ops = writeOps
  BY <1>1 DEF FlowTypes
<1>3. PICK s \in Seq(Asio!Send) : s = ops[p]
  OBVIOUS
<1>4. Len(s) \in Nat /\ n \in 1..Len(s) /\ n \in 0..Len(s) /\ n \in Nat
  BY <1>2, <1>3, LenProperties
<1>5. Outgoing = [q \in Ports |-> Indices(ops[q])] /\ Outgoing[p] = Indices(s)
  BY <1>2, <1>3 DEF Outgoing
<1>6. Len(Outgoing[p]) = Len(s) /\ \A i \in 1..Len(s) : Outgoing[p][i] = s[i].index
  BY <1>5, IndicesType
<1>7. Outgoing' = [Outgoing EXCEPT ![p] = SubSeq(@, n + 1, Len(@))]
  <2>1. writeOps' = [ops EXCEPT ![p] = SubSeq(s, n + 1, Len(s))]
    BY <1>2, <1>3 DEF Asio!DescriptorDoes
  <2>2. Indices(SubSeq(s, n + 1, Len(s))) = SubSeq(Outgoing[p], n + 1, Len(Outgoing[p]))
    BY <1>4, <1>5, IndicesDrop
  <2>3. \A q \in Ports : Indices(writeOps'[q]) =
          IF q = p THEN SubSeq(Outgoing[p], n + 1, Len(Outgoing[p])) ELSE Outgoing[q]
    BY <1>5, <2>1, <2>2
  <2>4. Outgoing' = [q \in Ports |-> Indices(writeOps'[q])]
    BY DEF Outgoing, Indices
  <2>5. QED
    BY <1>5, <2>3, <2>4
<1>8. PICK m \in Nat : \E f :
        /\ Asio!Increasing(f, m, n)
        /\ packets = [k \in 1..m |-> Asio!Packet(writeOps[p][f[k]])]
  BY DEF Asio!DescriptorDoes, Asio!KeptOf
<1>9. PICK f : /\ Asio!Increasing(f, m, n)
               /\ packets = [k \in 1..m |-> Asio!Packet(s[f[k]])]
  BY <1>2, <1>3, <1>8
<1>10. f \in [1..m -> 1..n] /\ DOMAIN f = 1..m
       /\ \A i, j \in 1..m : i < j => f[i] < f[j]
  BY <1>9 DEF Asio!Increasing
<1>11. f \in Promise!Kept(n)
  <2>1. m \in 0..n
    <3>1. m <= n
      BY <1>4, <1>9, IncreasingFit, Zenon
    <3>2. QED
      BY <1>4, <3>1
  <2>2. f \in UNION {[1..k -> 1..n] : k \in 0..n}
    BY <1>10, <2>1
  <2>3. QED
    BY <1>10, <2>2 DEF Promise!Kept
<1>12. Names(packets) = [i \in DOMAIN f |-> [port |-> p, index |-> Outgoing[p][f[i]]]]
  <2>1. DOMAIN packets = 1..m
    BY <1>9
  <2>2. ASSUME NEW i \in 1..m
        PROVE  NameOf(packets[i]) = [port |-> p, index |-> Outgoing[p][f[i]]]
    <3>1. f[i] \in 1..Len(s)
      BY <1>4, <1>10
    <3>2. Outgoing[p][f[i]] = s[f[i]].index
      BY <1>6, <3>1
    <3>3. s[f[i]].port = p
      <4>1. DOMAIN s = 1..Len(s) /\ s = writeOps[p]
        BY <1>2, <1>3, LenProperties
      <4>2. QED
        BY <3>1, <4>1, OpPorts
    <3>4. packets[i] = Asio!Packet(s[f[i]])
      BY <1>9
    <3>5. QED
      BY <3>2, <3>3, <3>4 DEF NameOf, Asio!Packet
  <2>3. QED
    BY <1>10, <2>1, <2>2 DEF Names
<1>13. Sent' = Sent \o Names(packets)
  <2>1. PICK sent \in Seq(Asio!Wired) : sent = wire
    BY <1>1 DEF FlowTypes
  <2>2. Names(sent \o packets) = Names(sent) \o Names(packets)
    BY NamesConcat
  <2>3. wire' = sent \o packets
    BY <2>1 DEF Asio!DescriptorDoes
  <2>4. Sent' = Names(wire')
    BY DEF Sent, Names, NameOf
  <2>5. QED
    BY <2>1, <2>2, <2>3, <2>4 DEF Sent
<1>14. ~Ended /\ UNCHANGED <<Arrived, Count, Ended>>
  BY DEF Arrived, Count, Ended
<1>15. n \in 1..Len(Outgoing[p])
  BY <1>4, <1>6
<1>16. Promise!Flush(p)
  <2>1. Sent' = Sent \o [i \in DOMAIN f |-> [port |-> p, index |-> Outgoing[p][f[i]]]]
    BY <1>12, <1>13
  <2>2. \E k \in 1..Len(Outgoing[p]) : \E kept \in Promise!Kept(k) :
           /\ Outgoing' = [Outgoing EXCEPT ![p] = SubSeq(@, k + 1, Len(@))]
           /\ Sent' = Sent \o [i \in DOMAIN kept |->
                                 [port |-> p, index |-> Outgoing[p][kept[i]]]]
    BY <1>7, <1>11, <1>15, <2>1, Zenon
  <2>3. QED
    BY <1>14, <2>2, RelayFlush, Zenon
<1>17. QED
  BY <1>16, RelaySteps

(* A handler begins: of a received datagram, which is the next of its port. *)
LEMMA RelayEnters ==
  ASSUME AllInv, AllInv', NEW c \in Asio!Completion, Enter(c),
         UNCHANGED <<arrivals, writeOps, wire, main>>, main # "returned"
  PROVE  [Promise!Next]_(Promise!vars)
<1>1. CASE c.handler = "sent"
  <2>1. handled' = handled
    BY <1>1 DEF Enter
  <2>2. QED
    BY <2>1, RelayStill DEF Ended
<1>2. CASE c.handler # "sent"
  <2>1. c.port \in Ports /\ c.index \in Nat
    BY DEF Asio!Completion
  <2>2. handled' = [handled EXCEPT ![c.port] = Append(@, c.index)]
    BY <1>2 DEF Enter
  <2>3. QED
    BY <2>1, <2>2, RelayHandles
<1>3. QED
  BY <1>1, <1>2

LEMMA RunsOn == ASSUME AllInv, ioState = "running" PROVE main # "returned"
BY DEF AllInv, OwnInv, PhasesInOrder

LEMMA RelayDescriptor ==
  ASSUME AllInv, AllInv', FlowInv, NEW p \in Ports, RunDescriptor(p)
  PROVE  [Promise!Next]_(Promise!vars)
<1>1. Asio!RunDescriptor(p) /\ UNCHANGED <<main, arrivals>>
  <2>1. Asio!RunDescriptor(p) /\ UNCHANGED main
    BY SameAsio DEF RunDescriptor
  <2>2. QED
    BY <2>1 DEF Asio!RunDescriptor
<1>2. IF running' = None THEN UNCHANGED <<step, handled>> ELSE Enter(running')
  BY DEF RunDescriptor
<1>3. main # "returned"
  BY <1>1, RunsOn DEF Asio!RunDescriptor, Asio!Dispatches
<1>4. Asio!TypeOK /\ FlowTypes
  BY FlowTyped DEF AllInv, Asio!EventInv, Asio!AsioInv
<1>5. PICK n \in 0..Len(writeOps[p]), done \in Seq(Asio!Completion),
           more \in Seq(Asio!QueueItems), packets \in Seq(Asio!Wired), full \in BOOLEAN :
        Asio!DescriptorDoes(p, n, done, more, packets, full)
  BY <1>1, <1>4, AsioAssumed, Asio!DescriptorStep
<1>6. /\ n > 0 => done # <<>> /\ Head(done).handler = "sent"
      /\ n = 0 /\ Asio!Receives(p) => done # <<>>
  BY <1>5, DescriptorReceives
<1>7. running' = IF done = <<>> THEN None ELSE Head(done)
  BY <1>5 DEF Asio!DescriptorDoes
<1>8. running' # None => running' \in Asio!Completion
  BY DEF AllInv, Asio!EventInv, Asio!AsioInv, Asio!TypeOK
<1>9. Len(writeOps[p]) \in Nat
  BY <1>4, LenProperties DEF FlowTypes
<1>10. CASE n > 0
  <2>1. Head(done) \in Asio!Completion
    BY <1>6, <1>10, HeadTailProperties
  <2>2. running' = Head(done) /\ running' # None
    BY <1>6, <1>7, <1>10, <2>1, AsioAssumed DEF UdpProxyAssumption, Asio!AsioUdpAssumption
  <2>3. handled' = handled
    BY <1>2, <1>6, <1>10, <2>2 DEF Enter
  <2>4. n \in 1..Len(writeOps[p])
    BY <1>9, <1>10
  <2>5. QED
    BY <1>1, <1>3, <1>5, <2>3, <2>4, RelayFlushes
<1>11. CASE n = 0
  <2>1. UNCHANGED <<writeOps, wire>>
    BY <1>4, <1>5, <1>11, NothingLeaves
  <2>2. CASE running' = None
    BY <1>1, <1>2, <2>1, <2>2, RelayStill DEF Ended
  <2>3. CASE running' # None
    <3>1. PICK c \in Asio!Completion : c = running'
      BY <1>8, <2>3
    <3>2. Enter(c)
      BY <1>2, <2>3, <3>1
    <3>3. QED
      BY <1>1, <1>3, <2>1, <3>2, RelayEnters
  <2>4. QED
    BY <2>2, <2>3
<1>12. QED
  BY <1>9, <1>10, <1>11

LEMMA RelayCompletion ==
  ASSUME AllInv, AllInv', RunCompletion PROVE [Promise!Next]_(Promise!vars)
<1>1. /\ ioState = "running" /\ running' = Head(ioq).op
      /\ UNCHANGED <<arrivals, writeOps, wire, main>> /\ Enter(running')
  BY SameAsio
  DEF RunCompletion, Asio!RunCompletion, Asio!kernelVars, Asio!reactorVars
<1>2. running' # None
  <2>1. step' # "none"
    BY <1>1 DEF Enter, FirstStep
  <2>2. QED
    BY <2>1 DEF AllInv, OwnInv, StepsAgree
<1>3. PICK c \in Asio!Completion : c = running'
  BY <1>2 DEF AllInv, Asio!EventInv, Asio!AsioInv, Asio!TypeOK
<1>4. Enter(c) /\ main # "returned"
  BY <1>1, <1>3, RunsOn
<1>5. QED
  BY <1>1, <1>4, RelayEnters

(* startProxy returns: the context stopped, so nothing waits. *)
LEMMA RelayEnds ==
  ASSUME AllInv, Joined PROVE Promise!Next
<1>1. /\ main = "joined" /\ main' = "returned" /\ ioState = "stopped"
      /\ UNCHANGED <<arrivals, handled, writeOps, wire>>
  BY DEF Joined, ioVars
<1>2. \A p \in Ports : writeOps[p] = <<>>
  BY <1>1 DEF AllInv, Asio!EventInv, Asio!AsioInv, Asio!StopsOnlyWhenIdle
<1>3. \A p \in Ports : Outgoing[p] = <<>>
  <2>1. <<>> \in Seq(Asio!Send) /\ Indices(<<>>) = <<>>
    BY EmptySeq, IndicesType
  <2>2. QED
    BY <1>2, <2>1 DEF Outgoing
<1>4. ~Ended /\ Ended' = TRUE
  BY <1>1 DEF Ended
<1>5. UNCHANGED <<Arrived, Count, Outgoing, Sent>>
  BY <1>1 DEF Arrived, Count, Outgoing, Sent, Indices, Names, NameOf
<1>6. QED
  BY <1>3, <1>4, <1>5, RelaySteps

LEMMA RelayStep ==
  ASSUME AllInv, AllInv', FlowInv, [Next]_vars PROVE [Promise!Next]_(Promise!vars)
<1>1. CASE OpenPort \/ ArmPort \/ StartIoThread
  <2>1. UNCHANGED <<arrivals, handled, writeOps, wire>>
    BY <1>1, SameAsio
    DEF OpenPort, ArmPort, StartIoThread, ioVars, Asio!OpenSocket, Asio!AsyncReceive,
        Asio!StartRun, Asio!kernelVars, Asio!reactorVars
  <2>2. Ended' <=> Ended
    BY <1>1 DEF OpenPort, ArmPort, StartIoThread, Ended
  <2>3. QED
    BY <2>1, <2>2, RelayStill
<1>2. CASE Joined
  BY <1>2, RelayEnds
<1>3. CASE ClientSends \/ RemoteAnswers
  <2>1. UNCHANGED <<handled, main>>
    BY <1>3 DEF ClientSends, RemoteAnswers, proxyVars
  <2>2. \E p \in Ports, src \in Senders, size \in Sizes : Asio!Deliver(p, src, size)
    BY <1>3, SameAsio DEF ClientSends, RemoteAnswers, Senders
  <2>3. QED
    BY <2>1, <2>2, RelayArrives
<1>4. CASE SendBufferFills \/ Tick \/ \E p \in Ports : SendBufferDrains(p)
  <2>1. UNCHANGED <<arrivals, handled, writeOps, wire, main>>
    BY <1>4, SameAsio
    DEF SendBufferFills, SendBufferDrains, Tick, ioVars, proxyVars, Asio!Block,
        Asio!Drain, Asio!reactorVars
  <2>2. QED
    BY <2>1, RelayStill DEF Ended
<1>5. CASE RunTask
  <2>1. UNCHANGED <<arrivals, handled, writeOps, wire, main>>
    BY <1>5, SameAsio DEF RunTask, proxyVars, Asio!RunTask
  <2>2. QED
    BY <2>1, RelayStill DEF Ended
<1>6. CASE \E p \in Ports : RunDescriptor(p)
  BY <1>6, RelayDescriptor
<1>7. CASE RunCompletion
  BY <1>7, RelayCompletion
<1>8. CASE ForwardPacket
  BY <1>8, RelayForwards
<1>9. CASE AdmitPacket \/ RefusePacket \/ ChargePacket \/ ResolveFails \/ Rearm \/ Return
  <2>1. UNCHANGED <<arrivals, handled, writeOps, wire, main>>
    BY <1>9, SameAsio
    DEF AdmitPacket, RefusePacket, ChargePacket, ResolveFails, Rearm, Return, Attribute,
        ioVars, Asio!AsyncReceive, Asio!FinishHandler, Asio!kernelVars, Asio!reactorVars
  <2>2. QED
    BY <2>1, RelayStill DEF Ended
<1>10. CASE UNCHANGED vars
  <2>1. UNCHANGED <<arrivals, handled, writeOps, wire, main>>
    BY <1>10 DEF vars, ioVars, proxyVars
  <2>2. QED
    BY <2>1, RelayStill DEF Ended
<1>11. QED
  BY <1>1, <1>2, <1>3, <1>4, <1>5, <1>6, <1>7, <1>8, <1>9, <1>10
  DEF Next, StartProxy, IoThread, Handler, World

LEMMA InitRelay == ASSUME Init PROVE Promise!Init
<1>1. /\ arrivals = [p \in Ports |-> <<>>] /\ handled = [p \in Ports |-> <<>>]
      /\ writeOps = [p \in Ports |-> <<>>] /\ wire = <<>> /\ main = "opening"
  BY DEF Init, Io!Init
<1>2. Arrived = [p \in Ports |-> 0] /\ Count = [p \in Ports |-> 0] /\ Ended = FALSE
  BY <1>1 DEF Arrived, Count, Ended
<1>3. Outgoing = [p \in Ports |-> <<>>]
  <2>1. <<>> \in Seq(Asio!Send) /\ Indices(<<>>) = <<>>
    BY EmptySeq, IndicesType
  <2>2. \A p \in Ports : Indices(writeOps[p]) = <<>>
    BY <1>1, <2>1
  <2>3. QED
    BY <2>2 DEF Outgoing
<1>4. Sent = <<>>
  <2>1. PICK t \in Seq(Asio!Wired) : t = <<>>
    BY EmptySeq
  <2>2. PICK u \in Seq(Name) : u = Names(t) /\ Len(u) = Len(t)
    BY NamesType
  <2>3. u = <<>>
    BY <2>1, <2>2, EmptySeq
  <2>4. QED
    BY <1>1, <2>1, <2>2, <2>3 DEF Sent
<1>5. QED
  BY <1>2, <1>3, <1>4
  DEF Promise!Init, Arrived, Count, Outgoing, Sent, Ended, Indices, Names, NameOf

(***************************************************************************)
(* The proxy is a relay.  Whatever the ports share, and however completed, *)
(* posted and blocked operations interleave, a datagram leaves after it    *)
(* was handled, once, behind those of its port that still wait, and        *)
(* startProxy returns with none waiting (udp_proxy.cpp:26-55, 70-80).      *)
(***************************************************************************)
THEOREM ProxyIsRelay == Spec => KeepsPromise
<1>1. Init => Promise!Init
  BY InitRelay
<1>2. AllInv /\ AllInv' /\ FlowInv /\ [Next]_vars => [Promise!Next]_(Promise!vars)
  BY RelayStep
<1>3. QED
  BY <1>1, <1>2, FlowAlways, PTL DEF Spec, KeepsPromise, Promise!Spec

------------------------------------------------------------------------------
(***************************************************************************)
(* Fourth, what holds with one port only: buffer and clientEndpoint are    *)
(* those of the one datagram that is taken and not yet handled, until its  *)
(* handler has used them.                                                  *)
(***************************************************************************)
Fresh(c) ==
  c.failed \/ /\ c.index \in 1..Len(arrivals[c.port])
              /\ endpoint = arrivals[c.port][c.index].src
              /\ \A k \in 1..c.bytes : buffer[k] = [port |-> c.port, index |-> c.index]

ReceiveItem(x) == x.item = "completion" /\ x.op.handler # "sent"
FreshQueue == \A i \in DOMAIN ioq : ReceiveItem(ioq[i]) => Fresh(ioq[i].op)
Uses(s) == s \in {"check", "charge", "send"}

FreshInv ==
  /\ FreshQueue
  /\ Uses(step) => Fresh(running)
  /\ \A a \in attributed : a.index \in 1..Len(arrivals[a.port])
  /\ ChargedToSender

Extends ==
  \A p \in Ports :
    /\ Len(arrivals[p]) <= Len(arrivals'[p])
    /\ \A i \in 1..Len(arrivals[p]) : arrivals'[p][i] = arrivals[p][i]

(* Where the members of a queue that was changed come from. *)
LEMMA TailMembers ==
  ASSUME NEW S, NEW q \in Seq(S), q # <<>>
  PROVE  /\ \A i \in DOMAIN Tail(q) : \E j \in DOMAIN q : q[j] = Tail(q)[i]
         /\ \E j \in DOMAIN q : q[j] = Head(q)
<1>1. PICK t : t = Tail(q)
  OBVIOUS
<1>2. /\ Head(q) = q[1] /\ Len(q) \in Nat \ {0} /\ DOMAIN q = 1..Len(q)
      /\ t \in Seq(S) /\ Len(t) = Len(q) - 1
      /\ \A i \in 1..Len(t) : t[i] = q[i + 1]
  BY <1>1, LenProperties, EmptySeq, HeadTailProperties
<1>3. DOMAIN t = 1..(Len(q) - 1)
  BY <1>2, LenProperties
<1>4. \A i \in DOMAIN t : i + 1 \in DOMAIN q /\ t[i] = q[i + 1]
  BY <1>2, <1>3
<1>5. 1 \in DOMAIN q
  BY <1>2
<1>6. QED
  BY <1>1, <1>2, <1>4, <1>5

LEMMA ConcatMembers ==
  ASSUME NEW S, NEW q \in Seq(S), NEW r \in Seq(S), NEW i \in DOMAIN (q \o r)
  PROVE  (\E j \in DOMAIN q : q[j] = (q \o r)[i]) \/ (\E j \in DOMAIN r : r[j] = (q \o r)[i])
<1>1. PICK c : c = q \o r
  OBVIOUS
<1>2. PICK m \in Nat, n \in Nat : m = Len(q) /\ n = Len(r)
  BY LenProperties
<1>3. /\ DOMAIN q = 1..m /\ DOMAIN r = 1..n /\ DOMAIN c = 1..(m + n)
      /\ \A k \in 1..(m + n) : c[k] = IF k <= m THEN q[k] ELSE r[k - m]
  <2>1. /\ q \o r \in Seq(S) /\ Len(q \o r) = Len(q) + Len(r)
        /\ \A k \in 1..(Len(q) + Len(r)) :
             (q \o r)[k] = IF k <= Len(q) THEN q[k] ELSE r[k - Len(q)]
    BY ConcatProperties
  <2>2. DOMAIN q = 1..Len(q) /\ DOMAIN r = 1..Len(r) /\ DOMAIN c = 1..Len(c)
    BY <1>1, <2>1, LenProperties
  <2>3. QED
    BY <1>1, <1>2, <2>1, <2>2
<1>4. \/ i \in DOMAIN q /\ c[i] = q[i]
      \/ i - m \in DOMAIN r /\ c[i] = r[i - m]
  BY <1>1, <1>3
<1>5. QED
  BY <1>1, <1>4

LEMMA OneMember ==
  ASSUME NEW S, NEW x \in S
  PROVE  \E one \in Seq(S) : one = <<x>> /\ \A j \in DOMAIN one : one[j] = x
<1>1. PICK one : one = <<x>>
  OBVIOUS
<1>2. one \in Seq(S) /\ Len(one) = 1 /\ one[1] = x
  BY <1>1
<1>3. DOMAIN one = 1..1
  BY <1>2, LenProperties
<1>4. \A j \in DOMAIN one : one[j] = x
  BY <1>2, <1>3
<1> WITNESS one \in Seq(S)
<1>5. QED
  BY <1>1, <1>4

LEMMA FreshKeeps ==
  ASSUME NEW c, c.port \in Ports, Fresh(c), Extends, UNCHANGED <<endpoint, buffer>>,
         \A p \in Ports : Len(arrivals[p]) \in Nat /\ Len(arrivals'[p]) \in Nat
  PROVE  Fresh(c)'
<1>1. CASE c.failed
  BY <1>1 DEF Fresh
<1>2. CASE ~c.failed
  <2>1. /\ c.index \in 1..Len(arrivals[c.port])
        /\ endpoint = arrivals[c.port][c.index].src
        /\ \A k \in 1..c.bytes : buffer[k] = [port |-> c.port, index |-> c.index]
    BY <1>2 DEF Fresh
  <2>2. /\ c.index \in 1..Len(arrivals'[c.port])
        /\ arrivals'[c.port][c.index] = arrivals[c.port][c.index]
    BY <2>1 DEF Extends
  <2>3. QED
    BY <2>1, <2>2 DEF Fresh
<1>3. QED
  BY <1>1, <1>2

(* What this part needs of the types. *)
OneTypes ==
  /\ \A p \in Ports : Len(arrivals[p]) \in Nat
  /\ \A i \in DOMAIN ioq : ioq[i].item = "completion" => ioq[i].op \in Asio!Completion
  /\ running # None => running \in Asio!Completion
  /\ \A a \in attributed : a.port \in Ports

LEMMA OneTyped == AllInv => OneTypes
<1>1. SUFFICES ASSUME AllInv PROVE OneTypes
  OBVIOUS
<1>2. IoTypes /\ FlowTypes
  BY <1>1, IoTyped, FlowTyped
<1>3. \A p \in Ports : Len(arrivals[p]) \in Nat
  BY <1>2, LenProperties DEF IoTypes
<1>4. ASSUME NEW i \in DOMAIN ioq, ioq[i].item = "completion"
      PROVE  ioq[i].op \in Asio!Completion
  <2>1. ioq \in Seq(Asio!QueueItems)
    BY <1>2 DEF IoTypes
  <2>2. i \in 1..Len(ioq)
    BY <2>1, LenProperties
  <2>3. PICK x \in Asio!QueueItems : x = ioq[i]
    BY <2>1, <2>2, ElementOfSeq
  <2>4. QED
    BY <1>4, <2>3 DEF Asio!QueueItems, Asio!Task, Asio!Descriptor
<1>5. (running # None => running \in Asio!Completion) /\ \A a \in attributed : a.port \in Ports
  BY <1>2 DEF IoTypes, FlowTypes, Attribution
<1>6. QED
  BY <1>3, <1>4, <1>5 DEF OneTypes

LEMMA OneTypedNext == AllInv' => OneTypes'
<1>1. AllInv => OneTypes
  BY OneTyped
<1>2. QED
  BY <1>1, PTL

(* FreshInv in the next state, told of the completions themselves. *)
LEMMA FreshForm ==
  ASSUME \A i \in DOMAIN ioq' : \A c : c = ioq'[i].op /\ ReceiveItem(ioq'[i]) => Fresh(c)',
         Uses(step') => \E c : c = running' /\ Fresh(c)',
         attributed' = attributed, Extends, OneTypes, OneTypes', FreshInv
  PROVE  FreshInv'
<1>1. FreshQueue'
  BY DEF FreshQueue, ReceiveItem, Fresh
<1>2. Uses(step)' => Fresh(running)'
  BY DEF Uses, Fresh
<1>3. ASSUME NEW a \in attributed
      PROVE  a.index \in 1..Len(arrivals'[a.port]) /\ a.ip = arrivals'[a.port][a.index].src
  <2>1. a.index \in 1..Len(arrivals[a.port]) /\ a.ip = arrivals[a.port][a.index].src
    BY DEF FreshInv, ChargedToSender
  <2>2. a.port \in Ports /\ Len(arrivals[a.port]) \in Nat /\ Len(arrivals'[a.port]) \in Nat
    BY DEF OneTypes
  <2>3. QED
    BY <2>1, <2>2 DEF Extends
<1>4. QED
  BY <1>1, <1>2, <1>3 DEF FreshInv, ChargedToSender

(* Nothing is received. *)
LEMMA FreshMoves ==
  ASSUME AllInv, AllInv', FreshInv, Extends, UNCHANGED <<endpoint, buffer, attributed>>,
         \A i \in DOMAIN ioq' :
           ReceiveItem(ioq'[i]) => \E j \in DOMAIN ioq : ioq[j] = ioq'[i],
         Uses(step') => \/ Uses(step) /\ running' = running
                        \/ \E j \in DOMAIN ioq : ReceiveItem(ioq[j]) /\ ioq[j].op = running'
  PROVE  FreshInv'
<1>1. OneTypes /\ OneTypes'
  BY OneTyped, OneTypedNext
<1>2. \A p \in Ports : Len(arrivals[p]) \in Nat /\ Len(arrivals'[p]) \in Nat
  BY <1>1 DEF OneTypes
<1>3. ASSUME NEW j \in DOMAIN ioq, ReceiveItem(ioq[j]), NEW c, c = ioq[j].op
      PROVE  Fresh(c)'
  <2>1. Fresh(c)
    BY <1>3 DEF FreshInv, FreshQueue
  <2>2. c.port \in Ports
    BY <1>1, <1>3 DEF OneTypes, ReceiveItem, Asio!Completion
  <2>3. QED
    BY <1>2, <2>1, <2>2, FreshKeeps
<1>4. ASSUME NEW i \in DOMAIN ioq', NEW c, c = ioq'[i].op, ReceiveItem(ioq'[i])
      PROVE  Fresh(c)'
  <2>1. PICK j \in DOMAIN ioq : ioq[j] = ioq'[i]
    BY <1>4
  <2>2. QED
    BY <1>3, <1>4, <2>1
<1>5. ASSUME Uses(step') PROVE \E c : c = running' /\ Fresh(c)'
  <2>1. PICK c : c = running'
    OBVIOUS
  <2>2. CASE Uses(step) /\ running' = running
    <3>1. Fresh(c)
      BY <2>1, <2>2 DEF FreshInv
    <3>2. c.port \in Ports
      <4>1. running # None
        BY <2>2 DEF AllInv, OwnInv, StepsAgree, Uses
      <4>2. QED
        BY <1>1, <2>1, <2>2, <4>1 DEF OneTypes, Asio!Completion
    <3>3. QED
      BY <1>2, <2>1, <3>1, <3>2, FreshKeeps
  <2>3. CASE \E j \in DOMAIN ioq : ReceiveItem(ioq[j]) /\ ioq[j].op = running'
    BY <1>3, <2>1, <2>3
  <2>4. QED
    BY <1>5, <2>2, <2>3
<1>6. QED
  BY <1>1, <1>4, <1>5, FreshForm

(* A datagram is received while no completion of a receive is queued. *)
LEMMA FreshTakes ==
  ASSUME AllInv, AllInv', FreshInv, PortCount = 1,
         NEW p \in Ports, NEW op \in Asio!Receive, NEW c, c = Asio!ReceiveDone(p, op),
         Asio!Readable(p), Asio!PerformReceive(p), NoReceive(ioq, p),
         UNCHANGED <<arrivals, attributed>>,
         \A i \in DOMAIN ioq' : ReceiveItem(ioq'[i]) =>
           ioq'[i].op = c \/ \E j \in DOMAIN ioq : ioq[j] = ioq'[i],
         Uses(step') => running' = c
  PROVE  FreshInv'
<1>1. OneTypes /\ OneTypes'
  BY OneTyped, OneTypedNext
<1>2. Ports = {p}
  BY DEF Ports
<1>3. \A j \in DOMAIN ioq : ~ReceiveItem(ioq[j])
  <2>1. ASSUME NEW j \in DOMAIN ioq, ReceiveItem(ioq[j]) PROVE ioq[j].op.port = p
    BY <1>1, <1>2, <2>1 DEF OneTypes, ReceiveItem, Asio!Completion
  <2>2. QED
    BY <2>1 DEF NoReceive, Receives, ReceiveItem
<1>4. Fresh(c)'
  <2>1. Asio!TypeOK
    BY DEF AllInv, Asio!EventInv, Asio!AsioInv
  <2>2. /\ taken[p] \in Nat /\ Len(arrivals[p]) \in Nat
        /\ taken[p] + 1 \in 1..Len(arrivals[p])
    <3>1. taken[p] \in Nat /\ Len(arrivals[p]) \in Nat
      BY <1>1, IoTyped DEF OneTypes, IoTypes
    <3>2. QED
      BY <3>1 DEF Asio!Readable
  <2>3. Asio!BytesOf(p) \in 0..BufferSize
    BY <2>1, AsioAssumed, Asio!HeadType
  <2>4. /\ c.port = p /\ c.index = taken[p] + 1 /\ c.bytes = Asio!BytesOf(p)
        /\ c.failed = Asio!Failed(p)
    BY DEF Asio!ReceiveDone
  <2>5. /\ ~Asio!Failed(p) => endpoint' = arrivals[p][taken[p] + 1].src
        /\ \A k \in 1..BufferSize : k <= Asio!BytesOf(p) =>
             buffer'[k] = [port |-> p, index |-> taken[p] + 1]
    BY DEF Asio!PerformReceive, Asio!Head1
  <2>6. BufferSize \in Nat
    BY UdpProxyAssumption
  <2>7. \A k \in 1..c.bytes : buffer'[k] = [port |-> c.port, index |-> c.index]
    BY <2>3, <2>4, <2>5, <2>6
  <2>8. QED
    BY <2>2, <2>4, <2>5, <2>7 DEF Fresh
<1>5. \A i \in DOMAIN ioq' : \A d : d = ioq'[i].op /\ ReceiveItem(ioq'[i]) => Fresh(d)'
  <2>1. ASSUME NEW i \in DOMAIN ioq', ReceiveItem(ioq'[i]) PROVE ioq'[i].op = c
    <3>1. ~\E j \in DOMAIN ioq : ioq[j] = ioq'[i]
      BY <1>3, <2>1
    <3>2. QED
      BY <2>1, <3>1
  <2>2. QED
    BY <1>4, <2>1
<1>6. Extends
  BY <1>1 DEF Extends, OneTypes
<1>7. QED
  BY <1>1, <1>4, <1>5, <1>6, FreshForm

LEMMA FreshStill ==
  ASSUME AllInv, AllInv', FreshInv,
         UNCHANGED <<arrivals, endpoint, buffer, attributed, ioq>>,
         Uses(step') => Uses(step) /\ running' = running
  PROVE  FreshInv'
<1>1. Extends
  BY OneTyped DEF Extends, OneTypes
<1>2. QED
  BY <1>1, FreshMoves

LEMMA FreshDeliver ==
  ASSUME AllInv, AllInv', FreshInv,
         NEW p \in Ports, NEW src \in Senders, NEW size \in Sizes,
         Asio!Deliver(p, src, size), UNCHANGED <<step, attributed>>
  PROVE  FreshInv'
<1>1. arrivals \in [Ports -> Seq([src : Senders, size : Sizes])]
  BY IoTyped DEF IoTypes
<1>2. PICK d \in [src : Senders, size : Sizes] : d = [src |-> src, size |-> size]
  OBVIOUS
<1>3. /\ arrivals' = [arrivals EXCEPT ![p] = Append(@, d)]
      /\ UNCHANGED <<endpoint, buffer, ioq, running>>
  BY <1>2 DEF Asio!Deliver, Asio!schedulerVars, Asio!memoryVars
<1>4. PICK s \in Seq([src : Senders, size : Sizes]) : s = arrivals[p]
  BY <1>1
<1>5. /\ Len(s) \in Nat /\ Len(Append(s, d)) = Len(s) + 1
      /\ \A i \in 1..Len(s) : Append(s, d)[i] = s[i]
  BY AppendProperties, LenProperties
<1>6. \A q \in Ports : arrivals'[q] = IF q = p THEN Append(s, d) ELSE arrivals[q]
  BY <1>1, <1>3, <1>4
<1>7. \A q \in Ports : Len(arrivals[q]) \in Nat
  BY OneTyped DEF OneTypes
<1>8. ASSUME NEW q \in Ports
      PROVE  /\ Len(arrivals[q]) <= Len(arrivals'[q])
             /\ \A i \in 1..Len(arrivals[q]) : arrivals'[q][i] = arrivals[q][i]
  <2>1. CASE q = p
    <3>1. arrivals[q] = s /\ arrivals'[q] = Append(s, d)
      BY <1>4, <1>6, <2>1
    <3>2. QED
      BY <1>5, <3>1
  <2>2. CASE q # p
    <3>1. arrivals'[q] = arrivals[q] /\ Len(arrivals[q]) \in Nat
      BY <1>6, <1>7, <2>2
    <3>2. QED
      BY <3>1
  <2>3. QED
    BY <2>1, <2>2
<1>9. Extends
  BY <1>8 DEF Extends
<1>10. QED
  BY <1>3, <1>9, FreshMoves

LEMMA FreshTask == ASSUME AllInv, AllInv', FreshInv, RunTask PROVE FreshInv'
<1>1. Asio!RunTask /\ UNCHANGED <<step, attributed>>
  BY SameAsio DEF RunTask, proxyVars
<1>2. Asio!TypeTurn
  BY DEF AllInv, Asio!EventInv, Asio!AsioInv, Asio!TypeTurn
<1>3. PICK r \in Seq(Asio!QueueItems) :
        ioq' = Tail(ioq) \o r /\ \A i \in DOMAIN r : r[i].item # "completion"
  BY <1>1, <1>2, AsioAssumed, Asio!TaskAppends
<1>4. UNCHANGED <<arrivals, endpoint, buffer, running>>
  BY <1>1 DEF Asio!RunTask, Asio!memoryVars
<1>5. PICK q \in Seq(Asio!QueueItems) : q = ioq /\ q # <<>>
  BY IoTyped DEF IoTypes
<1>6. PICK t \in Seq(Asio!QueueItems) : t = Tail(q)
  BY <1>5, HeadTailProperties
<1>7. \A i \in DOMAIN t : \E j \in DOMAIN q : q[j] = t[i]
  BY <1>5, <1>6, TailMembers
<1>8. ASSUME NEW i \in DOMAIN ioq', ReceiveItem(ioq'[i])
      PROVE  \E j \in DOMAIN ioq : ioq[j] = ioq'[i]
  <2>1. ioq' = t \o r
    BY <1>3, <1>5, <1>6
  <2>2. (\E j \in DOMAIN t : t[j] = ioq'[i]) \/ (\E j \in DOMAIN r : r[j] = ioq'[i])
    BY <2>1, ConcatMembers
  <2>3. ~\E j \in DOMAIN r : r[j] = ioq'[i]
    BY <1>3, <1>8 DEF ReceiveItem
  <2>4. QED
    BY <1>5, <1>7, <2>2, <2>3
<1>9. Extends
  BY <1>4, OneTyped DEF Extends, OneTypes
<1>10. QED
  BY <1>1, <1>4, <1>8, <1>9, FreshMoves

LEMMA FreshCompletion == ASSUME AllInv, AllInv', FreshInv, RunCompletion PROVE FreshInv'
<1>1. Asio!RunCompletion /\ Enter(running') /\ UNCHANGED attributed
  BY SameAsio DEF RunCompletion
<1>2. /\ Head(ioq).item = "completion" /\ running' = Head(ioq).op /\ ioq' = Tail(ioq)
      /\ UNCHANGED <<arrivals, endpoint, buffer>>
  BY <1>1 DEF Asio!RunCompletion, Asio!kernelVars, Asio!memoryVars
<1>3. PICK q \in Seq(Asio!QueueItems) : q = ioq /\ q # <<>>
  BY IoTyped DEF IoTypes
<1>4. /\ \A i \in DOMAIN Tail(q) : \E j \in DOMAIN q : q[j] = Tail(q)[i]
      /\ \E j \in DOMAIN q : q[j] = Head(q)
  BY <1>3, TailMembers
<1>5. Uses(step') => running'.handler # "sent"
  BY <1>1 DEF Enter, FirstStep, Uses
<1>6. Uses(step') => \E j \in DOMAIN ioq : ReceiveItem(ioq[j]) /\ ioq[j].op = running'
  BY <1>2, <1>3, <1>4, <1>5 DEF ReceiveItem
<1>7. \A i \in DOMAIN ioq' : \E j \in DOMAIN ioq : ioq[j] = ioq'[i]
  BY <1>2, <1>3, <1>4
<1>8. Extends
  BY <1>2, OneTyped DEF Extends, OneTypes
<1>9. QED
  BY <1>1, <1>2, <1>6, <1>7, <1>8, FreshMoves

(* The sender the handler reads is that of its datagram. *)
LEMMA FreshCheck ==
  ASSUME AllInv, AllInv', FreshInv, AdmitPacket \/ RefusePacket PROVE FreshInv'
<1>1. /\ step = "check" /\ Attribute /\ UNCHANGED <<arrivals, endpoint, buffer, ioq, running>>
  BY DEF AdmitPacket, RefusePacket, Attribute, ioVars
<1>2. running # None /\ ~running.failed
  BY <1>1 DEF AllInv, OwnInv, StepsAgree
<1>3. PICK a : a = [port |-> running.port, index |-> running.index, ip |-> endpoint]
  OBVIOUS
<1>4. attributed' = attributed \cup {a}
  BY <1>1, <1>3 DEF Attribute
<1>5. Fresh(running)
  BY <1>1 DEF FreshInv, Uses
<1>6. a.index \in 1..Len(arrivals[a.port]) /\ a.ip = arrivals[a.port][a.index].src
  BY <1>2, <1>3, <1>5 DEF Fresh
<1>7. \A b \in attributed' : /\ b.index \in 1..Len(arrivals[b.port])
                             /\ b.ip = arrivals[b.port][b.index].src
  BY <1>4, <1>6 DEF FreshInv, ChargedToSender
<1>8. FreshQueue' /\ Fresh(running)'
  <2>1. FreshQueue'
    BY <1>1 DEF FreshInv, FreshQueue, ReceiveItem, Fresh
  <2>2. Fresh(running)'
    BY <1>1, <1>5 DEF Fresh
  <2>3. QED
    BY <2>1, <2>2
<1>9. QED
  BY <1>1, <1>7, <1>8 DEF FreshInv, ChargedToSender

LEMMA FreshForward == ASSUME AllInv, AllInv', FreshInv, ForwardPacket PROVE FreshInv'
<1>1. /\ step = "send" /\ step' = AfterPacket(running)
      /\ Asio!AsyncSend(running.port, "sent", running.index, running.bytes)
      /\ UNCHANGED attributed
  BY SameAsio DEF ForwardPacket
<1>2. running # None
  BY <1>1 DEF AllInv, OwnInv, StepsAgree
<1>3. PICK op : op = [port |-> running.port, handler |-> "sent",
                      index |-> running.index, bytes |-> running.bytes]
  OBVIOUS
<1>4. op \in Asio!Send /\ op.handler = "sent"
  BY <1>2, <1>3, RunningTyped DEF Asio!Send
<1>5. /\ Asio!SendNow(op) \/ Asio!SendLater(op)
      /\ UNCHANGED <<arrivals, endpoint, buffer, running>>
  BY <1>1, <1>3 DEF Asio!AsyncSend
<1>6. ~Uses(step')
  BY <1>1 DEF AfterPacket, Uses
<1>7. ASSUME NEW i \in DOMAIN ioq', ReceiveItem(ioq'[i])
      PROVE  \E j \in DOMAIN ioq : ioq[j] = ioq'[i]
  <2>1. CASE Asio!SendLater(op)
    BY <1>7, <2>1 DEF Asio!SendLater
  <2>2. CASE Asio!SendNow(op)
    <3>1. PICK rejected \in Asio!Rejected(1) :
            ioq' = Append(ioq, Asio!Completed(Asio!SendDone(op, 1 \in rejected)))
      BY <2>2 DEF Asio!SendNow
    <3>2. PICK c \in Asio!Completion : c = Asio!SendDone(op, 1 \in rejected)
      <4>1. PICK failed \in BOOLEAN : failed <=> 1 \in rejected
        BY Zenon
      <4>2. Asio!SendDone(op, failed) \in Asio!Completion
        BY <1>4, AsioAssumed, Asio!SendDoneType
      <4>3. Asio!SendDone(op, 1 \in rejected) = Asio!SendDone(op, failed)
        BY <4>1 DEF Asio!SendDone
      <4>4. QED
        BY <4>2, <4>3
    <3>3. PICK x \in Asio!QueueItems : x = Asio!Completed(c) /\ x.op = c
      BY CompletedReceives
    <3>4. c.handler = "sent"
      BY <1>4, <3>2 DEF Asio!SendDone
    <3>5. PICK q \in Seq(Asio!QueueItems) : q = ioq
      BY IoTyped DEF IoTypes
    <3>6. PICK one \in Seq(Asio!QueueItems) : one = <<x>> /\ \A j \in DOMAIN one : one[j] = x
      BY <3>3, OneMember
    <3>7. ioq' = q \o one
      <4>1. Append(q, x) = q \o one
        BY <3>5, <3>6, AppendIsConcat
      <4>2. ioq' = Append(q, x)
        BY <3>1, <3>2, <3>3, <3>5
      <4>3. QED
        BY <4>1, <4>2
    <3>8. (\E j \in DOMAIN q : q[j] = ioq'[i]) \/ (\E j \in DOMAIN one : one[j] = ioq'[i])
      BY <3>7, ConcatMembers
    <3>9. ioq'[i] # x
      BY <1>7, <3>3, <3>4 DEF ReceiveItem
    <3>10. QED
      BY <3>5, <3>6, <3>8, <3>9
  <2>3. QED
    BY <1>5, <2>1, <2>2
<1>8. Extends
  BY <1>5, OneTyped DEF Extends, OneTypes
<1>9. QED
  BY <1>1, <1>5, <1>6, <1>7, <1>8, FreshMoves

LEMMA FreshReceive ==
  ASSUME AllInv, AllInv', FreshInv, PortCount = 1,
         NEW p \in Ports, NEW h \in {"outer", "inner"}, Asio!AsyncReceive(p, h),
         NoReceive(ioq, p), attributed' = attributed, ~Uses(step')
  PROVE  FreshInv'
<1>1. PICK op \in Asio!Receive : op = [port |-> p, handler |-> h]
  BY DEF Asio!Receive
<1>2. /\ UNCHANGED arrivals
      /\ \/ /\ Asio!Readable(p) /\ Asio!PerformReceive(p)
            /\ ioq' = Append(ioq, Asio!Completed(Asio!ReceiveDone(p, op)))
         \/ UNCHANGED <<endpoint, buffer, ioq>>
  BY <1>1 DEF Asio!AsyncReceive
<1>3. CASE UNCHANGED <<endpoint, buffer, ioq>>
  BY <1>2, <1>3, FreshStill
<1>4. CASE /\ Asio!Readable(p) /\ Asio!PerformReceive(p)
           /\ ioq' = Append(ioq, Asio!Completed(Asio!ReceiveDone(p, op)))
  <2>1. PICK c \in Asio!Completion : c = Asio!ReceiveDone(p, op)
    BY <1>4, AsioAssumed, Asio!ReceiveDoneType DEF AllInv, Asio!EventInv, Asio!AsioInv
  <2>2. PICK x \in Asio!QueueItems : x = Asio!Completed(c) /\ x.op = c
    BY CompletedReceives
  <2>3. PICK q \in Seq(Asio!QueueItems) : q = ioq
    BY IoTyped DEF IoTypes
  <2>4. PICK one \in Seq(Asio!QueueItems) : one = <<x>> /\ \A j \in DOMAIN one : one[j] = x
    BY <2>2, OneMember
  <2>5. ioq' = q \o one
    BY <1>4, <2>1, <2>2, <2>3, <2>4, AppendIsConcat
  <2>6. ASSUME NEW i \in DOMAIN ioq'
        PROVE  ioq'[i].op = c \/ \E j \in DOMAIN ioq : ioq[j] = ioq'[i]
    <3>1. (\E j \in DOMAIN q : q[j] = ioq'[i]) \/ (\E j \in DOMAIN one : one[j] = ioq'[i])
      BY <2>5, ConcatMembers
    <3>2. QED
      BY <2>2, <2>3, <2>4, <3>1
  <2>7. QED
    BY <1>2, <1>4, <2>1, <2>6, FreshTakes
<1>5. QED
  BY <1>2, <1>3, <1>4

LEMMA FreshDescriptor ==
  ASSUME AllInv, AllInv', FreshInv, PortCount = 1, NEW p \in Ports, RunDescriptor(p)
  PROVE  FreshInv'
<1>1. /\ Asio!RunDescriptor(p) /\ UNCHANGED attributed
      /\ IF running' = None THEN UNCHANGED <<step, handled>> ELSE Enter(running')
  BY SameAsio DEF RunDescriptor
<1>2. /\ UNCHANGED arrivals /\ running = None
      /\ Asio!Receives(p) => Asio!PerformReceive(p)
      /\ ~Asio!Receives(p) => UNCHANGED <<endpoint, buffer>>
  BY <1>1 DEF Asio!RunDescriptor, Asio!Dispatches
<1>3. Asio!TypeOK /\ IoTypes /\ FlowTypes /\ OwnInv
  BY IoTyped, FlowTyped DEF AllInv, Asio!EventInv, Asio!AsioInv
<1>4. PICK n \in 0..Len(writeOps[p]), done \in Seq(Asio!Completion),
           more \in Seq(Asio!QueueItems), packets \in Seq(Asio!Wired), full \in BOOLEAN :
        Asio!DescriptorDoes(p, n, done, more, packets, full)
  BY <1>1, <1>3, AsioAssumed, Asio!DescriptorStep
<1>5. /\ n > 0 => done # <<>> /\ Head(done).handler = "sent"
      /\ n = 0 /\ Asio!Receives(p) =>
           done # <<>> /\ Head(done) = Asio!ReceiveDone(p, readOp[p])
      /\ n = 0 /\ ~Asio!Receives(p) => done = <<>>
  BY <1>4, DescriptorReceives
<1>6. n \in Nat /\ (n = 0 \/ n > 0)
  BY <1>3, LenProperties DEF IoTypes
<1>7. Uses(step') => Asio!Receives(p) /\ running' = Asio!ReceiveDone(p, readOp[p])
  <2>1. SUFFICES ASSUME Uses(step')
                 PROVE  Asio!Receives(p) /\ running' = Asio!ReceiveDone(p, readOp[p])
    OBVIOUS
  <2>2. running' # None
    BY <1>1, <1>2, <1>3, <2>1 DEF OwnInv, StepsAgree, Uses
  <2>3. running'.handler # "sent"
    BY <1>1, <2>1, <2>2 DEF Enter, FirstStep, Uses
  <2>4. running' = IF done = <<>> THEN None ELSE Head(done)
    BY <1>4 DEF Asio!DescriptorDoes
  <2>5. QED
    BY <1>5, <1>6, <2>2, <2>3, <2>4
<1>8. ASSUME NEW i \in DOMAIN more, ReceiveItem(more[i])
      PROVE  Asio!Receives(p) /\ more[i].op = Asio!ReceiveDone(p, readOp[p])
  <2>1. i + 1 \in 1..Len(done) /\ more[i].op = done[i + 1]
    BY <1>4 DEF Asio!DescriptorDoes, Asio!Completed
  <2>2. \A j \in 1..n : done[j].handler = "sent"
    <3>1. DOMAIN writeOps[p] = 1..Len(writeOps[p]) /\ Len(writeOps[p]) \in Nat
      BY <1>3, LenProperties DEF IoTypes
    <3>2. \A j \in 1..n : j \in DOMAIN writeOps[p]
      BY <3>1
    <3>3. QED
      BY <1>3, <1>4, <3>2 DEF OwnInv, OwnHandlers, Asio!DescriptorDoes
  <2>3. i + 1 \notin 1..n
    BY <1>8, <2>1, <2>2 DEF ReceiveItem
  <2>4. i + 1 \in Nat /\ 0 < i + 1
    BY <2>1
  <2>5. Len(done) = n + (IF Asio!Receives(p) THEN 1 ELSE 0)
    BY <1>4 DEF Asio!DescriptorDoes
  <2>6. Asio!Receives(p) /\ i + 1 = n + 1
    <3>1. n < i + 1
      BY <1>6, <2>3, <2>4
    <3>2. i + 1 <= Len(done)
      BY <2>1
    <3>3. QED
      BY <1>6, <2>4, <2>5, <3>1, <3>2
  <2>7. QED
    BY <1>4, <2>1, <2>6 DEF Asio!DescriptorDoes
<1>9. PICK q \in Seq(Asio!QueueItems) : q = ioq /\ q # <<>>
  BY IoTyped DEF IoTypes
<1>10. PICK t \in Seq(Asio!QueueItems) : t = Tail(q)
  BY <1>9, HeadTailProperties
<1>11. \A i \in DOMAIN t : \E j \in DOMAIN q : q[j] = t[i]
  BY <1>9, <1>10, TailMembers
<1>12. ASSUME NEW i \in DOMAIN ioq', ReceiveItem(ioq'[i])
       PROVE  \/ \E j \in DOMAIN ioq : ioq[j] = ioq'[i]
              \/ Asio!Receives(p) /\ ioq'[i].op = Asio!ReceiveDone(p, readOp[p])
  <2>1. ioq' = t \o more
    BY <1>4, <1>9, <1>10 DEF Asio!DescriptorDoes
  <2>2. (\E j \in DOMAIN t : t[j] = ioq'[i]) \/ (\E j \in DOMAIN more : more[j] = ioq'[i])
    BY <2>1, ConcatMembers
  <2>3. CASE \E j \in DOMAIN t : t[j] = ioq'[i]
    BY <1>9, <1>11, <2>3
  <2>4. CASE \E j \in DOMAIN more : more[j] = ioq'[i]
    BY <1>8, <1>12, <2>4
  <2>5. QED
    BY <2>2, <2>3, <2>4
<1>13. CASE ~Asio!Receives(p)
  <2>1. Extends
    BY <1>2, OneTyped DEF Extends, OneTypes
  <2>2. QED
    BY <1>1, <1>2, <1>7, <1>12, <1>13, <2>1, FreshMoves
<1>14. CASE Asio!Receives(p)
  <2>1. Asio!Readable(p) /\ readOp[p] # None
    BY <1>14 DEF Asio!Receives
  <2>2. PICK op \in Asio!Receive : op = readOp[p]
    BY <1>3, <2>1 DEF IoTypes
  <2>3. PICK c : c = Asio!ReceiveDone(p, op)
    OBVIOUS
  <2>4. NoReceive(ioq, p)
    BY <1>3, <2>1 DEF OwnInv, OneReceiveEach
  <2>5. QED
    BY <1>1, <1>2, <1>7, <1>12, <1>14, <2>1, <2>2, <2>3, <2>4, FreshTakes
<1>15. QED
  BY <1>13, <1>14

LEMMA FreshStep ==
  ASSUME AllInv, AllInv', FreshInv, PortCount = 1, [Next]_vars PROVE FreshInv'
<1>1. CASE OpenPort \/ StartIoThread \/ Joined
  <2>1. UNCHANGED <<arrivals, endpoint, buffer, attributed, ioq, step, running>>
    BY <1>1, SameAsio
    DEF OpenPort, StartIoThread, Joined, ioVars, Asio!OpenSocket, Asio!StartRun,
        Asio!kernelVars, Asio!reactorVars, Asio!schedulerVars, Asio!memoryVars
  <2>2. QED
    BY <2>1, FreshStill
<1>2. CASE ArmPort
  <2>1. /\ main = "arming" /\ next \in Ports
        /\ step' = step /\ attributed' = attributed
    BY <1>2, PortsFinite DEF ArmPort, AllInv, OwnInv, OwnTypes, PhasesInOrder, Ports
  <2>2. PICK p \in Ports : p = next
    BY <2>1
  <2>3. Asio!AsyncReceive(p, "outer")
    BY <1>2, <2>2, SameAsio DEF ArmPort
  <2>4. NoReceive(ioq, p)
    BY <2>1, <2>2, PortsFinite DEF AllInv, OwnInv, OneReceiveEach, Ports
  <2>5. ~Uses(step')
    BY <2>1 DEF AllInv, OwnInv, PhasesInOrder, StepsAgree, Uses
  <2>6. QED
    BY <2>1, <2>3, <2>4, <2>5, FreshReceive
<1>3. CASE ClientSends \/ RemoteAnswers
  <2>1. UNCHANGED <<step, attributed>>
    BY <1>3 DEF ClientSends, RemoteAnswers, proxyVars
  <2>2. \E p \in Ports, src \in Senders, size \in Sizes : Asio!Deliver(p, src, size)
    BY <1>3, SameAsio DEF ClientSends, RemoteAnswers, Senders
  <2>3. QED
    BY <2>1, <2>2, FreshDeliver
<1>4. CASE SendBufferFills \/ Tick \/ \E p \in Ports : SendBufferDrains(p)
  <2>1. UNCHANGED <<arrivals, endpoint, buffer, attributed, ioq, step, running>>
    BY <1>4, SameAsio
    DEF SendBufferFills, SendBufferDrains, Tick, ioVars, proxyVars, Asio!Block,
        Asio!Drain, Asio!schedulerVars, Asio!memoryVars
  <2>2. QED
    BY <2>1, FreshStill
<1>5. CASE RunTask
  BY <1>5, FreshTask
<1>6. CASE \E p \in Ports : RunDescriptor(p)
  BY <1>6, FreshDescriptor
<1>7. CASE RunCompletion
  BY <1>7, FreshCompletion
<1>8. CASE AdmitPacket \/ RefusePacket
  BY <1>8, FreshCheck
<1>9. CASE ForwardPacket
  BY <1>9, FreshForward
<1>10. CASE Rearm
  <2>1. /\ step = "rearm" /\ step' = "return" /\ attributed' = attributed
        /\ Asio!AsyncReceive(running.port, "inner")
    BY <1>10, SameAsio DEF Rearm
  <2>2. running # None /\ running.handler = "outer"
    BY <2>1 DEF AllInv, OwnInv, StepsAgree
  <2>3. PICK p \in Ports : p = running.port
    BY <2>2, RunningTyped
  <2>4. NoReceive(ioq, p)
    <3>1. Handling(p)
      BY <2>1, <2>2, <2>3 DEF Handling
    <3>2. QED
      BY <3>1 DEF AllInv, OwnInv, OneReceiveEach
  <2>5. ~Uses(step')
    BY <2>1 DEF Uses
  <2>6. QED
    BY <2>1, <2>3, <2>4, <2>5, FreshReceive
<1>11. CASE ChargePacket \/ ResolveFails \/ Return \/ UNCHANGED vars
  <2>1. /\ UNCHANGED <<arrivals, endpoint, buffer, attributed, ioq>>
        /\ Uses(step') => Uses(step) /\ running' = running
    BY <1>11, SameAsio
    DEF ChargePacket, ResolveFails, Return, AfterPacket, Uses, ioVars, vars, proxyVars,
        Asio!FinishHandler, Asio!kernelVars, Asio!memoryVars
  <2>2. QED
    BY <2>1, FreshStill
<1>12. QED
  BY <1>1, <1>2, <1>3, <1>4, <1>5, <1>6, <1>7, <1>8, <1>9, <1>10, <1>11
  DEF Next, StartProxy, IoThread, Handler, World

LEMMA InitFresh == ASSUME Init PROVE FreshInv
<1>1. ioq = <<[item |-> "task"]>> /\ step = "none" /\ attributed = {}
  BY DEF Init, Io!Init, Io!Task
<1>2. \A i \in DOMAIN ioq : ioq[i].item = "task"
  BY <1>1
<1>3. QED
  BY <1>1, <1>2 DEF FreshInv, FreshQueue, ReceiveItem, Uses, ChargedToSender

LEMMA FreshAlways == ASSUME PortCount = 1 PROVE Spec => [](AllInv /\ FreshInv)
<1>1. Init => FreshInv
  BY InitFresh
<1>2. AllInv /\ AllInv' /\ FreshInv /\ [Next]_vars => FreshInv'
  BY FreshStep
<1>3. QED
  BY <1>1, <1>2, AllAlways, PTL DEF Spec

(***************************************************************************)
(* With one port a packet is checked against, and charged to, the address  *)
(* that sent it: its own receive is the last that wrote clientEndpoint.    *)
(* It takes a second port to break this (udp_proxy.cpp:24-68).             *)
(***************************************************************************)
THEOREM OnePortChargesSender == ASSUME PortCount = 1 PROVE Spec => []ChargedToSender
<1>1. FreshInv => ChargedToSender
  BY DEF FreshInv
<1>2. QED
  BY <1>1, FreshAlways, PTL

------------------------------------------------------------------------------
(***************************************************************************)
(* Also that a socket's send buffer never fills, and no send waits: each   *)
(* is done while its handler runs, of the bytes that handler was given.    *)
(***************************************************************************)
SendsAtOnce ==
  /\ \A p \in Ports : ~txFull[p] /\ writeOps[p] = <<>>
  /\ PayloadIntact

LEMMA SendsStill ==
  ASSUME SendsAtOnce, UNCHANGED <<txFull, writeOps, wire>> PROVE SendsAtOnce'
BY DEF SendsAtOnce, PayloadIntact

(* A descriptor has no send to complete. *)
LEMMA SendsDescriptor ==
  ASSUME AllInv, SendsAtOnce, NEW p \in Ports, RunDescriptor(p)
  PROVE  SendsAtOnce'
<1>1. Asio!RunDescriptor(p)
  BY SameAsio DEF RunDescriptor
<1>2. Asio!TypeOK /\ FlowTypes
  BY FlowTyped DEF AllInv, Asio!EventInv, Asio!AsioInv
<1>3. PICK n \in 0..Len(writeOps[p]), done \in Seq(Asio!Completion),
           more \in Seq(Asio!QueueItems), packets \in Seq(Asio!Wired), full \in BOOLEAN :
        Asio!DescriptorDoes(p, n, done, more, packets, full)
  BY <1>1, <1>2, AsioAssumed, Asio!DescriptorStep
<1>4. Len(writeOps[p]) = 0
  BY EmptySeq DEF SendsAtOnce
<1>5. n = 0
  BY <1>4
<1>6. Asio!DescriptorDoes(p, 0, done, more, packets, full)
  BY <1>3, <1>5
<1>7. UNCHANGED <<writeOps, wire>>
  BY <1>2, <1>6, NothingLeaves
<1>8. txFull' = txFull
  <2>1. ~full /\ txFull' = [txFull EXCEPT ![p] = @ \/ full]
    BY <1>6 DEF Asio!DescriptorDoes
  <2>2. txFull \in [Ports -> BOOLEAN]
    BY <1>2 DEF Asio!TypeOK
  <2>3. txFull' \in [Ports -> BOOLEAN] /\ \A q \in Ports : txFull'[q] = txFull[q]
    BY <2>1, <2>2
  <2>4. QED
    BY <2>2, <2>3
<1>9. QED
  BY <1>7, <1>8, SendsStill

(* A packet is sent at once, and is made of its handler's datagram. *)
LEMMA SendsForward ==
  ASSUME AllInv, FreshInv, SendsAtOnce, ForwardPacket
  PROVE  SendsAtOnce'
<1>1. /\ step = "send" /\ UNCHANGED txFull
      /\ Asio!AsyncSend(running.port, "sent", running.index, running.bytes)
  BY SameAsio DEF ForwardPacket, Asio!AsyncSend
<1>2. running # None /\ ~running.failed
  BY <1>1 DEF AllInv, OwnInv, StepsAgree
<1>3. /\ running.port \in Ports /\ running.index \in Nat
      /\ running.bytes \in 0..BufferSize
  BY <1>2, RunningTyped
<1>4. PICK op : op = [port |-> running.port, handler |-> "sent",
                      index |-> running.index, bytes |-> running.bytes]
  OBVIOUS
<1>5. op \in Asio!Send
  BY <1>3, <1>4 DEF Asio!Send
<1>6. Asio!SendNow(op)
  <2>1. Asio!SendNow(op) \/ Asio!SendLater(op)
    BY <1>1, <1>4 DEF Asio!AsyncSend
  <2>2. op.port \in Ports
    BY <1>3, <1>4
  <2>3. ~Asio!SendLater(op)
    BY <2>2 DEF SendsAtOnce, Asio!SendLater, Asio!Writable
  <2>4. QED
    BY <2>1, <2>3
<1>7. PICK w \in Asio!Wired : w = Asio!Packet(op)
  BY <1>5, AsioAssumed, Asio!PacketType DEF AllInv, Asio!EventInv, Asio!AsioInv
<1>8. UNCHANGED writeOps /\ (wire' = wire \/ wire' = Append(wire, w))
  BY <1>6, <1>7 DEF Asio!SendNow
<1>9. \A k \in DOMAIN w.cells : w.cells[k] = [port |-> w.port, index |-> w.index]
  <2>1. /\ w.port = running.port /\ w.index = running.index
        /\ w.cells = SubSeq(buffer, 1, running.bytes)
    BY <1>4, <1>7 DEF Asio!Packet
  <2>2. \A k \in 1..running.bytes :
          buffer[k] = [port |-> running.port, index |-> running.index]
    BY <1>1, <1>2 DEF FreshInv, Uses, Fresh
  <2>3. w.cells = [k \in 1..running.bytes |-> buffer[k]]
    BY <1>3, <2>1
  <2>4. QED
    BY <2>1, <2>2, <2>3
<1>10. PICK s \in Seq(Asio!Wired) : s = wire
  BY FlowTyped DEF FlowTypes
<1>11. PayloadIntact'
  <2>1. CASE wire' = wire
    BY <2>1 DEF SendsAtOnce, PayloadIntact
  <2>2. CASE wire' = Append(wire, w)
    <3>1. /\ Len(s) \in Nat /\ DOMAIN s = 1..Len(s)
          /\ Append(s, w) \in Seq(Asio!Wired) /\ Len(Append(s, w)) = Len(s) + 1
          /\ \A i \in 1..Len(s) : Append(s, w)[i] = s[i]
          /\ Append(s, w)[Len(s) + 1] = w
      BY AppendProperties, LenProperties
    <3>2. DOMAIN wire' = 1..(Len(s) + 1)
      BY <1>10, <2>2, <3>1, LenProperties
    <3>3. \A i \in DOMAIN wire' : (i \in DOMAIN wire /\ wire'[i] = wire[i]) \/ wire'[i] = w
      BY <1>10, <2>2, <3>1, <3>2
    <3>4. QED
      BY <1>9, <3>3 DEF SendsAtOnce, PayloadIntact
  <2>3. QED
    BY <1>8, <2>1, <2>2
<1>12. QED
  BY <1>1, <1>8, <1>11 DEF SendsAtOnce

LEMMA SendsStep ==
  ASSUME AllInv, FreshInv, SendsAtOnce, MaxBlocks = 0, [Next]_vars
  PROVE  SendsAtOnce'
<1>1. CASE OpenPort \/ StartIoThread \/ Joined
  <2>1. UNCHANGED <<txFull, writeOps, wire>>
    BY <1>1, SameAsio
    DEF OpenPort, StartIoThread, Joined, ioVars, Asio!OpenSocket, Asio!StartRun,
        Asio!kernelVars, Asio!reactorVars
  <2>2. QED
    BY <2>1, SendsStill
<1>2. CASE ArmPort \/ Rearm
  <2>1. UNCHANGED <<txFull, writeOps, wire>>
    BY <1>2, SameAsio DEF ArmPort, Rearm, Asio!AsyncReceive
  <2>2. QED
    BY <2>1, SendsStill
<1>3. CASE ClientSends \/ RemoteAnswers \/ Tick
  <2>1. UNCHANGED <<txFull, writeOps, wire>>
    BY <1>3, SameAsio
    DEF ClientSends, RemoteAnswers, Tick, ioVars, Asio!Deliver, Asio!reactorVars
  <2>2. QED
    BY <2>1, SendsStill
<1>4. CASE SendBufferFills \/ \E p \in Ports : SendBufferDrains(p)
  <2>1. blocks \in Nat
    BY DEF AllInv, Asio!EventInv, Asio!AsioInv, Asio!TypeOK
  <2>2. ~(blocks < MaxBlocks)
    BY <2>1
  <2>3. ~SendBufferFills
    BY <2>2, SameAsio DEF SendBufferFills, Asio!Block
  <2>4. \A p \in Ports : ~SendBufferDrains(p)
    BY SameAsio DEF SendBufferDrains, Asio!Drain, SendsAtOnce
  <2>5. QED
    BY <1>4, <2>3, <2>4
<1>5. CASE RunTask \/ RunCompletion
  <2>1. UNCHANGED <<txFull, writeOps, wire>>
    BY <1>5, SameAsio
    DEF RunTask, RunCompletion, Asio!RunTask, Asio!RunCompletion,
        Asio!kernelVars, Asio!reactorVars
  <2>2. QED
    BY <2>1, SendsStill
<1>6. CASE \E p \in Ports : RunDescriptor(p)
  BY <1>6, SendsDescriptor
<1>7. CASE ForwardPacket
  BY <1>7, SendsForward
<1>8. CASE AdmitPacket \/ RefusePacket \/ ChargePacket \/ ResolveFails \/ Return \/ UNCHANGED vars
  <2>1. UNCHANGED <<txFull, writeOps, wire>>
    BY <1>8, SameAsio
    DEF AdmitPacket, RefusePacket, ChargePacket, ResolveFails, Return, Attribute, ioVars,
        vars, Asio!FinishHandler, Asio!kernelVars, Asio!reactorVars
  <2>2. QED
    BY <2>1, SendsStill
<1>9. QED
  BY <1>1, <1>2, <1>3, <1>4, <1>5, <1>6, <1>7, <1>8
  DEF Next, StartProxy, IoThread, Handler, World

LEMMA InitSends == ASSUME Init PROVE SendsAtOnce
<1>1. /\ txFull = [p \in Ports |-> FALSE] /\ writeOps = [p \in Ports |-> <<>>]
      /\ wire = <<>>
  BY DEF Init, Io!Init
<1>2. DOMAIN wire = {}
  BY <1>1
<1>3. QED
  BY <1>1, <1>2 DEF SendsAtOnce, PayloadIntact

(***************************************************************************)
(* With one port, and room in the socket for every packet, what goes to    *)
(* the remote server on behalf of a datagram are bytes of that datagram:   *)
(* sendto is called before the next receive (udp_proxy.cpp:24-83).  A      *)
(* second port, or a send that waits, is enough to break this.             *)
(***************************************************************************)
THEOREM OnePortPayload ==
  ASSUME PortCount = 1, MaxBlocks = 0 PROVE Spec => []PayloadIntact
<1>1. Init => SendsAtOnce
  BY InitSends
<1>2. AllInv /\ FreshInv /\ SendsAtOnce /\ [Next]_vars => SendsAtOnce'
  BY SendsStep
<1>3. SendsAtOnce => PayloadIntact
  BY DEF SendsAtOnce
<1>4. QED
  BY <1>1, <1>2, <1>3, FreshAlways, PTL DEF Spec
==============================================================================
