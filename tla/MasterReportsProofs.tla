------------------------- MODULE MasterReportsProofs -------------------------
(***************************************************************************)
(* Proofs about MasterReports and the packet builders of A2SPackets, for   *)
(* any number of servers, any configuration and buffers of any size.       *)
(***************************************************************************)
EXTENDS MasterReports, SequenceTheorems, WellFoundedInduction, TLAPS

(***************************************************************************)
(* The recursive function Decimal.  The induction it needs is had from the *)
(* least element of a set of counterexamples.                              *)
(***************************************************************************)
LEMMA LeastNatural ==
  ASSUME NEW S, S \subseteq Nat, S # {}
  PROVE  \E x \in S : \A y \in S : x <= y
<1> DEFINE R == OpToRel(<, Nat)
<1>1. IsWellFoundedOn(R, Nat)
  BY NatLessThanWellFounded
<1>2. \A x, y \in S : y < x => <<y, x>> \in R
  BY DEF OpToRel
<1> HIDE DEF R
<1>3. PICK x \in S : \A y \in S : ~(<<y, x>> \in R)
  BY <1>1, WFMin
<1>4. \A y \in S : ~(y < x)
  BY <1>2, <1>3
<1>5. QED
  BY <1>4

(* What Decimal does with a number, and functions that do it up to n. *)
DigitsBy(f, n) ==
  IF n < 10 THEN <<48 + n>> ELSE Append(f[n \div 10], 48 + (n % 10))

Upto(n) == {g \in [0..n -> Text] : \A k \in 0..n : g[k] = DigitsBy(g, k)}

LEMMA DigitOff ==
  ASSUME NEW n \in Nat, n >= 10
  PROVE  n \div 10 \in Nat /\ n \div 10 < n /\ n % 10 \in 0..9
  BY SMT

LEMMA DigitsByType ==
  ASSUME NEW f, NEW n \in Nat, n >= 10 => f[n \div 10] \in Text
  PROVE  DigitsBy(f, n) \in Text
<1>1. CASE n < 10
  <2>1. 48 + n \in 0..255
    BY <1>1
  <2>2. QED
    BY <1>1, <2>1 DEF DigitsBy, Text
<1>2. CASE n >= 10
  <2>1. 48 + (n % 10) \in 0..255
    BY <1>2, DigitOff
  <2>2. f[n \div 10] \in Seq(0..255)
    BY <1>2 DEF Text
  <2>3. Append(f[n \div 10], 48 + (n % 10)) \in Seq(0..255)
    BY <2>1, <2>2, AppendProperties
  <2>4. DigitsBy(f, n) = Append(f[n \div 10], 48 + (n % 10))
    BY <1>2 DEF DigitsBy
  <2>5. QED
    BY <2>3, <2>4 DEF Text
<1>3. QED
  BY <1>1, <1>2

LEMMA DigitsByAgree ==
  ASSUME NEW f, NEW g, NEW n \in Nat, n >= 10 => f[n \div 10] = g[n \div 10]
  PROVE  DigitsBy(f, n) = DigitsBy(g, n)
<1>1. CASE n < 10
  BY <1>1 DEF DigitsBy
<1>2. CASE n >= 10
  BY <1>2 DEF DigitsBy
<1>3. QED
  BY <1>1, <1>2

LEMMA UptoAgree ==
  ASSUME NEW m \in Nat, NEW n \in Nat, NEW g \in Upto(m), NEW h \in Upto(n)
  PROVE  \A k \in Nat : k <= m /\ k <= n => g[k] = h[k]
<1> DEFINE S == {k \in Nat : k <= m /\ k <= n /\ g[k] # h[k]}
<1>1. SUFFICES ASSUME S # {} PROVE FALSE
  OBVIOUS
<1>2. PICK x \in S : \A y \in S : x <= y
  BY <1>1, LeastNatural
<1>3. x >= 10 => g[x \div 10] = h[x \div 10]
  BY <1>2, DigitOff
<1>4. DigitsBy(g, x) = DigitsBy(h, x)
  BY <1>3, DigitsByAgree
<1>5. g[x] = DigitsBy(g, x) /\ h[x] = DigitsBy(h, x)
  BY DEF Upto
<1>6. QED
  BY <1>4, <1>5

LEMMA UptoExists == \A n \in Nat : Upto(n) # {}
<1> DEFINE S == {n \in Nat : Upto(n) = {}}
<1>1. SUFFICES ASSUME S # {} PROVE FALSE
  OBVIOUS
<1>2. PICK n \in S : \A y \in S : n <= y
  BY <1>1, LeastNatural
<1>3. \E g : \A k \in 0..(n - 1) : g[k] \in Text /\ g[k] = DigitsBy(g, k)
  <2>1. CASE n = 0
    BY <2>1
  <2>2. CASE n # 0
    <3>1. PICK g : g \in Upto(n - 1)
      BY <1>2, <2>2
    <3>2. QED
      BY <3>1, <2>2 DEF Upto
  <2>3. QED
    BY <2>1, <2>2
<1>4. PICK g : \A k \in 0..(n - 1) : g[k] \in Text /\ g[k] = DigitsBy(g, k)
  BY <1>3
<1> DEFINE h == [k \in 0..n |-> IF k < n THEN g[k] ELSE DigitsBy(g, n)]
<1>5. \A k \in 0..(n - 1) : h[k] = g[k]
  OBVIOUS
<1>6. h[n] = DigitsBy(g, n)
  OBVIOUS
<1>7. \A k \in 0..n : k >= 10 => k \div 10 \in 0..(n - 1)
  BY DigitOff
<1> HIDE DEF h
<1>8. ASSUME NEW k \in 0..n PROVE h[k] = DigitsBy(h, k)
  <2>1. DigitsBy(h, k) = DigitsBy(g, k)
    BY <1>5, <1>7, DigitsByAgree
  <2>2. QED
    BY <1>4, <1>5, <1>6, <2>1
<1>9. ASSUME NEW k \in 0..n PROVE h[k] \in Text
  <2>1. CASE k < n
    BY <1>4, <1>5, <2>1
  <2>2. CASE k = n
    BY <1>4, <1>6, <1>7, <2>2, DigitsByType
  <2>3. QED
    BY <2>1, <2>2
<1>10. h \in [0..n -> Text]
  BY <1>9 DEF h
<1>11. QED
  BY <1>8, <1>10 DEF Upto

(***************************************************************************)
(* Decimal is what its definition says, and gives texts: std::to_string    *)
(* on numbers that are not negative.                                       *)
(***************************************************************************)
LEMMA DecimalDefined ==
  /\ Decimal \in [Nat -> Text]
  /\ \A n \in Nat : Decimal[n] = DigitsBy(Decimal, n)
<1> DEFINE a(n) == CHOOSE g \in Upto(n) : TRUE
           D == [n \in Nat |-> a(n)[n]]
<1>1. \A n \in Nat : a(n) \in Upto(n)
  BY UptoExists
<1> HIDE DEF a
<1>2. ASSUME NEW n \in Nat PROVE D[n] = DigitsBy(D, n)
  <2>1. a(n)[n] = DigitsBy(a(n), n)
    BY <1>1 DEF Upto
  <2>2. n >= 10 => a(n)[n \div 10] = D[n \div 10]
    <3>1. SUFFICES ASSUME n >= 10 PROVE a(n)[n \div 10] = D[n \div 10]
      OBVIOUS
    <3>2. PICK k \in Nat : k = n \div 10 /\ k < n
      BY <3>1, DigitOff
    <3>3. a(n)[k] = a(k)[k]
      BY <1>1, <3>2, UptoAgree
    <3>4. QED
      BY <3>2, <3>3
  <2>3. DigitsBy(a(n), n) = DigitsBy(D, n)
    BY <2>2, DigitsByAgree
  <2>4. QED
    BY <2>1, <2>3
<1> HIDE DEF D
<1>3. D = [n \in Nat |-> DigitsBy(D, n)]
  <2>1. D = [n \in Nat |-> D[n]]
    BY DEF D
  <2>2. QED
    BY <1>2, <2>1
<1>4. Decimal = [n \in Nat |-> DigitsBy(Decimal, n)]
  BY <1>3 DEF Decimal, DigitsBy
<1>5. \A n \in Nat : Decimal[n] = DigitsBy(Decimal, n)
  BY <1>4
<1>6. \A n \in Nat : Decimal[n] \in Text
  <2> DEFINE S == {n \in Nat : Decimal[n] \notin Text}
  <2>1. SUFFICES ASSUME S # {} PROVE FALSE
    OBVIOUS
  <2>2. PICK n \in S : \A y \in S : n <= y
    BY <2>1, LeastNatural
  <2>3. n >= 10 => Decimal[n \div 10] \in Text
    BY <2>2, DigitOff
  <2>4. QED
    BY <1>5, <2>3, DigitsByType
<1>7. Decimal \in [Nat -> Text]
  BY <1>4, <1>6
<1>8. QED
  BY <1>5, <1>7

(***************************************************************************)
(* Texts put one after the other are a text.                               *)
(***************************************************************************)
FlattenBy(seqs, f, i) == IF i = 1 THEN seqs[i] ELSE f[i - 1] \o seqs[i]

FlattenedUpto(seqs, n) ==
  {g \in [1..n -> Text] : \A k \in 1..n : g[k] = FlattenBy(seqs, g, k)}

LEMMA TextConcat == ASSUME NEW s \in Text, NEW t \in Text PROVE s \o t \in Text
  BY ConcatProperties DEF Text

LEMMA FlattenedUptoExists ==
  ASSUME NEW seqs \in Seq(Text)
  PROVE  \A n \in 1..Len(seqs) : FlattenedUpto(seqs, n) # {}
<1> DEFINE S == {n \in 1..Len(seqs) : FlattenedUpto(seqs, n) = {}}
<1>1. SUFFICES ASSUME S # {} PROVE FALSE
  OBVIOUS
<1>2. S \subseteq Nat
  OBVIOUS
<1>3. PICK n \in S : \A y \in S : n <= y
  BY <1>1, <1>2, LeastNatural
<1>4. seqs[n] \in Text
  BY ElementOfSeq
<1>5. CASE n = 1
  <2>1. [k \in 1..1 |-> seqs[1]] \in FlattenedUpto(seqs, 1)
    BY <1>4, <1>5 DEF FlattenedUpto, FlattenBy
  <2>2. QED
    BY <1>5, <2>1
<1>6. CASE n # 1
  <2>1. /\ n \in Nat /\ n - 1 \in 1..Len(seqs) /\ n - 1 < n
        /\ n \in 1..n /\ ~(n < n) /\ n - 1 \in 1..(n - 1)
    BY <1>6, LenProperties
  <2>2. PICK g : g \in FlattenedUpto(seqs, n - 1)
    BY <1>3, <2>1
  <2> DEFINE h == [k \in 1..n |-> IF k < n THEN g[k] ELSE g[n - 1] \o seqs[n]]
  <2>3. \A k \in 1..(n - 1) : h[k] = g[k]
    BY <2>1
  <2>4. h[n] = g[n - 1] \o seqs[n]
    BY <2>1
  <2>5. g \in [1..(n - 1) -> Text] /\ g[n - 1] \in Text
    BY <2>1, <2>2 DEF FlattenedUpto
  <2>6. g[n - 1] \o seqs[n] \in Text
    BY <1>4, <2>5, TextConcat
  <2>7. h \in [1..n -> Text]
    BY <2>1, <2>5, <2>6
  <2> HIDE DEF h
  <2>8. ASSUME NEW k \in 1..n PROVE h[k] = FlattenBy(seqs, h, k)
    <3>1. CASE k < n
      <4>1. k \in 1..(n - 1) /\ (k # 1 => k - 1 \in 1..(n - 1))
        BY <2>1, <3>1
      <4>2. g[k] = FlattenBy(seqs, g, k)
        BY <2>2, <4>1 DEF FlattenedUpto
      <4>3. FlattenBy(seqs, g, k) = FlattenBy(seqs, h, k)
        BY <2>3, <4>1 DEF FlattenBy
      <4>4. QED
        BY <2>3, <4>1, <4>2, <4>3
    <3>2. CASE k = n
      <4>1. h[n] = h[n - 1] \o seqs[n]
        BY <2>1, <2>3, <2>4
      <4>2. QED
        BY <1>6, <3>2, <4>1 DEF FlattenBy
    <3>3. QED
      BY <2>1, <3>1, <3>2
  <2>9. QED
    BY <2>7, <2>8 DEF FlattenedUpto
<1>7. QED
  BY <1>5, <1>6

LEMMA FlattenSeqType ==
  ASSUME NEW seqs \in Seq(Text) PROVE FlattenSeq(seqs) \in Text
<1> DEFINE N == Len(seqs)
           flatten == CHOOSE f : f = [i \in 1..N |-> IF i = 1 THEN seqs[i] ELSE f[i - 1] \o seqs[i]]
<1>1. CASE N = 0
  <2>1. seqs = <<>>
    BY <1>1, EmptySeq
  <2>2. QED
    BY <1>1, <2>1, EmptySeq DEF FlattenSeq, Text
<1>2. CASE N # 0
  <2>1. N \in 1..N
    BY <1>2, LenProperties
  <2>2. PICK g : g \in FlattenedUpto(seqs, N)
    BY <2>1, FlattenedUptoExists
  <2>3. g = [i \in 1..N |-> IF i = 1 THEN seqs[i] ELSE g[i - 1] \o seqs[i]]
    BY <2>2 DEF FlattenedUpto, FlattenBy
  <2>4. flatten = [i \in 1..N |-> IF i = 1 THEN seqs[i] ELSE flatten[i - 1] \o seqs[i]]
    BY <2>3
  <2>5. FlattenSeq(seqs) = flatten[N]
    BY <1>2 DEF FlattenSeq
  <2> HIDE DEF flatten
  <2> DEFINE S == {n \in 1..N : flatten[n] \notin Text}
  <2>6. S = {}
    <3>1. SUFFICES ASSUME S # {} PROVE FALSE
      OBVIOUS
    <3>2. S \subseteq Nat
      OBVIOUS
    <3>3. PICK n \in S : \A y \in S : n <= y
      BY <3>1, <3>2, LeastNatural
    <3>4. seqs[n] \in Text
      BY ElementOfSeq
    <3>5. n # 1 => flatten[n - 1] \in Text
      <4>1. SUFFICES ASSUME n # 1 PROVE flatten[n - 1] \in Text
        OBVIOUS
      <4>2. n - 1 \in 1..N /\ n - 1 < n
        BY <4>1, LenProperties
      <4>3. QED
        BY <3>3, <4>2
    <3>6. flatten[n] = IF n = 1 THEN seqs[n] ELSE flatten[n - 1] \o seqs[n]
      BY <2>4
    <3>7. n # 1 => flatten[n - 1] \o seqs[n] \in Text
      BY <3>4, <3>5, TextConcat
    <3>8. QED
      BY <3>4, <3>6, <3>7
  <2>7. QED
    BY <2>1, <2>5, <2>6
<1>3. QED
  BY <1>1, <1>2

(***************************************************************************)
(* What a builder writes, and says is to be sent, keeps to its buffer.     *)
(***************************************************************************)
LEMMA NothingKeeps == ASSUME NEW size \in Nat PROVE KeepsTo(Nothing, size)
<1>1. DOMAIN <<>> = {} /\ 0..(0 - 1) = {}
  OBVIOUS
<1>2. QED
  BY <1>1 DEF KeepsTo, Nothing

LEMMA CopyDomain ==
  ASSUME NEW at, NEW bytes, NEW n
  PROVE  DOMAIN Copy(at, bytes, n) = at..(at + n - 1)
BY DEF Copy

LEMMA AnswerKeeps ==
  ASSUME NEW size \in Nat, NEW header \in Text, Len(header) >= 1, NEW payload \in Text
  PROVE  KeepsTo(Answer(size, header, payload), size)
<1>1. PICK h \in Nat : h = Len(header) - 1
  <2>1. Len(header) \in Nat
    BY LenProperties DEF Text
  <2>2. Len(header) - 1 \in Nat
    BY <2>1
  <2>3. QED
    BY <2>2
<1>2. PICK n \in Nat : n = Len(payload)
  BY LenProperties DEF Text
<1>3. CASE size < SmallestBuffer \/ h + n > size
  BY <1>1, <1>2, <1>3, NothingKeeps DEF Answer
<1>4. CASE ~(size < SmallestBuffer \/ h + n > size)
  <2>1. PICK both : both = Both(Copy(0, header, h), Copy(h, payload, n))
    OBVIOUS
  <2>2. DOMAIN both = 0..(0 + h - 1) \cup h..(h + n - 1)
    <3>1. PICK first : first = Copy(0, header, h)
      OBVIOUS
    <3>2. PICK second : second = Copy(h, payload, n)
      OBVIOUS
    <3>3. DOMAIN first = 0..(0 + h - 1) /\ DOMAIN second = h..(h + n - 1)
      BY <3>1, <3>2, CopyDomain
    <3>4. DOMAIN both = DOMAIN first \cup DOMAIN second
      BY <2>1, <3>1, <3>2 DEF Both
    <3>5. QED
      BY <3>3, <3>4
  <2> DEFINE packet == [size |-> h + n, written |-> both]
  <2>3. Answer(size, header, payload) = packet
    BY <1>1, <1>2, <1>4, <2>1 DEF Answer
  <2>4. DOMAIN packet.written \subseteq 0..(size - 1)
    BY <1>4, <2>2
  <2>5. 0..(packet.size - 1) \subseteq DOMAIN packet.written
    BY <2>2
  <2>6. QED
    BY <2>3, <2>4, <2>5 DEF KeepsTo
<1>5. QED
  BY <1>3, <1>4

LEMMA MasterServerPacketKeeps ==
  ASSUME NEW size \in Nat, NEW ip \in Text, NEW port \in Nat
  PROVE  KeepsTo(CreateMasterServerPacket(size, ip, port), size)
<1>1. PICK payload \in Text : payload = ip \o <<58>> \o Decimal[port]
  <2>1. <<58>> \in Text
    BY DEF Text
  <2>2. ip \o <<58>> \o Decimal[port] \in Text
    BY <2>1, DecimalDefined, TextConcat
  <2>3. QED
    BY <2>2
<1>2. PICK n \in Nat : n = Len(payload)
  BY LenProperties DEF Text
<1>3. CASE size < SmallestBuffer \/ n > size
  BY <1>1, <1>2, <1>3, NothingKeeps DEF CreateMasterServerPacket
<1>4. CASE ~(size < SmallestBuffer \/ n > size)
  <2>1. PICK packet : packet = [size |-> n, written |-> Copy(0, payload, n)]
    OBVIOUS
  <2>2. CreateMasterServerPacket(size, ip, port) = packet
    BY <1>1, <1>2, <1>4, <2>1 DEF CreateMasterServerPacket
  <2>3. packet.size = n /\ DOMAIN packet.written = 0..(0 + n - 1)
    BY <2>1, CopyDomain
  <2>4. /\ DOMAIN packet.written \subseteq 0..(size - 1)
        /\ 0..(packet.size - 1) \subseteq DOMAIN packet.written
    BY <1>4, <2>3
  <2>5. QED
    BY <2>2, <2>4 DEF KeepsTo
<1>5. QED
  BY <1>3, <1>4

LEMMA A2SInfoPacketKeeps ==
  ASSUME NEW size \in Nat, NEW name \in Text, NEW map \in Text,
         NEW players \in Nat, NEW maxPlayers \in Nat, NEW version \in Nat
  PROVE  KeepsTo(CreateA2SInfoPacket(size, name, map, players, maxPlayers, version), size)
<1>1. name \o map \o Decimal[players] \o Decimal[maxPlayers] \o Decimal[version] \in Text
  BY DecimalDefined, TextConcat
<1>2. <<255, 255, 255, 255, 73>> \in Text /\ Len(<<255, 255, 255, 255, 73>>) >= 1
  BY DEF Text
<1>3. QED
  BY <1>1, <1>2, AnswerKeeps DEF CreateA2SInfoPacket

LEMMA A2SPlayerPacketKeeps ==
  ASSUME NEW size \in Nat, NEW players \in Seq(Text)
  PROVE  KeepsTo(CreateA2SPlayerPacket(size, players), size)
<1>1. <<255, 255, 255, 255, 80>> \in Text /\ Len(<<255, 255, 255, 255, 80>>) >= 1
  BY DEF Text
<1>2. QED
  BY <1>1, FlattenSeqType, AnswerKeeps DEF CreateA2SPlayerPacket

(***************************************************************************)
(* Every builder keeps to its buffer, whatever the configuration says.     *)
(***************************************************************************)
LEMMA KeepToBufferIfTyped == ASSUME config \in Configs PROVE BuildersKeepToBuffer
<1>1. /\ config.ip \in Text /\ config.name \in Text /\ config.map \in Text
      /\ config.players \in Nat /\ config.maxPlayers \in Nat
      /\ config.version \in Nat /\ config.playersList \in Seq(Text)
  <2>1. config \in ConfigType
    BY MasterReportsAssumption
  <2>2. QED
    BY <2>1 DEF ConfigType
<1>2. \A s \in Servers : Port[s] \in Nat
  BY MasterReportsAssumption
<1>3. BufferSizes \subseteq Nat
  BY MasterReportsAssumption
<1>4. QED
  BY <1>1, <1>2, <1>3, MasterServerPacketKeeps, A2SInfoPacketKeeps,
     A2SPlayerPacketKeeps DEF BuildersKeepToBuffer

------------------------------------------------------------------------------
(***************************************************************************)
(* A send: the packet leaves at once, or waits with the others of s.       *)
(***************************************************************************)
LEMMA SendStep ==
  ASSUME TypeOK, NEW s \in Senders, Send(s)
  PROVE  /\ posted' \in Nat
         /\ waiting' \in [Senders -> Nat]
         /\ sent' \subseteq {s}
         /\ \A t \in Senders : waiting'[t] # waiting[t] => t = s
         /\ waiting[s] > 0 => waiting'[s] > 0 /\ sent' = {}
<1>1. waiting \in [Senders -> Nat] /\ posted \in Nat
  BY DEF TypeOK
<1>2. CASE ~full[s] /\ waiting[s] = 0
  BY <1>1, <1>2 DEF Send
<1>3. CASE ~(~full[s] /\ waiting[s] = 0)
  BY <1>1, <1>3 DEF Send
<1>4. QED
  BY <1>2, <1>3

(* A flush of s: some that wait leave, and others of s go on waiting. *)
LEMMA FlushStep ==
  ASSUME TypeOK, NEW s \in Senders, Flush(s)
  PROVE  /\ posted' \in Nat /\ fills' \in Nat
         /\ full' \in [Senders -> BOOLEAN]
         /\ waiting' \in [Senders -> Nat]
         /\ sent' \subseteq {s}
         /\ waiting[s] > 0
         /\ \A t \in Senders : waiting'[t] # waiting[t] => t = s
<1>1. /\ waiting \in [Senders -> Nat] /\ posted \in Nat
      /\ fills \in Nat /\ full \in [Senders -> BOOLEAN]
  BY DEF TypeOK
<1>2. PICK n \in 1..waiting[s] :
        /\ full' = [full EXCEPT ![s] = ~(n = waiting[s])]
        /\ fills' = IF n = waiting[s] THEN fills ELSE fills + 1
        /\ waiting' = [waiting EXCEPT ![s] = @ - n]
        /\ posted' = posted + n
  BY DEF Flush
<1>3. waiting[s] \in Nat /\ waiting[s] > 0 /\ waiting[s] - n \in Nat
  BY <1>1, <1>2
<1>4. /\ waiting' \in [Senders -> Nat]
      /\ \A t \in Senders : waiting'[t] # waiting[t] => t = s
  BY <1>1, <1>2, <1>3
<1>5. full' \in [Senders -> BOOLEAN]
  <2>1. full' = [full EXCEPT ![s] = ~(n = waiting[s])]
    BY <1>2
  <2>2. QED
    BY <1>1, <2>1
<1>6. posted' \in Nat /\ fills' \in Nat
  BY <1>1, <1>2
<1>7. sent' \subseteq {s}
  BY DEF Flush
<1>8. QED
  BY <1>3, <1>4, <1>5, <1>6, <1>7

------------------------------------------------------------------------------
(***************************************************************************)
(* ReportsInv is inductive.                                                *)
(***************************************************************************)
LEMMA InitReports == Init => ReportsInv
<1> SUFFICES ASSUME Init PROVE ReportsInv
  OBVIOUS
<1>1. TypeOK
  BY DEF Init, TypeOK
<1>2. OnlyBoundReport
  BY DEF Init, OnlyBoundReport, Senders
<1>3. QED
  BY <1>1, <1>2 DEF ReportsInv, Init

LEMMA CreateKeeps ==
  ASSUME ReportsInv, NEW s \in Senders,
         \/ s \in Servers /\ CreateServer(s)
         \/ s \in SteamClients /\ CreateSteam(s)
  PROVE  ReportsInv'
<1>1. /\ life' \in [Senders -> {"none", "open", "closed", "destroyed"}]
      /\ bound' \in [Servers -> BOOLEAN]
      /\ \A t \in Senders : life[t] = "open" => life'[t] = "open"
      /\ \A t \in Servers : bound'[t] # bound[t] => t = s /\ bound'[t] = (t \notin Modules1)
      /\ sent' = {} /\ ~undefined
      /\ UNCHANGED <<config, thread, full, waiting, posted, pool, undefined, fills>>
  <2>1. CASE s \in Servers /\ CreateServer(s)
    <3>1. life \in [Senders -> {"none", "open", "closed", "destroyed"}]
          /\ bound \in [Servers -> BOOLEAN] /\ life[s] = "none"
      BY <2>1 DEF CreateServer, ReportsInv, TypeOK
    <3>2. CASE BindServer(s)
      BY <2>1, <3>1, <3>2 DEF CreateServer, BindServer
    <3>3. CASE /\ s \notin Modules1
               /\ life' = [life EXCEPT ![s] = "closed"]
               /\ UNCHANGED bound
      BY <2>1, <3>1, <3>3 DEF CreateServer
    <3>4. QED
      BY <2>1, <3>2, <3>3 DEF CreateServer
  <2>2. CASE s \in SteamClients /\ CreateSteam(s)
    BY <2>2 DEF CreateSteam, ReportsInv, TypeOK
  <2>3. QED
    BY <2>1, <2>2
<1>2. TypeOK'
  BY <1>1 DEF ReportsInv, TypeOK
<1>3. OnlyBoundReport'
  BY <1>1 DEF ReportsInv, OnlyBoundReport
<1>4. QED
  BY <1>1, <1>2, <1>3 DEF ReportsInv

LEMMA ThreadKeeps ==
  ASSUME ReportsInv, NEW s \in Servers,
         ListenForConnections(s) \/ BeginReport(s) \/ Resolve(s) \/ ResolveFails(s)
  PROVE  ReportsInv'
<1>1. /\ thread' \in [Servers -> {"none", "idle", "resolving", "sending"}]
      /\ \A t \in Servers : thread'[t] # "none" => thread[t] # "none" \/ bound[t]
      /\ sent' = {}
      /\ UNCHANGED <<config, life, bound, full, waiting, posted, pool, undefined, fills>>
  <2>1. thread \in [Servers -> {"none", "idle", "resolving", "sending"}]
    BY DEF ReportsInv, TypeOK
  <2>2. CASE ListenForConnections(s)
    BY <2>1, <2>2 DEF ListenForConnections
  <2>3. CASE BeginReport(s)
    BY <2>1, <2>3 DEF BeginReport
  <2>4. CASE Resolve(s)
    BY <2>1, <2>4 DEF Resolve
  <2>5. CASE ResolveFails(s)
    BY <2>1, <2>5 DEF ResolveFails, Sleep
  <2>6. QED
    BY <2>2, <2>3, <2>4, <2>5
<1>2. TypeOK'
  BY <1>1 DEF ReportsInv, TypeOK
<1>3. OnlyBoundReport'
  BY <1>1 DEF ReportsInv, OnlyBoundReport
<1>4. QED
  BY <1>1, <1>2, <1>3 DEF ReportsInv

(* A thread can only err at a server that listened, which a bound one has. *)
LEMMA UseKeeps ==
  ASSUME ReportsInv, NEW s \in Servers, UseDestroyed(s)
  PROVE  ReportsInv'
<1>1. /\ bound[s] /\ life[s] = "destroyed"
      /\ undefined' = TRUE /\ sent' = {}
      /\ UNCHANGED <<config, life, bound, thread, full, waiting, posted, pool, fills>>
  BY DEF UseDestroyed, ReportsInv, OnlyBoundReport
<1>2. TypeOK'
  BY <1>1 DEF ReportsInv, TypeOK
<1>3. OnlyBoundReport'
  BY <1>1 DEF ReportsInv, OnlyBoundReport
<1>4. QED
  BY <1>1, <1>2, <1>3 DEF ReportsInv

(* What the senders have in common. *)
Sends(s) ==
  /\ ~undefined
  /\ life[s] = "open"
  /\ Send(s)
  /\ s \in Servers => thread[s] # "none"
  /\ \A t \in Servers : thread'[t] # "none" <=> thread[t] # "none"
  /\ thread' \in [Servers -> {"none", "idle", "resolving", "sending"}]
  /\ UNCHANGED <<config, life, bound, full, pool, undefined, fills>>

LEMMA SenderSends ==
  ASSUME TypeOK, NEW s \in Senders,
         \/ s \in Servers /\ SendMasterServerInfo(s)
         \/ s \in SteamClients /\ SendSteamPacket(s)
  PROVE  Sends(s)
<1>1. thread \in [Servers -> {"none", "idle", "resolving", "sending"}]
  BY DEF TypeOK
<1>2. CASE s \in Servers /\ SendMasterServerInfo(s)
  BY <1>1, <1>2 DEF SendMasterServerInfo, Sleep, Sends
<1>3. CASE s \in SteamClients /\ SendSteamPacket(s)
  <2>1. s \notin Servers
    BY <1>3, MasterReportsAssumption
  <2>2. QED
    BY <1>1, <1>3, <2>1 DEF SendSteamPacket, Sends
<1>4. QED
  BY <1>2, <1>3

LEMMA SendsKeeps ==
  ASSUME ReportsInv, NEW s \in Senders, Sends(s)
  PROVE  ReportsInv'
<1>1. TypeOK
  BY DEF ReportsInv
<1>2. /\ life[s] = "open" /\ ~undefined
      /\ s \in Servers => thread[s] # "none"
      /\ \A t \in Servers : thread'[t] # "none" <=> thread[t] # "none"
      /\ thread' \in [Servers -> {"none", "idle", "resolving", "sending"}]
      /\ UNCHANGED <<config, life, bound, full, pool, undefined, fills>>
  BY DEF Sends
<1>3. /\ posted' \in Nat
      /\ waiting' \in [Senders -> Nat]
      /\ sent' \subseteq {s}
      /\ \A t \in Senders : waiting'[t] # waiting[t] => t = s
  BY <1>1, SendStep DEF Sends
<1>4. TypeOK'
  BY <1>1, <1>2, <1>3 DEF TypeOK
<1>5. OnlyBoundReport'
  BY <1>2, <1>3 DEF ReportsInv, OnlyBoundReport, Senders
<1>6. QED
  BY <1>2, <1>3, <1>4, <1>5 DEF ReportsInv

LEMMA DestroyKeeps ==
  ASSUME ReportsInv, NEW s \in Senders, Destroy(s)
  PROVE  ReportsInv'
<1>1. /\ life \in [Senders -> {"none", "open", "closed", "destroyed"}]
      /\ waiting \in [Senders -> Nat] /\ posted \in Nat
  BY DEF ReportsInv, TypeOK
<1>2. /\ life' = [life EXCEPT ![s] = "destroyed"]
      /\ waiting' = [waiting EXCEPT ![s] = 0]
      /\ posted' = posted + waiting[s]
      /\ sent' = {} /\ ~undefined
      /\ UNCHANGED <<config, bound, thread, full, pool, undefined, fills>>
  BY DEF Destroy, Abort
<1>3. /\ life' \in [Senders -> {"none", "open", "closed", "destroyed"}]
      /\ waiting' \in [Senders -> Nat] /\ posted' \in Nat
      /\ \A t \in Senders : waiting'[t] > 0 =>
           t # s /\ waiting[t] > 0 /\ life'[t] = life[t]
  BY <1>1, <1>2
<1>4. TypeOK'
  BY <1>2, <1>3 DEF ReportsInv, TypeOK
<1>5. OnlyBoundReport'
  BY <1>2, <1>3 DEF ReportsInv, OnlyBoundReport, Senders
<1>6. QED
  BY <1>2, <1>3, <1>4, <1>5 DEF ReportsInv

LEMMA FlushKeeps ==
  ASSUME ReportsInv, NEW s \in Senders, Flush(s)
  PROVE  ReportsInv'
<1>1. TypeOK
  BY DEF ReportsInv
<1>2. /\ posted' \in Nat /\ fills' \in Nat
      /\ full' \in [Senders -> BOOLEAN]
      /\ waiting' \in [Senders -> Nat]
      /\ sent' \subseteq {s}
      /\ waiting[s] > 0
      /\ \A t \in Senders : waiting'[t] # waiting[t] => t = s
  BY <1>1, FlushStep
<1>3. ~undefined /\ UNCHANGED <<config, life, bound, thread, pool, undefined>>
  BY DEF Flush
<1>4. TypeOK'
  BY <1>1, <1>2, <1>3 DEF TypeOK
<1>5. OnlyBoundReport'
  BY <1>2, <1>3 DEF ReportsInv, OnlyBoundReport, Senders
<1>6. QED
  BY <1>2, <1>3, <1>4, <1>5 DEF ReportsInv

LEMMA ContextKeeps ==
  ASSUME ReportsInv,
         \/ PoolRuns \/ RunCompletion
         \/ \E s \in Senders : Fill(s) \/ Drain(s)
  PROVE  ReportsInv'
<1>1. /\ posted \in Nat /\ fills \in Nat /\ full \in [Senders -> BOOLEAN]
      /\ pool \in {"starting", "running", "stopped"}
  BY DEF ReportsInv, TypeOK
<1>2. /\ posted' \in Nat /\ fills' \in Nat /\ full' \in [Senders -> BOOLEAN]
      /\ pool' \in {"starting", "running", "stopped"}
      /\ sent' = {}
      /\ UNCHANGED <<config, life, bound, thread, waiting, undefined>>
  <2>1. CASE PoolRuns
    BY <1>1, <2>1 DEF PoolRuns
  <2>2. CASE RunCompletion
    BY <1>1, <2>2 DEF RunCompletion
  <2>3. ASSUME NEW s \in Senders, Fill(s)
        PROVE  /\ posted' \in Nat /\ fills' \in Nat /\ full' \in [Senders -> BOOLEAN]
               /\ pool' \in {"starting", "running", "stopped"}
               /\ sent' = {}
               /\ UNCHANGED <<config, life, bound, thread, waiting, undefined>>
    BY <1>1, <2>3 DEF Fill
  <2>4. ASSUME NEW s \in Senders, Drain(s)
        PROVE  /\ posted' \in Nat /\ fills' \in Nat /\ full' \in [Senders -> BOOLEAN]
               /\ pool' \in {"starting", "running", "stopped"}
               /\ sent' = {}
               /\ UNCHANGED <<config, life, bound, thread, waiting, undefined>>
    BY <1>1, <2>4 DEF Drain
  <2>5. QED
    BY <2>1, <2>2, <2>3, <2>4
<1>3. TypeOK'
  BY <1>2 DEF ReportsInv, TypeOK
<1>4. OnlyBoundReport'
  BY <1>2 DEF ReportsInv, OnlyBoundReport
<1>5. QED
  BY <1>2, <1>3, <1>4 DEF ReportsInv

(* The actions by what they do to packets. *)
LEMMA NextCases ==
  ASSUME TypeOK, Next
  PROVE  \/ \E s \in Senders : \/ s \in Servers /\ CreateServer(s)
                               \/ s \in SteamClients /\ CreateSteam(s)
         \/ \E s \in Servers :
              ListenForConnections(s) \/ BeginReport(s) \/ Resolve(s) \/ ResolveFails(s)
         \/ \E s \in Servers : UseDestroyed(s)
         \/ \E s \in Senders : Sends(s)
         \/ \E s \in Senders : Destroy(s)
         \/ \E s \in Senders : Flush(s)
         \/ PoolRuns \/ RunCompletion \/ \E s \in Senders : Fill(s) \/ Drain(s)
BY SenderSends DEF Next, Reporter, Senders

LEMMA NextKeeps == ReportsInv /\ [Next]_vars => ReportsInv'
<1> SUFFICES ASSUME ReportsInv, [Next]_vars PROVE ReportsInv'
  OBVIOUS
<1>1. CASE Next
  <2>1. TypeOK
    BY DEF ReportsInv
  <2>2. QED
    BY <1>1, <2>1, NextCases, CreateKeeps, ThreadKeeps, UseKeeps, SendsKeeps,
       DestroyKeeps, FlushKeeps, ContextKeeps
<1>2. CASE UNCHANGED vars
  BY <1>2 DEF vars, ReportsInv, TypeOK, OnlyBoundReport
<1>3. QED
  BY <1>1, <1>2

(***************************************************************************)
(* Every sender keeps to what it may do, in every behaviour: sends wait    *)
(* only at an open socket, the server of modules_1 is never bound, only    *)
(* servers that are report, and only they are used after their end         *)
(* (modules_1/src/server_emulator.cpp:10, 19-22, server_emulator.cpp:      *)
(* 20-21, 34-41).                                                          *)
(***************************************************************************)
THEOREM ReportsInvariant == Spec => []ReportsInv
<1>1. Init => ReportsInv
  BY InitReports
<1>2. ReportsInv /\ [Next]_vars => ReportsInv'
  BY NextKeeps
<1>3. QED
  BY <1>1, <1>2, PTL DEF Spec

(***************************************************************************)
(* No builder writes beside its buffer or has a byte sent that it did not  *)
(* write, for texts of any length, any numbers and buffers of any size     *)
(* (modules_1/src/utils.cpp:18-24, 35-42, 56-63).                          *)
(***************************************************************************)
THEOREM BuildersKeep == Spec => []BuildersKeepToBuffer
<1>1. ReportsInv => BuildersKeepToBuffer
  BY KeepToBufferIfTyped DEF ReportsInv, TypeOK
<1>2. QED
  BY <1>1, ReportsInvariant, PTL

------------------------------------------------------------------------------
(***************************************************************************)
(* A server whose report has to wait when the context has stopped is       *)
(* silent until it is destroyed (server_emulator.cpp:53, main.cpp:16).     *)
(***************************************************************************)
LEMMA StaysSilenced ==
  ASSUME ReportsInv, Next, NEW s \in Senders, Silenced(s)
  PROVE  s \notin sent' /\ (Silenced(s)' \/ life'[s] = "destroyed")
<1>1. pool = "stopped" /\ waiting[s] > 0
  BY DEF Silenced
<1>2. TypeOK /\ waiting \in [Senders -> Nat]
      /\ life \in [Senders -> {"none", "open", "closed", "destroyed"}]
  BY DEF ReportsInv, TypeOK
<1>3. ~PoolRuns /\ ~RunCompletion /\ \A t \in Senders : ~Flush(t)
  BY <1>1 DEF PoolRuns, RunCompletion, Flush
<1>4. ASSUME NEW t \in Senders, Sends(t)
      PROVE  s \notin sent' /\ waiting'[s] > 0 /\ pool' = pool
  <2>1. Send(t) /\ pool' = pool
    BY <1>4 DEF Sends
  <2>2. QED
    BY <1>1, <1>2, <2>1, SendStep
<1>5. ASSUME NEW t \in Senders, Destroy(t)
      PROVE  s \notin sent' /\ (waiting'[s] > 0 \/ life'[s] = "destroyed") /\ pool' = pool
  BY <1>1, <1>2, <1>5 DEF Destroy, Abort
<1>6. \/ sent' = {} /\ waiting' = waiting /\ pool' = pool
      \/ \E t \in Senders : Sends(t) \/ Destroy(t)
  BY <1>2, <1>3, NextCases DEF CreateServer, CreateSteam, ListenForConnections,
     BeginReport, Resolve, ResolveFails, UseDestroyed, Fill, Drain
<1>7. QED
  BY <1>1, <1>4, <1>5, <1>6 DEF Silenced

THEOREM SilencedStaysSo == Spec => SilencedForGood
<1>1. ReportsInv /\ [Next]_vars =>
        [\A s \in Senders :
           Silenced(s) => s \notin sent' /\ (Silenced(s)' \/ life'[s] = "destroyed")]_vars
  BY StaysSilenced
<1>2. QED
  BY <1>1, ReportsInvariant, PTL DEF Spec, SilencedForGood
==============================================================================
