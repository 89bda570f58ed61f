--------------------------- MODULE IpLimiterProofs ---------------------------
(***************************************************************************)
(* LimiterInv is an inductive invariant of IpLimiter, for every set of     *)
(* addresses, every maximum and every duration; from it follow the window  *)
(* limit and that the table implements the promise of RateLimit.           *)
(***************************************************************************)
EXTENDS IpLimiter, TLAPS

LEMMA MultiplyMonotonic ==
  ASSUME NEW t \in Nat, t > 0, NEW a \in Int, NEW b \in Int, a >= b
  PROVE  t * a >= t * b
  BY SMT

LEMMA DivisionWithRest ==
  ASSUME NEW t \in Nat, t > 0, NEW x \in Int
  PROVE  /\ x = (t * (x \div t)) + (x % t)
         /\ x % t \in 0..(t - 1)
         /\ x \div t \in Int
  BY SMT

(* Truncating to whole seconds before comparing makes the limit one second longer. *)
LEMMA TruncatedAge ==
  ASSUME NEW t \in Nat \ {0}, NEW d \in Nat, NEW x \in Int
  PROVE  x \div t > d <=> x >= (d + 1) * t
<1> DEFINE q == x \div t
<1>1. x = (t * q) + (x % t) /\ x % t \in 0..(t - 1) /\ q \in Int
  BY DivisionWithRest
<1>2. CASE q > d
  <2>1. t * q >= t * (d + 1)
    BY <1>1, <1>2, MultiplyMonotonic
  <2> QED
    BY <2>1, <1>1, <1>2
<1>3. CASE q <= d
  <2>1. t * d >= t * q
    BY <1>1, <1>3, MultiplyMonotonic
  <2>2. t * (d + 1) = (t * d) + t
    OBVIOUS
  <2> QED
    BY <2>1, <2>2, <1>1, <1>3
<1> QED
  BY <1>1, <1>2, <1>3

LEMMA ExpiredIsWindow ==
  ASSUME NEW entry, entry.last \in Int, NEW t \in Int
  PROVE  Expired(entry, t) <=> t - entry.last >= Window
<1> DEFINE age == t - entry.last
<1>1. age \in Int
  OBVIOUS
<1>2. age \div TicksPerSecond > BlockDurationSeconds
        <=> age >= (BlockDurationSeconds + 1) * TicksPerSecond
  BY <1>1, IpLimiterAssumption, TruncatedAge
<1> QED
  BY <1>2 DEF Expired, Window

LEMMA LimitAndWindow == Limit \in Nat \ {0} /\ Window \in Nat \ {0}
<1>1. Limit \in Nat \ {0}
  BY IpLimiterAssumption DEF Limit
<1>2. Window \in Nat
  BY IpLimiterAssumption, SMT DEF Window
<1>3. Window # 0
  <2>1. TicksPerSecond * (BlockDurationSeconds + 1) >= TicksPerSecond * 1
    BY IpLimiterAssumption, MultiplyMonotonic
  <2> QED
    BY <2>1, IpLimiterAssumption DEF Window
<1> QED
  BY <1>1, <1>2, <1>3

(* What the purge keeps is what is within a window of now, unchanged. *)
LEMMA PurgeKeeps ==
  ASSUME NEW map, NEW t
  PROVE  /\ DOMAIN Purge(map, t) = {ip \in DOMAIN map : ~Expired(map[ip], t)}
         /\ \A ip \in DOMAIN Purge(map, t) : Purge(map, t)[ip] = map[ip]
  BY DEF Purge, Restrict


------------------------------------------------------------------------------
LEMMA ElementsOfSeq ==
  ASSUME NEW S, NEW s \in Seq(S)
  PROVE  Len(s) \in Nat /\ \A i \in 1..Len(s) : s[i] \in S
  OBVIOUS

LEMMA ChargesOfSeq ==
  ASSUME NEW s \in Seq(Charge)
  PROVE  /\ Len(s) \in Nat
         /\ \A i \in 1..Len(s) : s[i].seen \in Nat /\ s[i].at \in Nat
<1>1. Len(s) \in Nat /\ \A i \in 1..Len(s) : s[i] \in Charge
  BY ElementsOfSeq
<1> QED
  BY <1>1 DEF Charge

LEMMA AppendedCharge ==
  ASSUME NEW s \in Seq(Charge), NEW e \in Charge
  PROVE  /\ Append(s, e) \in Seq(Charge)
         /\ Len(Append(s, e)) = Len(s) + 1
         /\ \A k \in 1..Len(s) : Append(s, e)[k] = s[k]
         /\ Append(s, e)[Len(s) + 1] = e
  OBVIOUS

(***************************************************************************)
(* A charge seen within a window of the last one prolongs the run of c     *)
(* charges at the end of the history.                                      *)
(***************************************************************************)
LEMMA ChargeProlongsRun ==
  ASSUME NEW s \in Seq(Charge), NEW e \in Charge, NEW c \in Nat,
         IsRun(s, c), e.seen - s[Len(s)].at < Window
  PROVE  IsRun(Append(s, e), c + 1)
<1> DEFINE t == Append(s, e)
           n == Len(s)
<1>1. /\ n \in Nat
      /\ Len(t) = n + 1
      /\ \A k \in 1..n : t[k] = s[k]
      /\ t[n + 1] = e
  BY AppendedCharge
<1>2. /\ c \in 1..n
      /\ n > c => s[n - c + 1].seen - s[n - c].at >= Window
      /\ \A k \in (n - c + 1)..(n - 1) : s[k + 1].seen - s[k].at < Window
      /\ e.seen - s[n].at < Window
  BY DEF IsRun
<1> HIDE DEF t, n
<1>3. c + 1 \in 1..(n + 1)
  BY <1>1, <1>2
<1>4. ASSUME n + 1 > c + 1
      PROVE  t[n + 1 - (c + 1) + 1].seen - t[n + 1 - (c + 1)].at >= Window
  <2>1. /\ n + 1 - (c + 1) = n - c /\ n - c \in 1..n
        /\ n - c + 1 \in 1..n /\ n > c
    BY <1>1, <1>2, <1>4
  <2>2. t[n - c] = s[n - c] /\ t[n - c + 1] = s[n - c + 1]
    BY <1>1, <2>1
  <2> QED
    BY <1>2, <2>1, <2>2
<1>5. ASSUME NEW k \in (n + 1 - (c + 1) + 1)..(n + 1 - 1)
      PROVE  t[k + 1].seen - t[k].at < Window
  <2>1. k \in (n - c + 1)..n /\ k \in 1..n
    BY <1>1, <1>2
  <2>2. CASE k = n
    BY <1>1, <1>2, <2>1, <2>2
  <2>3. CASE k # n
    <3>1. k \in (n - c + 1)..(n - 1) /\ k + 1 \in 1..n
      BY <1>1, <1>2, <2>1, <2>3
    <3>2. t[k] = s[k] /\ t[k + 1] = s[k + 1]
      BY <1>1, <2>1, <3>1
    <3> QED
      BY <1>2, <3>1, <3>2
  <2> QED
    BY <2>2, <2>3
<1>6. IsRun(t, c + 1)
  BY <1>1, <1>3, <1>4, <1>5 DEF IsRun
<1> QED
  BY <1>6 DEF t

(* A charge seen a window after the last one begins a run of its own. *)
LEMMA ChargeBeginsRun ==
  ASSUME NEW s \in Seq(Charge), NEW e \in Charge,
         Len(s) > 0 => e.seen - s[Len(s)].at >= Window
  PROVE  IsRun(Append(s, e), 1)
<1> DEFINE t == Append(s, e)
           n == Len(s)
<1>1. /\ n \in Nat
      /\ Len(t) = n + 1
      /\ \A k \in 1..n : t[k] = s[k]
      /\ t[n + 1] = e
  BY AppendedCharge
<1>2. n > 0 => e.seen - s[n].at >= Window
  OBVIOUS
<1> HIDE DEF t, n
<1>3. 1 \in 1..(n + 1) /\ (n + 1 - 1 + 1)..(n + 1 - 1) = {}
  BY <1>1
<1>4. ASSUME n + 1 > 1
      PROVE  t[n + 1 - 1 + 1].seen - t[n + 1 - 1].at >= Window
  <2>1. n + 1 - 1 = n /\ n \in 1..n /\ n > 0
    BY <1>1, <1>4
  <2> QED
    BY <1>1, <1>2, <2>1
<1> QED
  BY <1>1, <1>3, <1>4 DEF IsRun, t

(* A charge seen and made after all others keeps the history in order. *)
LEMMA ChargeKeepsOrder ==
  ASSUME NEW s \in Seq(Charge), NEW e \in Charge,
         InOrder(s, e.seen), e.seen <= e.at
  PROVE  InOrder(Append(s, e), e.at)
<1> DEFINE t == Append(s, e)
           n == Len(s)
<1>1. /\ n \in Nat
      /\ Len(t) = n + 1
      /\ \A k \in 1..n : t[k] = s[k]
      /\ t[n + 1] = e
  BY AppendedCharge
<1>2. /\ \A k \in 1..n : s[k].seen \in Nat /\ s[k].at \in Nat
      /\ e.seen \in Nat /\ e.at \in Nat /\ e.seen <= e.at
  BY ChargesOfSeq DEF Charge
<1>3. \A i \in 1..n :
        /\ s[i].seen <= s[i].at
        /\ s[i].at <= e.seen
        /\ \A j \in i..n : s[i].seen <= s[j].seen /\ s[i].at <= s[j].at
  BY DEF InOrder
<1> HIDE DEF t, n
<1>4. ASSUME NEW i \in 1..(n + 1), NEW j \in i..(n + 1)
      PROVE  /\ t[i].seen <= t[i].at
             /\ t[i].at <= e.at
             /\ t[i].seen <= t[j].seen /\ t[i].at <= t[j].at
  <2>1. CASE i \in 1..n /\ j \in i..n
    <3>1. j \in 1..n
      BY <1>1, <2>1
    <3>2. t[i] = s[i] /\ t[j] = s[j]
      BY <1>1, <2>1, <3>1
    <3>3. s[i].at <= e.at
      BY <1>2, <1>3, <2>1
    <3> QED
      BY <1>3, <2>1, <3>2, <3>3
  <2>2. CASE i \in 1..n /\ j = n + 1
    BY <1>1, <1>2, <1>3, <2>2
  <2>3. CASE i = n + 1 /\ j = n + 1
    BY <1>1, <1>2, <2>3
  <2> QED
    BY <1>1, <2>1, <2>2, <2>3
<1>5. \A i \in 1..(n + 1) : i \in i..(n + 1)
  BY <1>1
<1> QED
  BY <1>1, <1>4, <1>5 DEF InOrder, t

(* Later is in order too. *)
LEMMA OrderUntilLater ==
  ASSUME NEW s \in Seq(Charge), NEW t1 \in Nat, NEW t2 \in Nat,
         InOrder(s, t1), t1 <= t2
  PROVE  InOrder(s, t2)
  BY ChargesOfSeq DEF InOrder

(* What type correctness says of the history and of the packet under way. *)
LEMMA HistoryTypes ==
  ASSUME TypeOK
  PROVE  /\ now \in Nat
         /\ checked # NoPacket => checked.ip \in Ips /\ checked.seen \in Nat
         /\ \A ip \in Ips : charges[ip] \in Seq(Charge)
  BY DEF TypeOK, Check

LEMMA InitInv == Init => LimiterInv
  BY IpLimiterAssumption, SMT
     DEF Init, LimiterInv, TypeOK, HistoryInOrder, TableMatchesHistory,
         SilenceIfAbsent, VerdictHolds, Entry, Check, Charge, InOrder, Silent

(* Time passing ages the entries and the silences, nothing else. *)
LEMMA TickKeepsInv == LimiterInv /\ Tick => LimiterInv'
<1> SUFFICES ASSUME LimiterInv, Tick
             PROVE  LimiterInv'
  OBVIOUS
<1> USE DEF LimiterInv, Tick
<1>1. TypeOK'
  BY DEF TypeOK
<1>2. HistoryInOrder'
  <2>1. \A ip \in Ips : InOrder(charges[ip], now + 1)
    BY HistoryTypes, OrderUntilLater DEF HistoryInOrder
  <2> QED
    BY <2>1, HistoryTypes DEF HistoryInOrder, InOrder
<1>3. TableMatchesHistory'
  BY DEF TableMatchesHistory
<1>4. SilenceIfAbsent'
  <2> SUFFICES ASSUME NEW ip \in Ips \ DOMAIN ipMap
               PROVE  Silent(ip, now)'
    BY DEF SilenceIfAbsent
  <2>1. Silent(ip, now)
    BY DEF SilenceIfAbsent
  <2>2. Len(charges[ip]) > 0 => charges[ip][Len(charges[ip])].at \in Nat
    BY HistoryTypes, ChargesOfSeq
  <2> QED
    BY <2>1, <2>2, HistoryTypes, LimitAndWindow DEF Silent
<1>5. VerdictHolds'
  BY DEF VerdictHolds, Silent
<1> QED
  BY <1>1, <1>2, <1>3, <1>4, <1>5

LEMMA ExcludedKeepsInv ==
  ASSUME NEW ip \in Ips, LimiterInv, CheckExcluded(ip)
  PROVE  LimiterInv'
<1> USE DEF LimiterInv, CheckExcluded
<1>1. TypeOK'
  BY DEF TypeOK, Check
<1>2. HistoryInOrder'
  BY HistoryTypes DEF HistoryInOrder
<1>3. TableMatchesHistory'
  BY DEF TableMatchesHistory
<1>4. SilenceIfAbsent'
  BY DEF SilenceIfAbsent, Silent
<1>5. VerdictHolds'
  BY DEF VerdictHolds
<1> QED
  BY <1>1, <1>2, <1>3, <1>4, <1>5

(***************************************************************************)
(* Purging with the clock's own time keeps the table true to the history:  *)
(* what it drops has been silent for a window.                             *)
(***************************************************************************)
LEMMA PurgeKeepsTable ==
  ASSUME LimiterInv, ipMap' = Purge(ipMap, now), UNCHANGED <<now, charges>>
  PROVE  /\ ipMap' \in [DOMAIN ipMap' -> Entry]
         /\ DOMAIN ipMap' \subseteq Ips \ ExcludedIps
         /\ TableMatchesHistory'
         /\ SilenceIfAbsent'
         /\ \A ip \in DOMAIN ipMap' : now - ipMap'[ip].last < Window
<1> USE DEF LimiterInv
<1>1. /\ DOMAIN ipMap' = {ip \in DOMAIN ipMap : ~Expired(ipMap[ip], now)}
      /\ \A ip \in DOMAIN ipMap' : ipMap'[ip] = ipMap[ip]
  BY PurgeKeeps
<1>2. \A ip \in DOMAIN ipMap :
         /\ ipMap[ip].last \in Nat
         /\ Expired(ipMap[ip], now) <=> now - ipMap[ip].last >= Window
  BY ExpiredIsWindow DEF TypeOK, Entry
<1>3. ipMap' \in [DOMAIN ipMap' -> Entry]
  BY <1>1 DEF TypeOK, Purge, Restrict
<1>4. DOMAIN ipMap' \subseteq Ips \ ExcludedIps
  BY <1>1 DEF TypeOK
<1>5. TableMatchesHistory'
  BY <1>1 DEF TableMatchesHistory
<1>6. SilenceIfAbsent'
  <2> SUFFICES ASSUME NEW ip \in Ips, ip \notin DOMAIN ipMap'
               PROVE  Silent(ip, now)
    BY DEF SilenceIfAbsent, Silent
  <2>1. CASE ip \in DOMAIN ipMap
    BY <1>1, <1>2, <2>1 DEF TableMatchesHistory, Silent
  <2>2. CASE ip \notin DOMAIN ipMap
    BY <2>2 DEF SilenceIfAbsent
  <2> QED
    BY <2>1, <2>2
<1>7. \A ip \in DOMAIN ipMap' : now - ipMap'[ip].last < Window
  BY <1>1, <1>2, LimitAndWindow DEF TypeOK
<1> QED
  BY <1>3, <1>4, <1>5, <1>6, <1>7

LEMMA AdmitsKeepsInv ==
  ASSUME NEW ip \in Ips, LimiterInv, CheckAdmits(ip)
  PROVE  LimiterInv'
<1> USE DEF LimiterInv, CheckAdmits
<1>1. /\ ipMap' \in [DOMAIN ipMap' -> Entry]
      /\ DOMAIN ipMap' \subseteq Ips \ ExcludedIps
      /\ TableMatchesHistory'
      /\ SilenceIfAbsent'
      /\ \A i \in DOMAIN ipMap' : now - ipMap'[i].last < Window
  BY PurgeKeepsTable
<1>2. TypeOK'
  BY <1>1 DEF TypeOK, Check
<1>3. HistoryInOrder'
  BY HistoryTypes DEF HistoryInOrder
<1>4. VerdictHolds'
  <2>1. checked'.ip = ip /\ checked'.seen = now
    OBVIOUS
  <2>2. CASE ip \in DOMAIN ipMap'
    <3>1. ~(ipMap'[ip].count >= MaxConnections)
      BY <2>2 DEF Blocked
    <3>2. ipMap'[ip].count \in Nat
      BY <1>1, <2>2 DEF Entry
    <3>3. ipMap'[ip].count < MaxConnections
      BY <3>1, <3>2, IpLimiterAssumption
    <3> QED
      BY <1>1, <2>1, <2>2, <3>3 DEF VerdictHolds
  <2>3. CASE ip \notin DOMAIN ipMap'
    BY <1>1, <2>1, <2>3 DEF VerdictHolds, SilenceIfAbsent, Silent
  <2> QED
    BY <2>2, <2>3
<1> QED
  BY <1>1, <1>2, <1>3, <1>4

LEMMA RefusesKeepsInv ==
  ASSUME NEW ip \in Ips, LimiterInv, CheckRefuses(ip)
  PROVE  LimiterInv'
<1> USE DEF LimiterInv, CheckRefuses
<1>1. /\ ipMap' \in [DOMAIN ipMap' -> Entry]
      /\ DOMAIN ipMap' \subseteq Ips \ ExcludedIps
      /\ TableMatchesHistory'
      /\ SilenceIfAbsent'
  BY PurgeKeepsTable
<1>2. TypeOK'
  BY <1>1 DEF TypeOK
<1>3. HistoryInOrder'
  BY DEF HistoryInOrder
<1>4. VerdictHolds'
  BY DEF VerdictHolds
<1> QED
  BY <1>1, <1>2, <1>3, <1>4

(***************************************************************************)
(* A packet that isIpBlocked let through and addIpConnection counts leaves *)
(* room: the charge Limit before it is a window older than the packet.     *)
(***************************************************************************)
LEMMA ChargeLeavesRoom ==
  ASSUME LimiterInv, checked # NoPacket, checked.ip \notin ExcludedIps
  PROVE  LET n == Len(charges[checked.ip])
         IN  n >= Limit =>
               checked.seen - charges[checked.ip][n - Limit + 1].at >= Window
<1> DEFINE ip == checked.ip
           s == charges[ip]
           n == Len(s)
<1> SUFFICES ASSUME n >= Limit
             PROVE  checked.seen - s[n - Limit + 1].at >= Window
  OBVIOUS
<1>1. /\ ip \in Ips /\ checked.seen \in Nat /\ n \in Nat
      /\ \A i \in 1..n : s[i].seen \in Nat /\ s[i].at \in Nat
  BY HistoryTypes, ChargesOfSeq DEF LimiterInv
<1>2. Limit \in Nat \ {0} /\ Window \in Nat
  BY LimitAndWindow
<1>3. \A i \in 1..n :
        /\ s[i].seen <= s[i].at
        /\ s[i].at <= checked.seen
        /\ \A j \in i..n : s[i].seen <= s[j].seen /\ s[i].at <= s[j].at
  BY DEF LimiterInv, HistoryInOrder, InOrder
<1>4. CASE ip \in DOMAIN ipMap
  <2> DEFINE c == ipMap[ip].count
  <2>1. c \in 1..n /\ (n > c => s[n - c + 1].seen - s[n - c].at >= Window)
    BY <1>4 DEF LimiterInv, TableMatchesHistory, IsRun
  <2>2. c < MaxConnections
    BY <1>4 DEF LimiterInv, VerdictHolds
  <2>3. c < Limit
    BY <2>1, <2>2, <1>1, IpLimiterAssumption DEF Limit
  <2> HIDE DEF s, n, c, ip
  <2>4. /\ n > c /\ n - c \in 1..n /\ n - c + 1 \in 1..n
        /\ n - Limit + 1 \in 1..n /\ n - c \in (n - Limit + 1)..n
    <3>1. c \in Int /\ 1 <= c /\ c < Limit /\ Limit <= n
      BY <1>1, <1>2, <2>1, <2>3
    <3> QED
      BY <1>1, <1>2, <3>1
  <2>5. s[n - Limit + 1].at <= s[n - c].at
    BY <1>3, <2>4
  <2>6. s[n - c + 1].seen <= checked.seen
    BY <1>1, <1>3, <2>4
  <2> QED
    BY <1>1, <1>2, <2>1, <2>4, <2>5, <2>6
<1>5. CASE ip \notin DOMAIN ipMap
  <2>1. n > 0
    BY <1>1, <1>2
  <2>2. checked.seen - s[n].at >= Window
    BY <1>5, <2>1 DEF LimiterInv, VerdictHolds, Silent
  <2>3. n - Limit + 1 \in 1..n /\ n \in (n - Limit + 1)..n
    BY <1>1, <1>2
  <2>4. s[n - Limit + 1].at <= s[n].at
    BY <2>3, <1>3
  <2> HIDE DEF s, n, ip
  <2> QED
    BY <1>1, <1>2, <2>2, <2>3, <2>4
<1> QED
  BY <1>4, <1>5

(* addIpConnection returns without counting: excluded, or no room. *)
LEMMA NotCountedKeepsInv ==
  ASSUME LimiterInv, checked' = NoPacket,
         UNCHANGED <<now, ipMap, totalConnections, charges, refusedAt>>
  PROVE  LimiterInv'
<1> USE DEF LimiterInv
<1>1. TypeOK'
  BY DEF TypeOK
<1>2. HistoryInOrder'
  BY DEF HistoryInOrder
<1>3. TableMatchesHistory'
  BY DEF TableMatchesHistory
<1>4. SilenceIfAbsent'
  BY DEF SilenceIfAbsent, Silent
<1>5. VerdictHolds'
  BY DEF VerdictHolds
<1> QED
  BY <1>1, <1>2, <1>3, <1>4, <1>5

LEMMA CountedKeepsInv ==
  ASSUME LimiterInv, checked # NoPacket, checked.ip \notin ExcludedIps,
         ipMap' = Count(checked.ip, ipMap, now),
         charges' = [charges EXCEPT
                       ![checked.ip] = Append(@, [seen |-> checked.seen, at |-> now])],
         totalConnections' = totalConnections + 1,
         checked' = NoPacket, UNCHANGED <<now, refusedAt>>
  PROVE  LimiterInv'
<1> DEFINE ip == checked.ip
           s == charges[ip]
           n == Len(s)
           e == [seen |-> checked.seen, at |-> now]
<1>1. /\ ip \in Ips /\ checked.seen \in Nat /\ now \in Nat
      /\ s \in Seq(Charge) /\ e \in Charge
      /\ charges \in [Ips -> Seq(Charge)]
      /\ ipMap \in [DOMAIN ipMap -> Entry]
      /\ DOMAIN ipMap \subseteq Ips \ ExcludedIps
  BY HistoryTypes DEF LimiterInv, TypeOK, Charge
<1>2. /\ charges' = [charges EXCEPT ![ip] = Append(s, e)]
      /\ charges'[ip] = Append(s, e)
      /\ \A i \in Ips \ {ip} : charges'[i] = charges[i]
      /\ DOMAIN charges' = Ips
  BY <1>1
<1>3. /\ DOMAIN ipMap' = DOMAIN ipMap \cup {ip}
      /\ \A i \in DOMAIN ipMap \ {ip} : ipMap'[i] = ipMap[i]
      /\ ipMap'[ip].last = now
      /\ ipMap'[ip].count = (IF ip \in DOMAIN ipMap THEN ipMap[ip].count ELSE 0) + 1
      /\ ipMap' \in [DOMAIN ipMap' -> Entry]
  <2> DEFINE m == (IF ip \in DOMAIN ipMap THEN ipMap[ip].count ELSE 0) + 1
             entry == [count |-> m, last |-> now]
  <2>1. ipMap' = [i \in DOMAIN ipMap \cup {ip} |-> IF i = ip THEN entry ELSE ipMap[i]]
    BY DEF Count
  <2>2. m \in Nat
    BY <1>1 DEF Entry
  <2>3. entry \in Entry /\ entry.last = now /\ entry.count = m
    BY <1>1, <2>2 DEF Entry
  <2>4. \A i \in DOMAIN ipMap : ipMap[i] \in Entry
    BY <1>1
  <2> HIDE DEF m, entry, ip
  <2>5. /\ DOMAIN ipMap' = DOMAIN ipMap \cup {ip}
        /\ \A i \in DOMAIN ipMap \ {ip} : ipMap'[i] = ipMap[i]
        /\ ipMap'[ip] = entry
    BY <2>1
  <2>6. ipMap' \in [DOMAIN ipMap \cup {ip} -> Entry]
    BY <2>1, <2>3, <2>4
  <2> QED
    BY <2>3, <2>5, <2>6 DEF m
<1>4. /\ Append(s, e) \in Seq(Charge)
      /\ Len(Append(s, e)) = n + 1
      /\ Append(s, e)[n + 1] = e
  BY <1>1, AppendedCharge
<1>5. TypeOK'
  BY <1>1, <1>2, <1>3, <1>4 DEF LimiterInv, TypeOK
<1>6. HistoryInOrder'
  <2>1. InOrder(Append(s, e), now)
    <3>1. e.seen = checked.seen /\ e.at = now
      OBVIOUS
    <3>2. InOrder(s, checked.seen) /\ checked.seen <= now
      BY DEF LimiterInv, HistoryInOrder
    <3> HIDE DEF s, e
    <3> QED
      BY <1>1, <3>1, <3>2, ChargeKeepsOrder
  <2>2. \A i \in Ips : InOrder(charges'[i], now)
    BY <1>2, <2>1 DEF LimiterInv, HistoryInOrder
  <2> QED
    BY <2>2 DEF HistoryInOrder, InOrder
<1>7. TableMatchesHistory'
  <2> SUFFICES ASSUME NEW i \in DOMAIN ipMap'
               PROVE  /\ IsRun(charges'[i], ipMap'[i].count)
                      /\ ipMap'[i].count <= Limit
                      /\ ipMap'[i].last = charges'[i][Len(charges'[i])].at
    BY DEF TableMatchesHistory, IsRun
  <2>1. CASE i # ip
    <3>1. /\ i \in DOMAIN ipMap /\ ipMap'[i] = ipMap[i]
          /\ charges'[i] = charges[i]
      BY <1>1, <1>2, <1>3, <2>1
    <3> QED
      BY <3>1 DEF LimiterInv, TableMatchesHistory
  <2>2. ipMap'[ip].last = charges'[ip][Len(charges'[ip])].at
    BY <1>2, <1>3, <1>4
  <2>3. CASE i = ip /\ ip \in DOMAIN ipMap
    <3> DEFINE c == ipMap[ip].count
    <3>1. IsRun(s, c) /\ c \in Nat /\ ipMap[ip].last = s[n].at
      BY <1>1, <2>3 DEF LimiterInv, TableMatchesHistory, Entry
    <3>2. c < MaxConnections /\ e.seen - s[n].at < Window
      BY <2>3, <3>1 DEF LimiterInv, VerdictHolds
    <3>3. c + 1 <= Limit
      BY <3>1, <3>2, IpLimiterAssumption DEF Limit
    <3>4. ipMap'[ip].count = c + 1
      BY <1>3, <2>3
    <3>5. IsRun(Append(s, e), c + 1)
      <4> HIDE DEF s, e, c
      <4> QED
        BY <1>1, <3>1, <3>2, ChargeProlongsRun
    <3> QED
      BY <1>2, <2>2, <2>3, <3>3, <3>4, <3>5
  <2>4. CASE i = ip /\ ip \notin DOMAIN ipMap
    <3>1. n > 0 => e.seen - s[n].at >= Window
      BY <2>4 DEF LimiterInv, VerdictHolds, Silent
    <3>2. IsRun(Append(s, e), 1)
      <4> HIDE DEF s, e
      <4> QED
        BY <1>1, <3>1, ChargeBeginsRun
    <3>3. ipMap'[ip].count = 1
      BY <1>3, <2>4
    <3> QED
      BY <1>2, <2>2, <2>4, <3>2, <3>3, LimitAndWindow
  <2> QED
    BY <2>1, <2>3, <2>4
<1>8. SilenceIfAbsent'
  <2> SUFFICES ASSUME NEW i \in Ips, i \notin DOMAIN ipMap'
               PROVE  Silent(i, now)'
    BY DEF SilenceIfAbsent
  <2>1. i \notin DOMAIN ipMap /\ charges'[i] = charges[i]
    BY <1>2, <1>3
  <2> QED
    BY <2>1 DEF LimiterInv, SilenceIfAbsent, Silent
<1>9. VerdictHolds'
  BY DEF VerdictHolds
<1> QED
  BY <1>5, <1>6, <1>7, <1>8, <1>9 DEF LimiterInv

LEMMA AddKeepsInv == LimiterInv /\ AddIpConnection => LimiterInv'
<1> SUFFICES ASSUME LimiterInv, AddIpConnection
             PROVE  LimiterInv'
  OBVIOUS
<1>1. CASE checked.ip \notin ExcludedIps /\ Counts(checked.ip, ipMap)
  BY <1>1, CountedKeepsInv DEF AddIpConnection
<1>2. CASE ~(checked.ip \notin ExcludedIps /\ Counts(checked.ip, ipMap))
  BY <1>2, NotCountedKeepsInv DEF AddIpConnection
<1> QED
  BY <1>1, <1>2

LEMMA NextKeepsInv == LimiterInv /\ [Next]_vars => LimiterInv'
<1> SUFFICES ASSUME LimiterInv, [Next]_vars
             PROVE  LimiterInv'
  OBVIOUS
<1>1. CASE Tick
  BY <1>1, TickKeepsInv
<1>2. ASSUME NEW ip \in Ips, CheckExcluded(ip)
      PROVE  LimiterInv'
  BY <1>2, ExcludedKeepsInv
<1>3. ASSUME NEW ip \in Ips, CheckAdmits(ip)
      PROVE  LimiterInv'
  BY <1>3, AdmitsKeepsInv
<1>4. ASSUME NEW ip \in Ips, CheckRefuses(ip)
      PROVE  LimiterInv'
  BY <1>4, RefusesKeepsInv
<1>5. CASE AddIpConnection
  BY <1>5, AddKeepsInv
<1>6. CASE UNCHANGED vars
  <2> USE <1>6 DEF vars, LimiterInv
  <2>1. TypeOK'
    BY DEF TypeOK
  <2>2. HistoryInOrder'
    BY DEF HistoryInOrder
  <2>3. TableMatchesHistory'
    BY DEF TableMatchesHistory
  <2>4. SilenceIfAbsent'
    BY DEF SilenceIfAbsent, Silent
  <2>5. VerdictHolds'
    BY DEF VerdictHolds, Silent
  <2> QED
    BY <2>1, <2>2, <2>3, <2>4, <2>5
<1> QED
  BY <1>1, <1>2, <1>3, <1>4, <1>5, <1>6 DEF Next

(***************************************************************************)
(* The table of utils.cpp always matches the history of the packets it     *)
(* counted, and a verdict of isIpBlocked stays true until addIpConnection  *)
(* has acted on it, whatever time passes between the two calls.            *)
(***************************************************************************)
THEOREM LimiterInvariant == Spec => []LimiterInv
<1>1. Init => LimiterInv
  BY InitInv
<1>2. LimiterInv /\ [Next]_vars => LimiterInv'
  BY NextKeepsInv
<1> QED
  BY <1>1, <1>2, PTL DEF Spec

(* Every state of the limiter is well-typed. *)
THEOREM TypeCorrect == Spec => []TypeOK
<1>1. LimiterInv => TypeOK
  BY DEF LimiterInv
<1> QED
  BY <1>1, LimiterInvariant, PTL

------------------------------------------------------------------------------
(* What a refusal says of the history: Limit charges, none a window after  *)
(* the one before, the last less than a window ago.                        *)
LEMMA RefusalIsEarned ==
  ASSUME NEW ip \in Ips, LimiterInv, CheckRefuses(ip)
  PROVE  LET n == Len(charges[ip]) IN
         /\ n >= Limit
         /\ now - charges[ip][n].at < Window
         /\ \A k \in (n - Limit + 1)..(n - 1) :
              charges[ip][k + 1].seen - charges[ip][k].at < Window
<1> DEFINE c == ipMap'[ip].count
           s == charges[ip]
           n == Len(s)
<1>1. /\ TableMatchesHistory'
      /\ ipMap' \in [DOMAIN ipMap' -> Entry]
      /\ \A i \in DOMAIN ipMap' : now - ipMap'[i].last < Window
  BY PurgeKeepsTable DEF CheckRefuses
<1>2. ip \in DOMAIN ipMap' /\ c >= MaxConnections
  BY DEF CheckRefuses, Blocked
<1>3. /\ IsRun(s, c) /\ c <= Limit
      /\ ipMap'[ip].last = s[n].at
  BY <1>1, <1>2 DEF TableMatchesHistory, CheckRefuses
<1>4. /\ n \in Nat /\ c \in 1..n
      /\ \A k \in (n - c + 1)..(n - 1) : s[k + 1].seen - s[k].at < Window
  BY <1>3, HistoryTypes, ElementsOfSeq DEF IsRun, LimiterInv
<1>5. c = Limit
  BY <1>2, <1>3, <1>4, IpLimiterAssumption DEF Limit
<1>6. n >= Limit
  BY <1>4, <1>5
<1>7. now - s[n].at < Window
  BY <1>1, <1>2, <1>3
<1> QED
  BY <1>4, <1>5, <1>6, <1>7

LEMMA InitKeepsPromise == Init => Promise!Init
  BY DEF Init, Promise!Init

LEMMA NextKeepsPromise == LimiterInv /\ [Next]_vars => [Promise!Next]_(Promise!vars)
<1> SUFFICES ASSUME LimiterInv, [Next]_vars
             PROVE  Promise!Next \/ UNCHANGED Promise!vars
  OBVIOUS
<1>1. CASE Tick
  BY <1>1 DEF Tick, Promise!Next, Promise!Tick
<1>2. ASSUME NEW ip \in Ips, CheckExcluded(ip) \/ CheckAdmits(ip)
      PROVE  UNCHANGED Promise!vars
  BY <1>2 DEF CheckExcluded, CheckAdmits, Promise!vars
<1>3. ASSUME NEW ip \in Ips, CheckRefuses(ip)
      PROVE  Promise!Next
  <2>1. Promise!RefusePacket(ip)
    BY <1>3, RefusalIsEarned DEF CheckRefuses, Promise!RefusePacket
  <2> QED
    BY <2>1 DEF Promise!Next
<1>4. CASE AddIpConnection
  <2>1. CASE checked.ip \notin ExcludedIps /\ Counts(checked.ip, ipMap)
    <3>1. /\ checked.ip \in Ips /\ checked.seen \in 0..now
      BY <1>4, HistoryTypes DEF AddIpConnection, LimiterInv, HistoryInOrder
    <3>2. Promise!ChargePacket(checked.ip, checked.seen)
      BY <1>4, <2>1, ChargeLeavesRoom DEF AddIpConnection, Promise!ChargePacket
    <3> QED
      BY <3>1, <3>2 DEF Promise!Next
  <2>2. CASE ~(checked.ip \notin ExcludedIps /\ Counts(checked.ip, ipMap))
    BY <1>4, <2>2 DEF AddIpConnection, Promise!vars
  <2> QED
    BY <2>1, <2>2
<1>5. CASE UNCHANGED vars
  BY <1>5 DEF vars, Promise!vars
<1> QED
  BY <1>1, <1>2, <1>3, <1>4, <1>5 DEF Next

(***************************************************************************)
(* The limiter of utils.cpp implements RateLimit: it counts a packet only  *)
(* where the window has room and refuses one only after Limit charges that *)
(* no whole window interrupts.                                             *)
(***************************************************************************)
THEOREM LimiterKeepsPromise == Spec => KeepsPromise
<1>1. Init => Promise!Init
  BY InitKeepsPromise
<1>2. LimiterInv /\ [Next]_vars => [Promise!Next]_(Promise!vars)
  BY NextKeepsPromise
<1> QED
  BY <1>1, <1>2, LimiterInvariant, PTL DEF Spec, KeepsPromise, Promise!Spec

------------------------------------------------------------------------------
LEMMA CountedKeepsLimit ==
  ASSUME LimiterInv, WindowLimit, checked # NoPacket,
         checked.ip \notin ExcludedIps,
         charges' = [charges EXCEPT
                       ![checked.ip] = Append(@, [seen |-> checked.seen, at |-> now])]
  PROVE  WindowLimit'
<1> DEFINE ip == checked.ip
           s == charges[ip]
           n == Len(s)
           e == [seen |-> checked.seen, at |-> now]
           t == Append(s, e)
<1>1. /\ ip \in Ips /\ s \in Seq(Charge) /\ e \in Charge
      /\ charges \in [Ips -> Seq(Charge)]
      /\ checked.seen \in Nat /\ now \in Nat
  BY HistoryTypes DEF LimiterInv, TypeOK, Charge
<1>2. /\ n \in Nat
      /\ Len(t) = n + 1
      /\ \A k \in 1..n : t[k] = s[k]
      /\ t[n + 1] = e
  BY <1>1, AppendedCharge
<1>3. /\ charges'[ip] = t
      /\ \A i \in Ips \ {ip} : charges'[i] = charges[i]
  BY <1>1
<1>4. \A k \in 1..n : s[k].seen \in Nat /\ s[k].at \in Nat
  BY <1>1, ChargesOfSeq
<1>5. /\ \A k \in 1..n : \A j \in k..n : s[k].at <= s[j].at
      /\ checked.seen <= now
  BY DEF LimiterInv, HistoryInOrder, InOrder
<1>6. n >= Limit => checked.seen - s[n - Limit + 1].at >= Window
  BY ChargeLeavesRoom
<1>7. \A i, j \in 1..n : j - i >= Limit => s[j].at - s[i].at >= Window
  BY <1>1 DEF WindowLimit, Promise!WindowLimit
<1>8. e.at = now
  OBVIOUS
<1> HIDE DEF t, s, n, e
<1>9. ASSUME NEW i \in 1..(n + 1), NEW j \in 1..(n + 1), j - i >= Limit
      PROVE  t[j].at - t[i].at >= Window
  <2>1. i \in 1..n /\ t[i] = s[i]
    BY <1>2, <1>9, LimitAndWindow
  <2>2. CASE j \in 1..n
    BY <1>2, <1>7, <1>9, <2>1, <2>2
  <2>3. CASE j = n + 1
    <3>1. /\ n >= Limit /\ n - Limit + 1 \in 1..n
          /\ n - Limit + 1 \in i..n
      BY <1>2, <1>9, <2>1, <2>3, LimitAndWindow
    <3>2. s[i].at <= s[n - Limit + 1].at
      BY <1>5, <2>1, <3>1
    <3>3. now - s[i].at >= Window
      <4>1. checked.seen - s[n - Limit + 1].at >= Window
        BY <1>6, <3>1
      <4>2. s[i].at \in Nat /\ s[n - Limit + 1].at \in Nat
        BY <1>4, <2>1, <3>1
      <4>3. checked.seen \in Nat /\ checked.seen <= now /\ now \in Nat
        BY <1>1, <1>5
      <4>4. checked.seen - s[i].at >= Window
        BY <3>2, <4>1, <4>2, <4>3, LimitAndWindow
      <4> QED
        BY <4>2, <4>3, <4>4, LimitAndWindow
    <3> QED
      BY <1>2, <1>8, <2>1, <2>3, <3>3
  <2> QED
    BY <1>2, <2>2, <2>3
<1>10. ASSUME NEW a \in Ips, NEW i \in 1..Len(charges'[a]),
              NEW j \in 1..Len(charges'[a]), j - i >= Limit
       PROVE  charges'[a][j].at - charges'[a][i].at >= Window
  <2>1. CASE a = ip
    BY <1>2, <1>3, <1>9, <1>10, <2>1
  <2>2. CASE a # ip
    BY <1>3, <1>10, <2>2 DEF WindowLimit, Promise!WindowLimit
  <2> QED
    BY <2>1, <2>2
<1> QED
  BY <1>10 DEF WindowLimit, Promise!WindowLimit

(***************************************************************************)
(* However packets of an address are spaced, no Limit + 1 of them are      *)
(* counted within max_connections_per_ip's window.                         *)
(***************************************************************************)
THEOREM LimitHolds == Spec => []WindowLimit
<1>1. Init => WindowLimit
  BY DEF Init, WindowLimit, Promise!WindowLimit
<1>2. LimiterInv /\ WindowLimit /\ [Next]_vars => WindowLimit'
  <2> SUFFICES ASSUME LimiterInv, WindowLimit, [Next]_vars
               PROVE  WindowLimit'
    OBVIOUS
  <2>1. CASE UNCHANGED charges
    BY <2>1 DEF WindowLimit, Promise!WindowLimit
  <2>2. CASE AddIpConnection /\ ~UNCHANGED charges
    BY <2>2, CountedKeepsLimit DEF AddIpConnection
  <2>3. UNCHANGED charges \/ AddIpConnection
    BY DEF Next, vars, Tick, CheckExcluded, CheckAdmits, CheckRefuses
  <2> QED
    BY <2>1, <2>2, <2>3
<1> QED
  BY <1>1, <1>2, LimiterInvariant, PTL DEF Spec
==============================================================================
