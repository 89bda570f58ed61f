------------------------------ MODULE IpLimiter ------------------------------
(***************************************************************************)
(* The per-address limiter of the UDP proxy: isIpBlocked and               *)
(* addIpConnection of src/utils.cpp, called one after the other for every  *)
(* packet by UdpProxy::handleIncomingPacket.  Each call reads              *)
(* steady_clock of its own, so time may pass between the two.              *)
(***************************************************************************)
EXTENDS Integers, Sequences, Functions

CONSTANTS
  Ips,                   \* addresses packets come from
  ExcludedIps,           \* Config::excludedIps
  MaxConnections,        \* Config::maxConnectionsPerIp, any int of the JSON
  BlockDurationSeconds,  \* Config::blockDurationMinutes * 60
  TicksPerSecond,        \* resolution of steady_clock
  MaxTime,               \* bound of the clock
  NoPacket               \* no packet is between the two calls

(***************************************************************************)
(* loadConfig checks no range: a maxConnectionsPerIp of 0 or less is a     *)
(* configuration the program runs with.  A negative block duration is left *)
(* out.                                                                    *)
(***************************************************************************)
ASSUME IpLimiterAssumption ==
  /\ ExcludedIps \subseteq Ips
  /\ MaxConnections \in Int
  /\ BlockDurationSeconds \in Nat
  /\ TicksPerSecond \in Nat \ {0}
  /\ MaxTime \in Nat
  /\ NoPacket \notin [ip : Ips, seen : Nat]

VARIABLES
  now,              \* steady_clock, in ticks
  ipMap,            \* UdpProxy::ipMap: address -> [count, last]
  totalConnections, \* the counter of the same name
  checked,          \* the packet isIpBlocked let through: [ip, seen]
  charges,          \* history: every counted packet, per address
  refusedAt         \* history: when a packet was last refused, per address

vars == <<now, ipMap, totalConnections, checked, charges, refusedAt>>

Entry == [count : Nat, last : Nat]
Check == [ip : Ips, seen : Nat]
Charge == [seen : Nat, at : Nat]  \* when isIpBlocked and addIpConnection read the clock

TypeOK ==
  /\ now \in Nat
  /\ ipMap \in [DOMAIN ipMap -> Entry]
  /\ DOMAIN ipMap \subseteq Ips \ ExcludedIps
  /\ totalConnections \in Nat
  /\ checked \in Check \cup {NoPacket}
  /\ charges \in [Ips -> Seq(Charge)]
  /\ refusedAt \in [Ips -> Nat \cup {-1}]

(* Mutation of Expired: the comparison includes the block duration itself. *)
ExpiredAtDuration(entry, t) ==
  (t - entry.last) \div TicksPerSecond >= BlockDurationSeconds

(***************************************************************************)
(* duration_cast<seconds> truncates: an entry lives for the whole of the   *)
(* second numbered BlockDurationSeconds.                                   *)
(***************************************************************************)
Expired(entry, t) == (t - entry.last) \div TicksPerSecond > BlockDurationSeconds

(* The loop of isIpBlocked that erases the expired entries of all addresses. *)
Purge(map, t) == Restrict(map, {ip \in DOMAIN map : ~Expired(map[ip], t)})

(* The verdict of isIpBlocked on the purged table. *)
Blocked(ip, map) == ip \in DOMAIN map /\ map[ip].count >= MaxConnections

(* Whether addIpConnection counts the packet. *)
Counts(ip, map) == ip \in DOMAIN map => map[ip].count < MaxConnections

(* Mutation of Count: the time of an existing entry is not renewed. *)
CountKeepsTime(ip, map, t) ==
  [i \in DOMAIN map \cup {ip} |->
     IF i # ip THEN map[i]
     ELSE IF ip \in DOMAIN map THEN [map[ip] EXCEPT !.count = @ + 1]
     ELSE [count |-> 1, last |-> t]]

(* The table addIpConnection leaves when it counts the packet. *)
Count(ip, map, t) ==
  LET n == IF ip \in DOMAIN map THEN map[ip].count ELSE 0
  IN  [i \in DOMAIN map \cup {ip} |->
         IF i = ip THEN [count |-> n + 1, last |-> t] ELSE map[i]]

Init ==
  /\ now = 0
  /\ ipMap = <<>>
  /\ totalConnections = 0
  /\ checked = NoPacket
  /\ charges = [ip \in Ips |-> <<>>]
  /\ refusedAt = [ip \in Ips |-> -1]

Tick ==
  /\ now < MaxTime
  /\ now' = now + 1
  /\ UNCHANGED <<ipMap, totalConnections, checked, charges, refusedAt>>

(* isIpBlocked of an excluded address returns before it purges. *)
CheckExcluded(ip) ==
  /\ checked = NoPacket
  /\ ip \in ExcludedIps
  /\ checked' = [ip |-> ip, seen |-> now]
  /\ UNCHANGED <<now, ipMap, totalConnections, charges, refusedAt>>

(* isIpBlocked returns false: the handler goes on to addIpConnection. *)
CheckAdmits(ip) ==
  /\ checked = NoPacket
  /\ ip \notin ExcludedIps
  /\ ~Blocked(ip, Purge(ipMap, now))
  /\ ipMap' = Purge(ipMap, now)
  /\ checked' = [ip |-> ip, seen |-> now]
  /\ UNCHANGED <<now, totalConnections, charges, refusedAt>>

(* Mutation of CheckRefuses: a refused packet renews the entry. *)
CheckRefusesRenewing(ip) ==
  /\ checked = NoPacket
  /\ ip \notin ExcludedIps
  /\ Blocked(ip, Purge(ipMap, now))
  /\ ipMap' = [Purge(ipMap, now) EXCEPT ![ip].last = now]
  /\ refusedAt' = [refusedAt EXCEPT ![ip] = now]
  /\ UNCHANGED <<now, totalConnections, checked, charges>>

(* isIpBlocked returns true: the handler returns, nothing is counted. *)
CheckRefuses(ip) ==
  /\ checked = NoPacket
  /\ ip \notin ExcludedIps
  /\ Blocked(ip, Purge(ipMap, now))
  /\ ipMap' = Purge(ipMap, now)
  /\ refusedAt' = [refusedAt EXCEPT ![ip] = now]
  /\ UNCHANGED <<now, totalConnections, checked, charges>>

(* addIpConnection of the packet isIpBlocked let through. *)
AddIpConnection ==
  /\ checked # NoPacket
  /\ checked' = NoPacket
  /\ LET ip == checked.ip IN
     IF ip \notin ExcludedIps /\ Counts(ip, ipMap)
     THEN /\ ipMap' = Count(ip, ipMap, now)
          /\ totalConnections' = totalConnections + 1
          /\ charges' = [charges EXCEPT
                           ![ip] = Append(@, [seen |-> checked.seen, at |-> now])]
     ELSE UNCHANGED <<ipMap, totalConnections, charges>>
  /\ UNCHANGED <<now, refusedAt>>

Next ==
  \/ Tick
  \/ \E ip \in Ips : CheckExcluded(ip) \/ CheckAdmits(ip) \/ CheckRefuses(ip)
  \/ AddIpConnection

Spec == Init /\ [][Next]_vars

------------------------------------------------------------------------------
(***************************************************************************)
(* The promise.  A maximum below 1 still lets one packet per window in:    *)
(* addIpConnection enters a new address without looking at the maximum.    *)
(* An age of BlockDurationSeconds is not yet expired whatever its fraction *)
(* of a second, so the window is one second longer than configured.        *)
(***************************************************************************)
Limit == IF MaxConnections >= 1 THEN MaxConnections ELSE 1
Window == (BlockDurationSeconds + 1) * TicksPerSecond

Promise == INSTANCE RateLimit

(***************************************************************************)
(* The table, with its lazy purging, two clock reads per packet and        *)
(* truncated ages, keeps the promise of RateLimit: every counted packet    *)
(* and every refusal of utils.cpp:68-124 is one RateLimit allows.          *)
(***************************************************************************)
KeepsPromise == Promise!Spec

(***************************************************************************)
(* No more than Limit packets of one address are counted in any window     *)
(* (config.json: max_connections_per_ip per block_duration_minutes).       *)
(***************************************************************************)
WindowLimit == Promise!WindowLimit

(* The last c charges of s follow each other within a window, those before do not. *)
IsRun(s, c) ==
  LET n == Len(s) IN
  /\ c \in 1..n
  /\ n > c => s[n - c + 1].seen - s[n - c].at >= Window
  /\ \A k \in (n - c + 1)..(n - 1) : s[k + 1].seen - s[k].at < Window

(* The charges of s are in the order of the clock and none is after time. *)
InOrder(s, time) ==
  \A i \in 1..Len(s) :
     /\ s[i].seen <= s[i].at
     /\ s[i].at <= time
     /\ \A j \in i..Len(s) : s[i].seen <= s[j].seen /\ s[i].at <= s[j].at

(* A packet looked at now would be the first of ip, or the first for a window. *)
Silent(ip, time) ==
  LET s == charges[ip] IN Len(s) > 0 => time - s[Len(s)].at >= Window

(***************************************************************************)
(* Why the promise is kept.  The count in the table is the length of the   *)
(* run of charges that no whole window interrupts; an address without an   *)
(* entry has had a whole window of silence; and what isIpBlocked saw still *)
(* holds when addIpConnection acts on it, however late that is.            *)
(***************************************************************************)
TableMatchesHistory ==
  \A ip \in DOMAIN ipMap :
    /\ IsRun(charges[ip], ipMap[ip].count)
    /\ ipMap[ip].count <= Limit
    /\ ipMap[ip].last = charges[ip][Len(charges[ip])].at

SilenceIfAbsent == \A ip \in Ips \ DOMAIN ipMap : Silent(ip, now)

VerdictHolds ==
  checked # NoPacket /\ checked.ip \notin ExcludedIps =>
    LET ip == checked.ip IN
    IF ip \in DOMAIN ipMap
    THEN /\ ipMap[ip].count < MaxConnections
         /\ checked.seen - ipMap[ip].last < Window
    ELSE Silent(ip, checked.seen)

HistoryInOrder ==
  /\ \A ip \in Ips : InOrder(charges[ip], now)
  /\ checked # NoPacket =>
        checked.seen <= now /\ InOrder(charges[checked.ip], checked.seen)

(* The inductive invariant of the limiter. *)
LimiterInv ==
  /\ TypeOK
  /\ HistoryInOrder
  /\ TableMatchesHistory
  /\ SilenceIfAbsent
  /\ VerdictHolds
==============================================================================
