---------------------------- MODULE LoggingProofs ----------------------------
(***************************************************************************)
(* Proofs about Logging, for any number of threads and of processes, and   *)
(* any calendar.                                                           *)
(***************************************************************************)
EXTENDS Logging, SequenceTheorems, WellFoundedInduction, TLAPS

(***************************************************************************)
(* Fields of times.                                                        *)
(***************************************************************************)
LEMMA WithinGrows ==
  ASSUME NEW fields, NEW first \in Nat, NEW last \in Nat, NEW later \in Nat,
         last <= later, AreWithin(fields, first, last)
  PROVE  AreWithin(fields, first, later)
<1>1. \A t \in first..last : t \in first..later
  OBVIOUS
<1>2. QED
  BY <1>1 DEF AreWithin

LEMMA WithinAppend ==
  ASSUME NEW fields \in Seq(Nat), NEW first \in Nat, NEW last \in Nat, NEW v \in Nat,
         AreWithin(fields, first, last), NEW t \in first..last,
         v \in {Calendar[t][Len(fields) + 1], Universal[t][Len(fields) + 1]}
  PROVE  AreWithin(Append(fields, v), first, last)
<1>1. SUFFICES ASSUME NEW f \in DOMAIN Append(fields, v)
               PROVE  \E u \in first..last :
                        Append(fields, v)[f] \in {Calendar[u][f], Universal[u][f]}
  BY DEF AreWithin
<1>2. CASE f = Len(fields) + 1
  BY <1>2
<1>3. CASE f # Len(fields) + 1
  <2>1. f \in DOMAIN fields /\ Append(fields, v)[f] = fields[f]
    BY <1>1, <1>3
  <2>2. QED
    BY <2>1 DEF AreWithin
<1>4. QED
  BY <1>2, <1>3

LEMMA FieldsOfTimes ==
  ASSUME NEW t \in Times, NEW f \in 1..Fields
  PROVE  Calendar[t][f] \in Nat /\ Universal[t][f] \in Nat
<1>1. Calendar[t] \in [1..Fields -> Nat] /\ Universal[t] \in [1..Fields -> Nat]
  BY LoggingAssumption
<1>2. QED
  BY <1>1

LEMMA SameFunction ==
  ASSUME NEW S, NEW T, NEW g \in [S -> T], NEW h \in [S -> T], \A x \in S : g[x] = h[x]
  PROVE  g = h
OBVIOUS

(* A sequence of so many fields, all of one time, are its fields. *)
LEMMA AllOfOneTime ==
  ASSUME NEW read \in Seq(Nat), NEW t \in Times,
         \A f \in DOMAIN read : read[f] = Calendar[t][f]
  PROVE  /\ Len(read) = Fields => read = Calendar[t]
         /\ Len(read) = DateFields => read = Date(t)
<1>1. read \in [1..Len(read) -> Nat]
  OBVIOUS
<1>2. CASE Len(read) = Fields
  <2>1. Calendar[t] \in [1..Fields -> Nat]
    BY LoggingAssumption
  <2>2. read \in [1..Fields -> Nat] /\ \A f \in 1..Fields : read[f] = Calendar[t][f]
    BY <1>1, <1>2
  <2>3. read = Calendar[t]
    <3> DEFINE S == 1..Fields
               h == Calendar[t]
    <3>1. h \in [S -> Nat] /\ read \in [S -> Nat] /\ \A f \in S : read[f] = h[f]
      BY <2>1, <2>2
    <3> HIDE DEF S, h
    <3>2. read = h
      BY <3>1, SameFunction
    <3>3. QED
      BY <3>2 DEF h
  <2>4. DateFields = Fields => read = Date(t)
    <3>1. ASSUME DateFields = Fields PROVE read = [f \in 1..DateFields |-> Calendar[t][f]]
      BY <2>1, <2>3, <3>1
    <3>2. QED
      BY <3>1 DEF Date
  <2>5. QED
    BY <1>2, <2>3, <2>4
<1>3. CASE Len(read) = DateFields
  <2>1. read \in [1..DateFields -> Nat] /\ \A f \in 1..DateFields : read[f] = Calendar[t][f]
    BY <1>1, <1>3
  <2>2. Date(t) \in [1..DateFields -> Nat] /\ \A f \in 1..DateFields : read[f] = Date(t)[f]
    BY <2>1, LoggingAssumption, FieldsOfTimes DEF Date
  <2>3. read = Date(t)
    <3> DEFINE S == 1..DateFields
               h == Date(t)
    <3>1. h \in [S -> Nat] /\ read \in [S -> Nat] /\ \A f \in S : read[f] = h[f]
      BY <2>1, <2>2
    <3> HIDE DEF S, h
    <3>2. read = h
      BY <3>1, SameFunction
    <3>3. QED
      BY <3>2 DEF h
  <2>4. QED
    BY <1>2, <1>3, <2>3
<1>4. QED
  BY <1>2, <1>3

(***************************************************************************)
(* The earliest of a set of times.                                         *)
(***************************************************************************)
LEMMA LeastNatural ==
  ASSUME NEW S, S \subseteq Nat, S # {}
  PROVE  \E x \in S : \A y \in S : x <= y
<1> DEFINE R == OpToRel(<, Nat)
<1>1. IsWellFoundedOn(R, Nat)
  BY NatLessThanWellFounded
<1>2. \A x, y \in S : y < x => <<y, x>> \in R
  BY DEF OpToRel
<1> HIDE DEF R
<1>3. \E x \in S : \A y \in S : ~(<<y, x>> \in R)
  BY <1>1, WFMin
<1>4. PICK x \in S : \A y \in S : ~(<<y, x>> \in R)
  BY <1>3
<1>5. \A y \in S : ~(y < x)
  BY <1>2, <1>4
<1>6. \A y \in S : x <= y
  BY <1>5
<1>7. QED
  BY <1>6

LEMMA MinOfTimes ==
  ASSUME NEW S, S \subseteq Nat, S # {}
  PROVE  Min(S) \in S /\ \A y \in S : Min(S) <= y
<1>1. \E x \in S : \A y \in S : x <= y
  BY LeastNatural
<1>2. QED
  BY <1>1 DEF Min

------------------------------------------------------------------------------
------------------------------------------------------------------------------
IndInv ==
  TypeOK /\ TimesAreRecent /\ FieldsAreRecent /\ AloneFindsItsOwn /\ AloneIsExact

LEMMA InitLogging == ASSUME Init PROVE IndInv
<1>1. 0 \in Times
  BY LoggingAssumption DEF Times
<1>2. TypeOK
  BY <1>1 DEF Init, TypeOK
<1>3. TimesAreRecent /\ FieldsAreRecent /\ AloneFindsItsOwn /\ AloneIsExact
  BY DEF Init, TimesAreRecent, FieldsAreRecent, AloneFindsItsOwn, AloneIsExact
<1>4. QED
  BY <1>2, <1>3 DEF IndInv

(* What the invariant says of a call under way. *)
LEMMA CallUnderWay ==
  ASSUME IndInv, NEW c \in Callers, call[c] # None
  PROVE  /\ call[c] \in Call
         /\ call[c].proc \in Processes
         /\ call[c].now \in Nat /\ call[c].began \in Nat /\ call[c].oldest \in Nat
         /\ call[c].now \in Times /\ clock \in Nat
         /\ FindsRecent(c)
BY LoggingAssumption DEF IndInv, TypeOK, TimesAreRecent, Call, Times

(* No line is written in a step: what is said of lines holds after it. *)
LEMMA NoLine ==
  ASSUME line' = None
  PROVE  FieldsAreRecent' /\ AloneIsExact' /\ line' \in Line \cup {None}
BY DEF FieldsAreRecent, AloneIsExact

(* The clock goes on: what was recent stays so. *)
LEMMA TickStep == ASSUME IndInv, Tick PROVE IndInv'
<1>1. /\ clock \in Nat /\ clock < MaxClock /\ clock' = clock + 1
      /\ line' = None /\ call' = call /\ tm' = tm
  BY LoggingAssumption DEF Tick, IndInv, TypeOK, Times
<1>2. clock' \in Times /\ clock <= clock' /\ clock' \in Nat
  BY <1>1, LoggingAssumption DEF Times
<1>3. TypeOK'
  BY <1>1, <1>2 DEF IndInv, TypeOK
<1>4. AloneFindsItsOwn'
  BY <1>1 DEF IndInv, AloneFindsItsOwn, FindsItsOwn, Calls
<1>5. TimesAreRecent'
  <2>1. \A p \in Processes : tm'[p] <= clock'
    BY <1>1, <1>2 DEF IndInv, TypeOK, TimesAreRecent, Times
  <2>2. ASSUME NEW c \in Callers, call'[c] # None PROVE FindsRecent(c)'
    <3>1. /\ call[c] # None /\ FindsRecent(c)
          /\ call[c].oldest \in Nat /\ call[c].now \in Nat
      BY <1>1, <2>2, CallUnderWay
    <3>2. /\ AreWithin(call[c].read, call[c].oldest, clock')
          /\ call[c].at \in {"stamp", "stamping"} =>
               AreWithin(call[c].file, call[c].oldest, clock')
      BY <1>1, <1>2, <3>1, WithinGrows DEF FindsRecent
    <3>3. call[c].now <= clock'
      BY <1>1, <1>2, <3>1 DEF FindsRecent
    <3>4. QED
      BY <1>1, <3>1, <3>2, <3>3 DEF FindsRecent, Calls
  <2>3. QED
    BY <2>1, <2>2 DEF TimesAreRecent
<1>6. QED
  BY <1>1, <1>3, <1>4, <1>5, NoLine DEF IndInv

(***************************************************************************)
(* A call begins: it overlaps with all that are under way, and none of     *)
(* them is alone any more.                                                 *)
(***************************************************************************)
LEMMA BeginStep ==
  ASSUME IndInv, NEW c \in Callers, NEW p \in Processes, Begin(c, p)
  PROVE  IndInv'
<1> DEFINE others == Calls(p)
           began  == {clock} \cup {call[o].began : o \in others}
           new    == [proc |-> p, at |-> "name", now |-> clock, read |-> <<>>,
                      file |-> [f \in 1..DateFields |-> 0],
                      began |-> clock, oldest |-> Min(began), alone |-> others = {}]
<1>1. /\ call[c] = None
      /\ call' = [d \in Callers |->
                    IF d = c THEN new
                    ELSE IF d \in others THEN [call[d] EXCEPT !.alone = FALSE]
                    ELSE call[d]]
      /\ line' = None /\ clock' = clock /\ tm' = tm
  BY DEF Begin
<1>2. \A o \in others : o \in Callers /\ call[o] # None /\ call[o].proc = p /\ o # c
  BY <1>1 DEF Calls
<1>3. clock \in Nat /\ clock \in Times
  BY LoggingAssumption DEF IndInv, TypeOK, Times
<1>4. \A o \in others : call[o].began \in Nat /\ call[o].began \in Times
  BY <1>2, LoggingAssumption DEF IndInv, TypeOK, Call, Times
<1>5. began \subseteq Nat /\ began # {} /\ began \subseteq Times
  BY <1>3, <1>4
<1>6. Min(began) \in began /\ \A t \in began : Min(began) <= t
  BY <1>5, MinOfTimes
<1>7. /\ Min(began) \in Times /\ Min(began) \in Nat /\ Min(began) <= clock
      /\ \A o \in others : Min(began) <= call[o].began
  BY <1>5, <1>6
<1> HIDE DEF others, began
<1>8. new \in Call
  BY <1>3, <1>7, LoggingAssumption DEF Call
<1>9. \A d \in Callers \ {c} :
        /\ call'[d] # None => call[d] # None
        /\ call[d] # None =>
             /\ call'[d] \in Call
             /\ call'[d].proc = call[d].proc /\ call'[d].at = call[d].at
             /\ call'[d].now = call[d].now /\ call'[d].file = call[d].file
             /\ call'[d].read = call[d].read
             /\ call'[d].began = call[d].began /\ call'[d].oldest = call[d].oldest
             /\ call'[d].alone => call[d].alone /\ d \notin others
  <2> SUFFICES ASSUME NEW d \in Callers \ {c}
               PROVE  /\ call'[d] # None => call[d] # None
                      /\ call[d] # None =>
                           /\ call'[d] \in Call
                           /\ call'[d].proc = call[d].proc /\ call'[d].at = call[d].at
                           /\ call'[d].now = call[d].now /\ call'[d].file = call[d].file
                           /\ call'[d].read = call[d].read
                           /\ call'[d].began = call[d].began
                           /\ call'[d].oldest = call[d].oldest
                           /\ call'[d].alone => call[d].alone /\ d \notin others
    OBVIOUS
  <2>1. CASE d \in others
    <3>1. call[d] # None /\ call[d] \in Call
      BY <1>2, <2>1, CallUnderWay
    <3>2. call'[d] = [call[d] EXCEPT !.alone = FALSE]
      BY <1>1, <2>1
    <3>3. QED
      BY <3>1, <3>2 DEF Call
  <2>2. CASE d \notin others
    <3>1. call'[d] = call[d]
      BY <1>1, <2>2
    <3>2. QED
      BY <2>2, <3>1, CallUnderWay
  <2>3. QED
    BY <2>1, <2>2
<1>10. call'[c] = new
  BY <1>1
<1>11. \A q \in Processes : \A d \in Calls(q)' : (d = c /\ q = p) \/ (d \in Calls(q) /\ d # c)
  BY <1>9, <1>10 DEF Calls
<1>12. TypeOK'
  <2>1. call' \in [Callers -> Call \cup {None}]
    BY <1>1, <1>8, <1>9, <1>10 DEF IndInv, TypeOK
  <2>2. QED
    BY <1>1, <2>1 DEF IndInv, TypeOK
<1>13. FieldsAreRecent' /\ AloneIsExact'
  BY <1>1, NoLine
<1>14. TimesAreRecent'
  <2>1. \A q \in Processes : tm'[q] <= clock'
    BY <1>1 DEF IndInv, TimesAreRecent
  <2>2. FindsRecent(c)'
    <3>1. \A e \in others : Min(began) <= call'[e].now
      <4> SUFFICES ASSUME NEW e \in others PROVE Min(began) <= call'[e].now
        OBVIOUS
      <4>1. call'[e].now = call[e].now /\ call[e].began <= call[e].now
        BY <1>2, <1>9 DEF IndInv, TimesAreRecent, FindsRecent
      <4>2. call[e].began \in Nat /\ call[e].now \in Nat
        BY <1>2, CallUnderWay
      <4>3. QED
        BY <1>7, <4>1, <4>2
    <3>2. \A e \in Calls(p)' : e = c \/ e \in others
      BY <1>11 DEF others
    <3>3. \A e \in Calls(p)' : Min(began) <= call'[e].now
      BY <1>7, <1>10, <3>1, <3>2
    <3>4. QED
      BY <1>1, <1>3, <1>7, <1>10, <3>3 DEF FindsRecent, Calls, AreWithin
  <2>3. ASSUME NEW d \in Callers, d # c, call'[d] # None PROVE FindsRecent(d)'
    <3>1. PICK q \in Processes : q = call[d].proc
      BY <1>9, <2>3, CallUnderWay
    <3>2. call[d] # None /\ call[d].oldest \in Nat
      BY <1>9, <2>3, CallUnderWay
    <3>3. /\ call'[d].proc = q /\ call'[d].at = call[d].at
          /\ call'[d].now = call[d].now /\ call'[d].file = call[d].file
          /\ call'[d].read = call[d].read
          /\ call'[d].began = call[d].began /\ call'[d].oldest = call[d].oldest
      BY <1>9, <2>3, <3>1, <3>2
    <3>4. FindsRecent(d)
      BY <3>2 DEF IndInv, TimesAreRecent
    <3>5. \A e \in Calls(q)' : call[d].oldest <= call'[e].now
      <4> SUFFICES ASSUME NEW e \in Calls(q)' PROVE call[d].oldest <= call'[e].now
        OBVIOUS
      <4>1. CASE e = c
        <5>1. call[d].oldest <= clock /\ call'[c].now = clock
          BY <1>3, <1>10, <3>2, <3>4, CallUnderWay DEF FindsRecent
        <5>2. QED
          BY <4>1, <5>1
      <4>2. CASE e # c
        <5>1. e \in Calls(q) /\ e \in Callers /\ call[e] # None
          BY <1>11, <4>2 DEF Calls
        <5>2. call'[e].now = call[e].now
          BY <1>9, <4>2, <5>1
        <5>3. QED
          BY <3>1, <3>4, <5>1, <5>2 DEF FindsRecent
      <4>3. QED
        BY <4>1, <4>2
    <3>6. QED
      BY <1>1, <3>1, <3>3, <3>4, <3>5 DEF FindsRecent, Calls
  <2>4. QED
    BY <2>1, <2>2, <2>3 DEF TimesAreRecent
<1>15. AloneFindsItsOwn'
  <2>1. ASSUME call'[c] # None, call'[c].alone PROVE FindsItsOwn(c)'
    <3>1. call'[c].alone = (others = {}) /\ call'[c].proc = p /\ call'[c].at = "name"
      BY <1>10
    <3>2. others = {}
      BY <2>1, <3>1, Zenon
    <3>3. Calls(p)' = {c}
      BY <1>11, <2>1, <3>1, <3>2 DEF others, Calls
    <3>4. \A f \in DOMAIN call'[c].read : FALSE
      BY <1>10
    <3>5. QED
      BY <3>1, <3>3, <3>4 DEF FindsItsOwn, Calls
  <2>2. ASSUME NEW d \in Callers, d # c, call'[d] # None, call'[d].alone
        PROVE  FindsItsOwn(d)'
    <3>1. call[d] # None
      BY <1>9, <2>2
    <3>2. PICK q \in Processes : q = call[d].proc
      BY <3>1, CallUnderWay
    <3>3. /\ call[d].alone /\ d \notin others
          /\ call'[d].proc = q /\ call'[d].at = call[d].at
          /\ call'[d].now = call[d].now /\ call'[d].file = call[d].file
          /\ call'[d].read = call[d].read
          /\ call'[d].began = call[d].began
      BY <1>9, <2>2, <3>1, <3>2
    <3>4. q # p /\ FindsItsOwn(d)
      BY <3>1, <3>2, <3>3 DEF others, Calls, IndInv, AloneFindsItsOwn
    <3>5. Calls(q)' \subseteq Calls(q) /\ d \in Calls(q)'
      BY <1>11, <2>2, <3>3, <3>4 DEF Calls
    <3>6. Calls(q) = {d}
      BY <3>2, <3>4 DEF FindsItsOwn
    <3>7. Calls(q)' = {d}
      BY <3>5, <3>6
    <3>8. /\ call'[d].at \in {"naming", "stamping"} => tm'[q] = call'[d].now
          /\ \A f \in DOMAIN call'[d].read : call'[d].read[f] = Calendar[call'[d].now][f]
          /\ call'[d].at \in {"stamp", "stamping"} =>
               \E t \in call'[d].began..call'[d].now : call'[d].file = Date(t)
      BY <1>1, <3>2, <3>3, <3>4 DEF FindsItsOwn
    <3> HIDE DEF new
    <3>9. QED
      BY <3>3, <3>7, <3>8 DEF FindsItsOwn, Calls
  <2>3. QED
    BY <2>1, <2>2 DEF AloneFindsItsOwn
<1>16. QED
  BY <1>12, <1>13, <1>14, <1>15 DEF IndInv

(***************************************************************************)
(* A call goes on: its record becomes own, in which it is recent and, when *)
(* it is alone, its own; nothing else of its process changes but tm, where *)
(* its time may be stored.  That disturbs no other call.                   *)
(***************************************************************************)
IsRecent(own, stored) ==
  /\ own.now <= clock
  /\ own.at # "name" => own.oldest <= stored
  /\ AreWithin(own.read, own.oldest, clock)
  /\ own.at \in {"stamp", "stamping"} => AreWithin(own.file, own.oldest, clock)

IsItsOwn(own, stored) ==
  /\ own.at \in {"naming", "stamping"} => stored = own.now
  /\ \A f \in DOMAIN own.read : own.read[f] = Calendar[own.now][f]
  /\ own.at \in {"stamp", "stamping"} =>
       \E t \in own.began..own.now : own.file = Date(t)

Continues(c, own) ==
  /\ own \in Call
  /\ own.proc = call[c].proc /\ own.began = call[c].began
  /\ own.oldest = call[c].oldest /\ own.alone = call[c].alone
  /\ call[c].now <= own.now

(* The record of a call is recent and its own in the sense of IndInv. *)
LEMMA UnderWayIs ==
  ASSUME IndInv, NEW c \in Callers, call[c] # None
  PROVE  /\ IsRecent(call[c], tm[call[c].proc])
         /\ call[c].alone => /\ IsItsOwn(call[c], tm[call[c].proc])
                             /\ Calls(call[c].proc) = {c}
         /\ call[c].began <= call[c].now
BY CallUnderWay DEF IsRecent, IsItsOwn, FindsRecent, FindsItsOwn, IndInv, AloneFindsItsOwn

LEMMA CallContinues ==
  ASSUME IndInv, NEW c \in Callers, call[c] # None, NEW own, Continues(c, own),
         call' = [call EXCEPT ![c] = own], clock' = clock, line' = None,
         tm' = tm \/ tm' = [tm EXCEPT ![call[c].proc] = call[c].now],
         IsRecent(own, tm'[call[c].proc]),
         own.alone => IsItsOwn(own, tm'[call[c].proc])
  PROVE  IndInv'
<1> DEFINE p == call[c].proc
<1>1. /\ call[c] \in Call /\ p \in Processes
      /\ call[c].now \in Nat /\ call[c].began \in Nat /\ call[c].oldest \in Nat
      /\ call[c].now \in Times /\ clock \in Nat /\ FindsRecent(c)
  BY CallUnderWay
<1>2. /\ call \in [Callers -> Call \cup {None}] /\ tm \in [Processes -> Times]
  BY DEF IndInv, TypeOK
<1>3. /\ own \in Call /\ own.proc = p /\ own.began = call[c].began
      /\ own.oldest = call[c].oldest /\ own.alone = call[c].alone
      /\ call[c].now <= own.now /\ own.now \in Nat
  BY LoggingAssumption DEF Continues, Call, Times
<1>4. call'[c] = own /\ \A d \in Callers : d # c => call'[d] = call[d]
  BY <1>2
<1>5. /\ \A q \in Processes : tm'[q] = tm[q] \/ (q = p /\ tm'[q] = call[c].now)
      /\ tm' \in [Processes -> Times]
  BY <1>1, <1>2
<1>6. c \in Calls(p)
  BY DEF Calls
<1>7. \A q \in Processes : \A d \in Calls(q)' : d \in Calls(q)
  BY <1>3, <1>4 DEF Calls
<1> HIDE DEF p
<1>8. TypeOK'
  <2>1. call' \in [Callers -> Call \cup {None}]
    BY <1>2, <1>3
  <2>2. QED
    BY <1>5, <2>1, NoLine DEF IndInv, TypeOK
<1>9. TimesAreRecent'
  <2>1. \A q \in Processes : tm'[q] <= clock'
    BY <1>1, <1>5 DEF IndInv, TimesAreRecent, FindsRecent
  <2>2. ASSUME NEW d \in Callers, call'[d] # None PROVE FindsRecent(d)'
    <3>1. call[d] # None
      BY <1>4, <2>2
    <3>2. PICK q \in Processes : q = call[d].proc
      BY <3>1, CallUnderWay
    <3>3. FindsRecent(d) /\ call[d].oldest \in Nat
      BY <3>1, CallUnderWay
    <3>4. call'[d].proc = q
      BY <1>3, <1>4, <3>2 DEF p
    <3>5. \A e \in Calls(q)' : call[d].oldest <= call'[e].now
      <4> SUFFICES ASSUME NEW e \in Calls(q)' PROVE call[d].oldest <= call'[e].now
        OBVIOUS
      <4>1. e \in Calls(q) /\ e \in Callers /\ call[e] # None
        BY <1>7 DEF Calls
      <4>2. call[d].oldest <= call[e].now /\ call[e].now \in Nat
        BY <3>2, <3>3, <4>1, CallUnderWay DEF FindsRecent
      <4>3. CASE e = c
        BY <1>1, <1>3, <1>4, <3>3, <4>2, <4>3
      <4>4. CASE e # c
        BY <1>4, <4>1, <4>2, <4>4
      <4>5. QED
        BY <4>3, <4>4
    <3>6. CASE d = c
      <4>1. /\ own.oldest <= own.began /\ own.began <= own.now
            /\ IsRecent(own, tm'[q]) /\ q = p
        BY <1>1, <1>3, <3>2, <3>6 DEF FindsRecent, p
      <4>2. QED
        BY <1>3, <1>4, <3>4, <3>5, <3>6, <4>1 DEF FindsRecent, IsRecent, Calls
    <3>7. CASE d # c
      <4>1. call[d].at # "name" => call[d].oldest <= tm'[q]
        <5>1. CASE tm'[q] = tm[q]
          BY <3>2, <3>3, <5>1 DEF FindsRecent
        <5>2. CASE q = p /\ tm'[q] = call[c].now
          BY <1>6, <3>2, <3>3, <5>2 DEF FindsRecent
        <5>3. QED
          BY <1>5, <5>1, <5>2
      <4>2. call'[d] = call[d]
        BY <1>4, <3>7
      <4>3. QED
        BY <3>2, <3>3, <3>5, <4>1, <4>2 DEF FindsRecent, Calls
    <3>8. QED
      BY <3>6, <3>7
  <2>3. QED
    BY <2>1, <2>2 DEF TimesAreRecent
<1>10. AloneFindsItsOwn'
  <2> SUFFICES ASSUME NEW d \in Callers, call'[d] # None, call'[d].alone
               PROVE  FindsItsOwn(d)'
    BY DEF AloneFindsItsOwn
  <2>1. call[d] # None /\ call[d].alone
    BY <1>3, <1>4
  <2>2. PICK q \in Processes : q = call[d].proc
    BY <2>1, CallUnderWay
  <2>3. FindsItsOwn(d) /\ Calls(q) = {d}
    BY <2>1, <2>2 DEF IndInv, AloneFindsItsOwn, FindsItsOwn
  <2>4. call'[d].proc = q
    BY <1>3, <1>4, <2>2 DEF p
  <2>5. Calls(q)' = {d}
    BY <1>7, <2>3, <2>4 DEF Calls
  <2>6. CASE d = c
    <3>1. IsItsOwn(own, tm'[q]) /\ call'[d] = own
      BY <1>4, <2>2, <2>6
    <3>2. QED
      BY <2>4, <2>5, <3>1 DEF FindsItsOwn, IsItsOwn, Calls
  <2>7. CASE d # c
    <3>1. q # p
      BY <1>6, <2>3, <2>7
    <3>2. tm'[q] = tm[q] /\ call'[d] = call[d]
      BY <1>4, <1>5, <2>7, <3>1
    <3>3. QED
      BY <2>2, <2>3, <2>5, <3>2 DEF FindsItsOwn, Calls
  <2>8. QED
    BY <2>6, <2>7
<1>11. QED
  BY <1>8, <1>9, <1>10, NoLine DEF IndInv

(* A call converts the time it has read. *)
LEMMA ConvertStep == ASSUME IndInv, NEW c \in Callers, Convert(c) PROVE IndInv'
<1> DEFINE p  == call[c].proc
           to == IF call[c].at = "name" THEN "naming" ELSE "stamping"
           own == [call[c] EXCEPT !.at = to]
<1>1. /\ call[c] # None
      /\ call[c].at \in {"name", "stamp"}
      /\ tm' = [tm EXCEPT ![p] = call[c].now]
      /\ call' = [call EXCEPT ![c].at = to]
      /\ line' = None /\ clock' = clock
  BY DEF Convert, LocalTime
<1>2. /\ call[c] \in Call /\ p \in Processes /\ FindsRecent(c)
      /\ call[c].now \in Nat /\ call[c].oldest \in Nat /\ call[c].began \in Nat
      /\ IsRecent(call[c], tm[p])
      /\ call[c].alone => IsItsOwn(call[c], tm[p])
  BY <1>1, CallUnderWay, UnderWayIs
<1>3. call \in [Callers -> Call \cup {None}] /\ tm \in [Processes -> Times]
  BY DEF IndInv, TypeOK
<1>4. call' = [call EXCEPT ![c] = own]
  BY <1>1, <1>3
<1>5. tm'[p] = call[c].now
  BY <1>1, <1>2, <1>3
<1>6. /\ own.at = to /\ own.proc = p /\ own.now = call[c].now /\ own.read = call[c].read
      /\ own.file = call[c].file /\ own.began = call[c].began
      /\ own.oldest = call[c].oldest /\ own.alone = call[c].alone
      /\ own \in Call
      /\ to \in {"naming", "stamping"}
      /\ to = "stamping" => call[c].at = "stamp"
  BY <1>1, <1>2 DEF Call
<1> HIDE DEF own, to, p
<1>7. Continues(c, own)
  BY <1>2, <1>6 DEF Continues, p
<1>8. IsRecent(own, tm'[p])
  <2>1. call[c].oldest <= call[c].now
    BY <1>2 DEF FindsRecent
  <2>2. QED
    BY <1>2, <1>5, <1>6, <2>1 DEF IsRecent
<1>9. own.alone => IsItsOwn(own, tm'[p])
  BY <1>2, <1>5, <1>6 DEF IsItsOwn
<1>10. QED
  BY <1>1, <1>4, <1>7, <1>8, <1>9, CallContinues DEF p

(***************************************************************************)
(* Whatever strftime finds in a field of tm is of a time between the       *)
(* beginning of the oldest call this one overlaps with and now.            *)
(***************************************************************************)
LEMMA FoundIsRecent ==
  ASSUME IndInv, NEW c \in Callers, call[c] # None, call[c].at # "name",
         NEW f \in 1..Fields, NEW v \in Found(c, f)
  PROVE  /\ v \in Nat
         /\ \E t \in call[c].oldest..clock : v \in {Calendar[t][f], Universal[t][f]}
<1>1. /\ call[c].proc \in Processes /\ FindsRecent(c)
      /\ call[c].oldest \in Nat /\ clock \in Nat
  BY CallUnderWay
<1>2. PICK t \in Times : /\ call[c].oldest <= t /\ t <= clock
                         /\ v \in {Calendar[t][f], Universal[t][f]}
  <2>1. CASE v = Calendar[tm[call[c].proc]][f]
    <3>1. /\ tm[call[c].proc] \in Times
          /\ call[c].oldest <= tm[call[c].proc] /\ tm[call[c].proc] <= clock
      BY <1>1 DEF IndInv, TypeOK, TimesAreRecent, FindsRecent
    <3>2. QED
      BY <2>1, <3>1
  <2>2. ASSUME NEW d \in Storing(c), v \in {Calendar[call[d].now][f], Universal[call[d].now][f]}
        PROVE  \E t \in Times : /\ call[c].oldest <= t /\ t <= clock
                                /\ v \in {Calendar[t][f], Universal[t][f]}
    <3>1. d \in Callers /\ call[d] # None /\ d \in Calls(call[c].proc)
      BY DEF Storing, Calls
    <3>2. call[d].now \in Times /\ call[c].oldest <= call[d].now /\ call[d].now <= clock
      BY <1>1, <3>1, CallUnderWay DEF FindsRecent
    <3>3. QED
      BY <2>2, <3>2
  <2>3. QED
    BY <2>1, <2>2 DEF Found
<1>3. t \in Nat
  BY <1>2, LoggingAssumption DEF Times
<1>4. v \in Nat
  BY <1>2, FieldsOfTimes
<1>5. QED
  BY <1>1, <1>2, <1>3, <1>4

(* A call that is alone finds the fields of the time it read itself. *)
LEMMA FoundAlone ==
  ASSUME IndInv, NEW c \in Callers, call[c] # None, call[c].alone,
         call[c].at \in {"naming", "stamping"}, NEW f, NEW v \in Found(c, f)
  PROVE  v = Calendar[call[c].now][f]
<1>1. Calls(call[c].proc) = {c} /\ tm[call[c].proc] = call[c].now
  BY UnderWayIs DEF IsItsOwn
<1>2. Storing(c) = {}
  BY <1>1 DEF Storing
<1>3. QED
  BY <1>1, <1>2 DEF Found

(* strftime reads one more field. *)
LEMMA ReadStep == ASSUME IndInv, NEW c \in Callers, ReadField(c) PROVE IndInv'
<1> DEFINE p == call[c].proc
           n == Len(call[c].read) + 1
<1>1. /\ call[c] # None
      /\ call[c].at \in {"naming", "stamping"}
      /\ Len(call[c].read) < Wanted(c)
      /\ line' = None /\ clock' = clock /\ tm' = tm
  BY DEF ReadField
<1>2. PICK v \in Found(c, n) : call' = [call EXCEPT ![c].read = Append(@, v)]
  BY DEF ReadField
<1>3. /\ call[c] \in Call /\ p \in Processes /\ FindsRecent(c)
      /\ call[c].now \in Nat /\ call[c].oldest \in Nat /\ call[c].began \in Nat
      /\ clock \in Nat
      /\ IsRecent(call[c], tm[p])
      /\ call[c].alone => IsItsOwn(call[c], tm[p])
  BY <1>1, CallUnderWay, UnderWayIs
<1>4. call[c].read \in Seq(Nat)
  BY <1>3 DEF Call
<1>5. n \in 1..Fields
  BY <1>1, <1>4, LoggingAssumption DEF Wanted
<1>6. /\ v \in Nat
      /\ \E t \in call[c].oldest..clock : v \in {Calendar[t][n], Universal[t][n]}
  <2>1. call[c].at # "name"
    BY <1>1
  <2> HIDE DEF n
  <2>2. QED
    BY <1>1, <1>5, <2>1, FoundIsRecent
<1> DEFINE read == Append(call[c].read, v)
           own  == [call[c] EXCEPT !.read = read]
<1>7. read \in Seq(Nat)
  BY <1>4, <1>6
<1>8. call' = [call EXCEPT ![c] = own]
  <2>1. call \in [Callers -> Call \cup {None}]
    BY DEF IndInv, TypeOK
  <2>2. QED
    BY <1>2, <2>1
<1>9. AreWithin(read, call[c].oldest, clock)
  <2>1. AreWithin(call[c].read, call[c].oldest, clock)
    BY <1>3 DEF IsRecent
  <2>2. PICK t \in call[c].oldest..clock : v \in {Calendar[t][n], Universal[t][n]}
    BY <1>6
  <2>3. QED
    BY <1>3, <1>4, <1>6, <2>1, <2>2, WithinAppend
<1>10. call[c].alone => \A f \in DOMAIN read : read[f] = Calendar[call[c].now][f]
  <2> SUFFICES ASSUME call[c].alone, NEW f \in DOMAIN read
               PROVE  read[f] = Calendar[call[c].now][f]
    OBVIOUS
  <2>1. CASE f = n
    <3>1. v = Calendar[call[c].now][n]
      BY <1>1, FoundAlone
    <3>2. QED
      BY <1>4, <2>1, <3>1
  <2>2. CASE f # n
    <3>1. f \in DOMAIN call[c].read /\ read[f] = call[c].read[f]
      BY <1>4, <2>2
    <3>2. QED
      BY <1>3, <3>1 DEF IsItsOwn
  <2>3. QED
    BY <2>1, <2>2
<1> HIDE DEF read
<1>11. /\ own.at = call[c].at /\ own.proc = p /\ own.now = call[c].now /\ own.read = read
       /\ own.file = call[c].file /\ own.began = call[c].began
       /\ own.oldest = call[c].oldest /\ own.alone = call[c].alone
       /\ own \in Call
  BY <1>3, <1>7 DEF Call
<1> HIDE DEF own, p
<1>12. Continues(c, own)
  BY <1>3, <1>11 DEF Continues, p
<1>13. IsRecent(own, tm'[p])
  BY <1>1, <1>3, <1>9, <1>11 DEF IsRecent
<1>14. own.alone => IsItsOwn(own, tm'[p])
  BY <1>1, <1>3, <1>10, <1>11 DEF IsItsOwn
<1>15. QED
  BY <1>1, <1>8, <1>12, <1>13, <1>14, CallContinues DEF p

(* Calls that end, and nothing else, leave the others as they were. *)
LEMMA CallsEnd ==
  ASSUME IndInv, NEW D, D \subseteq Callers, clock' = clock, tm' = tm,
         call' = [c \in Callers |-> IF c \in D THEN None ELSE call[c]]
  PROVE  TimesAreRecent' /\ AloneFindsItsOwn' /\ call' \in [Callers -> Call \cup {None}]
<1>1. \A q \in Processes : Calls(q)' \subseteq Calls(q)
  BY DEF Calls
<1>2. \A d \in Callers : call'[d] # None => call'[d] = call[d]
  OBVIOUS
<1>3. ASSUME NEW d \in Callers, call'[d] # None PROVE FindsRecent(d)'
  <2>1. call'[d] = call[d] /\ call[d] # None
    BY <1>2, <1>3
  <2>2. PICK q \in Processes : q = call[d].proc
    BY <2>1, CallUnderWay
  <2>3. FindsRecent(d)
    BY <2>1, CallUnderWay
  <2>4. \A e \in Calls(q)' : e \in Calls(q) /\ call'[e] = call[e]
    BY <1>1, <1>2 DEF Calls
  <2>5. \A e \in Calls(q)' : call[d].oldest <= call'[e].now
    BY <2>2, <2>3, <2>4 DEF FindsRecent
  <2>6. QED
    BY <2>1, <2>2, <2>3, <2>5 DEF FindsRecent, Calls
<1>4. ASSUME NEW d \in Callers, call'[d] # None, call'[d].alone PROVE FindsItsOwn(d)'
  <2>1. call'[d] = call[d] /\ call[d] # None
    BY <1>2, <1>4
  <2>2. PICK q \in Processes : q = call[d].proc
    BY <2>1, CallUnderWay
  <2>3. FindsItsOwn(d)
    BY <1>4, <2>1 DEF IndInv, AloneFindsItsOwn
  <2>4. Calls(q)' = {d}
    BY <1>1, <1>4, <2>1, <2>2, <2>3 DEF FindsItsOwn, Calls
  <2>5. QED
    BY <2>1, <2>2, <2>3, <2>4 DEF FindsItsOwn, Calls
<1>5. TimesAreRecent'
  BY <1>3 DEF TimesAreRecent, IndInv
<1>6. AloneFindsItsOwn'
  BY <1>4 DEF AloneFindsItsOwn
<1>7. QED
  BY <1>5, <1>6 DEF IndInv, TypeOK

LEMMA KilledStep ==
  ASSUME IndInv, NEW p \in Processes, Killed(p) PROVE IndInv'
<1>1. /\ call' = [c \in Callers |-> IF c \in Calls(p) THEN None ELSE call[c]]
      /\ line' = None /\ clock' = clock /\ tm' = tm
  BY DEF Killed
<1>2. Calls(p) \subseteq Callers
  BY DEF Calls
<1>3. TimesAreRecent' /\ AloneFindsItsOwn' /\ call' \in [Callers -> Call \cup {None}]
  BY <1>1, <1>2, CallsEnd
<1>4. QED
  BY <1>1, <1>3, NoLine DEF IndInv, TypeOK

(* The record of a call that has named its file. *)
Named(rec, name, now) ==
  [rec EXCEPT !.at = "stamp", !.file = name, !.read = <<>>, !.now = now]

LEMMA NamedRecord ==
  ASSUME NEW rec \in Call, NEW name \in [1..DateFields -> Nat], NEW now \in Times
  PROVE  LET own == Named(rec, name, now)
         IN  /\ own.at = "stamp" /\ own.proc = rec.proc /\ own.now = now
             /\ own.read = <<>> /\ own.file = name /\ own.began = rec.began
             /\ own.oldest = rec.oldest /\ own.alone = rec.alone
             /\ own \in Call
<1> DEFINE half == [rec EXCEPT !.at = "stamp", !.now = now]
           own == Named(rec, name, now)
<1>1. <<>> \in Seq(Nat)
  BY EmptySeq
<1>2. /\ half.at = "stamp" /\ half.proc = rec.proc /\ half.now = now
      /\ half.began = rec.began /\ half.oldest = rec.oldest /\ half.alone = rec.alone
      /\ half \in Call
  BY DEF Call
<1>3. own = [half EXCEPT !.file = name, !.read = <<>>]
  BY DEF Call, Named
<1> HIDE DEF half, own
<1>4. /\ own.at = "stamp" /\ own.proc = rec.proc /\ own.now = now
      /\ own.read = <<>> /\ own.file = name /\ own.began = rec.began
      /\ own.oldest = rec.oldest /\ own.alone = rec.alone
      /\ own \in Call
  BY <1>1, <1>2, <1>3 DEF Call
<1>5. QED
  BY <1>4 DEF own

(***************************************************************************)
(* The file is opened under the name that was read, and the clock is read  *)
(* again; or the message is given up and the call ends.                    *)
(***************************************************************************)
LEMMA OpenStep == ASSUME IndInv, NEW c \in Callers, Open(c) PROVE IndInv'
<1> DEFINE p   == call[c].proc
           own == [call[c] EXCEPT !.at = "stamp", !.file = call[c].read,
                                  !.read = <<>>, !.now = clock]
<1>1. /\ call[c] # None /\ call[c].at = "naming"
      /\ Len(call[c].read) = DateFields
      /\ line' = None /\ clock' = clock /\ tm' = tm
  BY DEF Open
<1>2. CASE call' = [call EXCEPT ![c] = None]
  <2>1. call' = [d \in Callers |-> IF d \in {c} THEN None ELSE call[d]]
    BY <1>2 DEF IndInv, TypeOK
  <2>2. TimesAreRecent' /\ AloneFindsItsOwn' /\ call' \in [Callers -> Call \cup {None}]
    BY <1>1, <2>1, CallsEnd
  <2>3. QED
    BY <1>1, <2>2, NoLine DEF IndInv, TypeOK
<1>3. CASE call' = [call EXCEPT ![c].at = "stamp", ![c].file = call[c].read,
                                ![c].read = <<>>, ![c].now = clock]
  <2>1. /\ call[c] \in Call /\ p \in Processes /\ FindsRecent(c)
        /\ call[c].now \in Nat /\ call[c].now \in Times
        /\ call[c].oldest \in Nat /\ call[c].began \in Nat /\ clock \in Nat
        /\ IsRecent(call[c], tm[p])
        /\ call[c].alone => IsItsOwn(call[c], tm[p])
    BY <1>1, CallUnderWay, UnderWayIs
  <2>2. clock \in Times /\ call \in [Callers -> Call \cup {None}]
    BY DEF IndInv, TypeOK
  <2>3. call[c].read \in Seq(Nat) /\ call[c].read \in [1..DateFields -> Nat]
    <3>1. call[c].read \in Seq(Nat)
      BY <2>1 DEF Call
    <3>2. QED
      BY <1>1, <3>1
  <2>4. call' = [call EXCEPT ![c] = own]
    BY <1>3, <2>2
  <2>5. /\ own.at = "stamp" /\ own.proc = p /\ own.now = clock /\ own.read = <<>>
        /\ own.file = call[c].read /\ own.began = call[c].began
        /\ own.oldest = call[c].oldest /\ own.alone = call[c].alone
        /\ own \in Call
    <3>1. PICK rec \in Call : rec = call[c]
      BY <2>1
    <3>2. PICK name \in [1..DateFields -> Nat] : name = call[c].read
      BY <2>3
    <3>3. PICK fresh : fresh = Named(rec, name, clock)
      OBVIOUS
    <3>4. /\ fresh.at = "stamp" /\ fresh.proc = rec.proc /\ fresh.now = clock
          /\ fresh.read = <<>> /\ fresh.file = name /\ fresh.began = rec.began
          /\ fresh.oldest = rec.oldest /\ fresh.alone = rec.alone
          /\ fresh \in Call
      BY <2>2, <3>3, NamedRecord
    <3>5. own = fresh
      BY <3>1, <3>2, <3>3 DEF Named
    <3> HIDE DEF own
    <3>6. QED
      BY <3>1, <3>2, <3>4, <3>5
  <2> HIDE DEF own, p
  <2>6. call[c].began <= call[c].now /\ call[c].now <= clock /\ call[c].oldest <= clock
    BY <2>1 DEF FindsRecent
  <2>7. Continues(c, own)
    BY <2>1, <2>5, <2>6 DEF Continues, p
  <2>8. IsRecent(own, tm'[p])
    <3>1. AreWithin(<<>>, call[c].oldest, clock)
      BY DEF AreWithin
    <3>2. AreWithin(call[c].read, call[c].oldest, clock) /\ call[c].oldest <= tm[p]
      BY <1>1, <2>1 DEF IsRecent
    <3>3. QED
      BY <1>1, <2>1, <2>5, <3>1, <3>2 DEF IsRecent
  <2>9. own.alone => IsItsOwn(own, tm'[p])
    <3>1. SUFFICES ASSUME own.alone PROVE IsItsOwn(own, tm'[p])
      OBVIOUS
    <3>2. \A f \in DOMAIN call[c].read : call[c].read[f] = Calendar[call[c].now][f]
      BY <2>1, <2>5, <3>1 DEF IsItsOwn
    <3>3. call[c].read = Date(call[c].now)
      BY <1>1, <2>1, <2>3, <3>2, AllOfOneTime
    <3>4. call[c].now \in own.began..own.now
      BY <2>1, <2>5, <2>6
    <3>5. \E t \in own.began..own.now : own.file = Date(t)
      BY <2>5, <3>3, <3>4
    <3>6. \A f \in DOMAIN own.read : own.read[f] = Calendar[own.now][f]
      BY <2>5
    <3>7. QED
      BY <2>5, <3>5, <3>6 DEF IsItsOwn
  <2>10. QED
    BY <1>1, <2>4, <2>7, <2>8, <2>9, CallContinues DEF p
<1>4. QED
  BY <1>2, <1>3 DEF Open

(***************************************************************************)
(* A line is written with the fields that were read; they are recent, and  *)
(* those of a call that is alone are of the times it has read.             *)
(***************************************************************************)
LEMMA WriteStep == ASSUME IndInv, NEW c \in Callers, Write(c) PROVE IndInv'
<1>1. /\ call[c] # None /\ call[c].at = "stamping"
      /\ Len(call[c].read) = Fields
      /\ line' = [proc |-> call[c].proc, file |-> call[c].file, stamp |-> call[c].read,
                  began |-> call[c].began, oldest |-> call[c].oldest,
                  alone |-> call[c].alone]
      /\ call' = [call EXCEPT ![c] = None]
      /\ clock' = clock /\ tm' = tm
  BY DEF Write, Filed
<1>2. /\ call[c] \in Call /\ FindsRecent(c)
      /\ call[c].now \in Nat /\ call[c].now \in Times
      /\ call[c].began \in Nat /\ call[c].oldest \in Nat /\ clock \in Nat
      /\ IsRecent(call[c], tm[call[c].proc])
      /\ call[c].alone => IsItsOwn(call[c], tm[call[c].proc])
  BY <1>1, CallUnderWay, UnderWayIs
<1>3. call[c].read \in Seq(Nat) /\ call[c].read \in [1..Fields -> Nat]
  <2>1. call[c].read \in Seq(Nat)
    BY <1>2 DEF Call
  <2>2. QED
    BY <1>1, <2>1
<1>4. /\ line' \in Line
      /\ line'.file = call[c].file /\ line'.stamp = call[c].read
      /\ line'.began = call[c].began /\ line'.oldest = call[c].oldest
      /\ line'.alone = call[c].alone
  BY <1>1, <1>2, <1>3 DEF Call, Line
<1>5. TimesAreRecent' /\ AloneFindsItsOwn' /\ call' \in [Callers -> Call \cup {None}]
  <2>1. call' = [d \in Callers |-> IF d \in {c} THEN None ELSE call[d]]
    BY <1>1 DEF IndInv, TypeOK
  <2>2. QED
    BY <1>1, <2>1, CallsEnd
<1>6. TypeOK'
  BY <1>1, <1>4, <1>5 DEF IndInv, TypeOK
<1>7. FieldsAreRecent'
  BY <1>1, <1>2, <1>4 DEF FieldsAreRecent, IsRecent
<1>8. AloneIsExact'
  <2>1. ASSUME call[c].alone
        PROVE  \E t, u \in call[c].began..clock :
                 t <= u /\ call[c].file = Date(t) /\ call[c].read = Calendar[u]
    <3>1. IsItsOwn(call[c], tm[call[c].proc])
      BY <1>2, <2>1
    <3>2. call[c].read = Calendar[call[c].now]
      BY <1>1, <1>2, <1>3, <3>1, AllOfOneTime DEF IsItsOwn
    <3>3. PICK t \in call[c].began..call[c].now : call[c].file = Date(t)
      BY <1>1, <3>1 DEF IsItsOwn
    <3>4. call[c].began <= call[c].now /\ call[c].now <= clock
      BY <1>2 DEF FindsRecent
    <3>5. QED
      BY <1>2, <3>2, <3>3, <3>4
  <2>2. QED
    BY <1>1, <1>4, <2>1 DEF AloneIsExact
<1>9. QED
  BY <1>5, <1>6, <1>7, <1>8 DEF IndInv

------------------------------------------------------------------------------
(***************************************************************************)
(* IndInv is inductive, however the calls of threads and processes         *)
(* interleave.                                                             *)
(***************************************************************************)
LEMMA Inductive == Spec => []IndInv
<1>1. Init => IndInv
  BY InitLogging
<1>2. IndInv /\ [Next]_vars => IndInv'
  <2> SUFFICES ASSUME IndInv, [Next]_vars PROVE IndInv'
    OBVIOUS
  <2>1. CASE Tick
    BY <2>1, TickStep
  <2>2. ASSUME NEW c \in Callers, Convert(c) \/ ReadField(c) \/ Open(c) \/ Write(c)
        PROVE  IndInv'
    BY <2>2, ConvertStep, ReadStep, OpenStep, WriteStep
  <2>3. ASSUME NEW p \in Processes, Killed(p) PROVE IndInv'
    BY <2>3, KilledStep
  <2>4. ASSUME NEW p \in Processes, NEW c \in Callers, Begin(c, p) PROVE IndInv'
    BY <2>4, BeginStep
  <2>5. CASE UNCHANGED vars
    <3>1. line' = line /\ clock' = clock /\ tm' = tm /\ call' = call
      BY <2>5 DEF vars
    <3>2. QED
      BY <3>1 DEF IndInv, TypeOK, TimesAreRecent, FindsRecent, FieldsAreRecent,
                  AloneFindsItsOwn, FindsItsOwn, AloneIsExact, Calls
  <2>6. QED
    BY <2>1, <2>2, <2>3, <2>4, <2>5 DEF Next
<1>3. QED
  BY <1>1, <1>2, PTL DEF Spec

(* While the date does not change, a recent one is right. *)
LEMMA DateOfFields ==
  ASSUME TypeOK, NEW first \in Nat, QuietSince(first), NEW fields, NEW n \in Nat,
         DateFields <= n, fields \in [1..n -> Nat], AreWithin(fields, first, clock)
  PROVE  \A f \in 1..DateFields : fields[f] = Calendar[clock][f]
<1> SUFFICES ASSUME NEW f \in 1..DateFields PROVE fields[f] = Calendar[clock][f]
  OBVIOUS
<1>1. f \in DOMAIN fields /\ clock \in Nat
  BY LoggingAssumption DEF TypeOK, Times
<1>2. PICK t \in first..clock : fields[f] \in {Calendar[t][f], Universal[t][f]}
  BY <1>1 DEF AreWithin
<1>3. clock \in first..clock
  BY <1>1, <1>2
<1>4. Universal[t][f] = Calendar[clock][f] /\ Universal[t][f] = Calendar[t][f]
  BY <1>2, <1>3 DEF QuietSince
<1>5. QED
  BY <1>2, <1>4

LEMMA DateFromFields == ASSUME IndInv PROVE DateIsRight
<1> SUFFICES ASSUME line # None, QuietSince(line.oldest)
             PROVE  \A f \in 1..DateFields :
                      line.file[f] = Calendar[clock][f] /\ line.stamp[f] = Calendar[clock][f]
  BY DEF DateIsRight
<1>1. TypeOK /\ line \in Line
  BY DEF IndInv, TypeOK
<1>2. /\ line.file \in [1..DateFields -> Nat] /\ line.stamp \in [1..Fields -> Nat]
      /\ line.oldest \in Nat
      /\ DateFields \in Nat /\ Fields \in Nat /\ DateFields <= Fields
  BY <1>1, LoggingAssumption DEF Line, Times
<1>3. /\ AreWithin(line.file, line.oldest, clock)
      /\ AreWithin(line.stamp, line.oldest, clock)
  BY DEF IndInv, FieldsAreRecent
<1>4. \A f \in 1..DateFields : line.file[f] = Calendar[clock][f]
  BY <1>1, <1>2, <1>3, DateOfFields
<1>5. \A f \in 1..DateFields : line.stamp[f] = Calendar[clock][f]
  BY <1>1, <1>2, <1>3, DateOfFields
<1>6. QED
  BY <1>4, <1>5

(***************************************************************************)
(* No field of a line's stamp, or of the name of its file, is of a time    *)
(* before the oldest call it overlaps with or of one to come, whatever is  *)
(* torn; and the date is right unless it changes meanwhile                 *)
(* (utils.cpp:13-34).                                                      *)
(***************************************************************************)
THEOREM LinesAreRecent == Spec => []LoggingInv
<1>1. IndInv => LoggingInv
  BY DateFromFields DEF IndInv, LoggingInv
<1>2. QED
  BY <1>1, Inductive, PTL

(***************************************************************************)
(* A call no other one of its process overlaps with stamps its line with a *)
(* time within the call and files it no later than that (utils.cpp:28-34). *)
(***************************************************************************)
THEOREM AloneExact == Spec => []AloneIsExact
<1>1. IndInv => AloneIsExact
  BY DEF IndInv
<1>2. QED
  BY <1>1, Inductive, PTL
==============================================================================
