------------------------------- MODULE Logging -------------------------------
(***************************************************************************)
(* logMessage of src/utils.cpp, called by threads of several processes.    *)
(* It reads the clock twice, for the name of the file and for the stamp    *)
(* of the line, and each time localtime writes the one struct tm its       *)
(* process has and strftime reads it, field by field and with no lock.     *)
(***************************************************************************)
EXTENDS Integers, Sequences, FiniteSets, FiniteSetsExt

CONSTANTS
  Callers,    \* threads that log
  Processes,  \* processes they may belong to
  Fields,     \* fields of a stamp, in the order of the format: six in the code
  DateFields, \* the first of them, which name the file: year, month and day
  Calendar,   \* the fields of each time, where the program runs
  Universal,  \* those of the same time in Greenwich
  MaxClock,   \* bound: the clock stops here
  None

Times == 0..MaxClock

ASSUME LoggingAssumption ==
  /\ IsFiniteSet(Callers)
  /\ MaxClock \in Nat
  /\ Fields \in Nat
  /\ DateFields \in 0..Fields
  /\ Calendar \in [Times -> [1..Fields -> Nat]]
  /\ Universal \in [Times -> [1..Fields -> Nat]]
  /\ None \notin Processes

VARIABLES
  clock,  \* time(nullptr)
  call,   \* per thread, its call of logMessage, or None
  tm,     \* per process, what localtime returns a pointer to, as a time
  line    \* history: the line the last step wrote, or None

vars == <<clock, call, tm, line>>

(***************************************************************************)
(* A call: it converts a time ("name", "stamp"), then reads the fields of  *)
(* the name ("naming") or the stamp ("stamping").  began, oldest and alone *)
(* are history: see Begin.                                                 *)
(***************************************************************************)
Call == [proc : Processes, at : {"name", "naming", "stamp", "stamping"},
         now : Times, read : Seq(Nat), file : [1..DateFields -> Nat],
         began : Times, oldest : Times, alone : BOOLEAN]
Line == [proc : Processes, file : [1..DateFields -> Nat], stamp : [1..Fields -> Nat],
         began : Times, oldest : Times, alone : BOOLEAN]

TypeOK ==
  /\ clock \in Times
  /\ call \in [Callers -> Call \cup {None}]
  /\ tm \in [Processes -> Times]
  /\ line \in Line \cup {None}

Init ==
  /\ clock = 0
  /\ call = [c \in Callers |-> None]
  /\ tm = [p \in Processes |-> 0]
  /\ line = None

(* Calls of a process that are under way. *)
Calls(p) == {c \in Callers : call[c] # None /\ call[c].proc = p}

Tick ==
  /\ clock < MaxClock
  /\ clock' = clock + 1
  /\ line' = None
  /\ UNCHANGED <<call, tm>>

(***************************************************************************)
(* A call begins by reading the clock for the name of the file.  oldest is *)
(* the earliest time any call it overlaps with began; alone, that there is *)
(* no such call.                                                           *)
(***************************************************************************)
Begin(c, p) ==
  LET others == Calls(p) IN
  /\ call[c] = None
  /\ call' = [d \in Callers |->
       IF d = c THEN
         [proc |-> p, at |-> "name", now |-> clock, read |-> <<>>,
          file |-> [f \in 1..DateFields |-> 0], began |-> clock,
          oldest |-> Min({clock} \cup {call[o].began : o \in others}),
          alone |-> others = {}]
       ELSE IF d \in others THEN [call[d] EXCEPT !.alone = FALSE] ELSE call[d]]
  /\ line' = None
  /\ UNCHANGED <<clock, tm>>

(* Mutation of LocalTime: the conversion is kept from the call before. *)
LocalTimeOnce(c) == tm' = IF tm[call[c].proc] = 0
                          THEN [tm EXCEPT ![call[c].proc] = call[c].now] ELSE tm

LocalTime(c) == tm' = [tm EXCEPT ![call[c].proc] = call[c].now]

(* localtime returns: of the threads in it, the last to return is left in tm. *)
Convert(c) ==
  /\ call[c] # None
  /\ call[c].at \in {"name", "stamp"}
  /\ LocalTime(c)
  /\ call' = [call EXCEPT ![c].at = IF @ = "name" THEN "naming" ELSE "stamping"]
  /\ line' = None
  /\ UNCHANGED clock

(***************************************************************************)
(* What strftime may find in field f of tm: what was stored last, or what  *)
(* another thread of the process is storing meanwhile.  localtime may      *)
(* store the time in Greenwich before it knows the offset of the zone.     *)
(***************************************************************************)
Storing(c) == {d \in Calls(call[c].proc) : call[d].at \in {"name", "stamp"}}
Found(c, f) ==
  {Calendar[tm[call[c].proc]][f]}
    \cup {Calendar[call[d].now][f] : d \in Storing(c)}
    \cup {Universal[call[d].now][f] : d \in Storing(c)}

Wanted(c) == IF call[c].at = "naming" THEN DateFields ELSE Fields

(* strftime reads the next field. *)
ReadField(c) ==
  /\ call[c] # None
  /\ call[c].at \in {"naming", "stamping"}
  /\ Len(call[c].read) < Wanted(c)
  /\ \E v \in Found(c, Len(call[c].read) + 1) :
       call' = [call EXCEPT ![c].read = Append(@, v)]
  /\ line' = None
  /\ UNCHANGED <<clock, tm>>

(* The name is complete; the file is opened, or the message is given up. *)
Open(c) ==
  /\ call[c] # None
  /\ call[c].at = "naming"
  /\ Len(call[c].read) = DateFields
  /\ \/ call' = [call EXCEPT ![c].at = "stamp", ![c].file = call[c].read,
                             ![c].read = <<>>, ![c].now = clock]
     \/ call' = [call EXCEPT ![c] = None]
  /\ line' = None
  /\ UNCHANGED <<clock, tm>>

Date(t) == [f \in 1..DateFields |-> Calendar[t][f]]

(* Mutation of Filed: the file is the one of the time of writing. *)
FiledLate(c) == Date(clock)

Filed(c) == call[c].file

(* The line goes out in one append. *)
Write(c) ==
  /\ call[c] # None
  /\ call[c].at = "stamping"
  /\ Len(call[c].read) = Fields
  /\ line' = [proc |-> call[c].proc, file |-> Filed(c), stamp |-> call[c].read,
              began |-> call[c].began, oldest |-> call[c].oldest,
              alone |-> call[c].alone]
  /\ call' = [call EXCEPT ![c] = None]
  /\ UNCHANGED <<clock, tm>>

(* A process ends, whatever its threads are at. *)
Killed(p) ==
  /\ Calls(p) # {}
  /\ call' = [c \in Callers |-> IF c \in Calls(p) THEN None ELSE call[c]]
  /\ line' = None
  /\ UNCHANGED <<clock, tm>>

Next ==
  \/ Tick
  \/ \E c \in Callers : Convert(c) \/ ReadField(c) \/ Open(c) \/ Write(c)
  \/ \E p \in Processes : Killed(p) \/ \E c \in Callers : Begin(c, p)

Spec == Init /\ [][Next]_vars

------------------------------------------------------------------------------
(* Each of some fields is that of a time from first to last, here or in Greenwich. *)
AreWithin(fields, first, last) ==
  \A f \in DOMAIN fields :
    \E t \in first..last : fields[f] \in {Calendar[t][f], Universal[t][f]}

(***************************************************************************)
(* With several threads a stamp, and the name of a file, may be put        *)
(* together from several times, so that the whole need not even be a date, *)
(* but no field of them is older than the oldest call the line's own       *)
(* overlaps with, or still to come (utils.cpp:13-34).                      *)
(***************************************************************************)
FieldsAreRecent ==
  line # None =>
    /\ AreWithin(line.file, line.oldest, clock)
    /\ AreWithin(line.stamp, line.oldest, clock)

(* Whatever call c finds in tm is no older than the oldest call it overlaps with. *)
FindsRecent(c) ==
  LET own == call[c] IN
  /\ own.oldest <= own.began /\ own.began <= own.now /\ own.now <= clock
  /\ \A d \in Calls(own.proc) : own.oldest <= call[d].now
  /\ own.at # "name" => own.oldest <= tm[own.proc]
  /\ AreWithin(own.read, own.oldest, clock)
  /\ own.at \in {"stamp", "stamping"} => AreWithin(own.file, own.oldest, clock)

TimesAreRecent ==
  /\ \A p \in Processes : tm[p] <= clock
  /\ \A c \in Callers : call[c] # None => FindsRecent(c)

(* A call that is alone finds in tm what it has stored there itself. *)
FindsItsOwn(c) ==
  LET own == call[c] IN
  /\ Calls(own.proc) = {c}
  /\ own.at \in {"naming", "stamping"} => tm[own.proc] = own.now
  /\ \A f \in DOMAIN own.read : own.read[f] = Calendar[own.now][f]
  /\ own.at \in {"stamp", "stamping"} =>
       \E t \in own.began..own.now : own.file = Date(t)

AloneFindsItsOwn ==
  \A c \in Callers : call[c] # None /\ call[c].alone => FindsItsOwn(c)

(***************************************************************************)
(* What is left of the date when several threads log: it is right unless   *)
(* the date changes, here or in Greenwich, while the line's own call or an *)
(* older one it overlaps with is under way (utils.cpp:16, 31).             *)
(***************************************************************************)
QuietSince(first) ==
  \A t, u \in first..clock :
    \A f \in 1..DateFields : Universal[t][f] = Calendar[u][f]

DateIsRight ==
  line # None /\ QuietSince(line.oldest) =>
    \A f \in 1..DateFields :
      line.file[f] = Calendar[clock][f] /\ line.stamp[f] = Calendar[clock][f]

(***************************************************************************)
(* Why lines are recent, and exact of one thread alone: the tm a call      *)
(* converts into is written, until the call is over, only by calls it      *)
(* overlaps with (utils.cpp:16, 31).                                       *)
(***************************************************************************)
LoggingInv ==
  /\ TypeOK
  /\ TimesAreRecent
  /\ FieldsAreRecent
  /\ DateIsRight
  /\ AloneFindsItsOwn

(***************************************************************************)
(* Of one thread alone the stamp is a time within the call, and the file   *)
(* that of the date then or at a time before within the call, never that   *)
(* of a later one (utils.cpp:21-33).                                       *)
(***************************************************************************)
AloneIsExact ==
  line # None /\ line.alone =>
    \E t, u \in line.began..clock :
      t <= u /\ line.file = Date(t) /\ line.stamp = Calendar[u]
==============================================================================
