------------------------------ MODULE MCLogging ------------------------------
(* Instances of Logging for TLC. *)
EXTENDS Logging

(* Month, day and hour around the end of January; Greenwich is an hour behind. *)
MCCalendar == [t \in Times |-> <<<<1, 31, 23>>, <<2, 1, 0>>, <<2, 1, 1>>>>[t + 1]]
MCUniversal == [t \in Times |-> <<<<1, 31, 22>>, <<1, 31, 23>>, <<2, 1, 0>>>>[t + 1]]
==============================================================================
