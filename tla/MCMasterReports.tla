--------------------------- MODULE MCMasterReports ---------------------------
(* Instances of MasterReports for TLC. *)
EXTENDS MasterReports

MCPort == [s \in Servers |-> IF s \in Modules1 THEN 11 ELSE 1]

(* A bare configuration, and one with names and players. *)
MCConfigs ==
  {[ip |-> <<49>>, name |-> <<>>, map |-> <<>>, players |-> 0,
    maxPlayers |-> 0, version |-> 1, playersList |-> <<>>],
   [ip |-> <<49, 49>>, name |-> <<65, 66>>, map |-> <<67>>, players |-> 2,
    maxPlayers |-> 10, version |-> 48, playersList |-> <<<<68>>, <<69, 70>>>>]}
==============================================================================
